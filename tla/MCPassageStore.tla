--------------------------- MODULE MCPassageStore ---------------------------
(***************************************************************************)
(* Small instances of PassageStore for TLC.                                *)
(***************************************************************************)
EXTENDS PassageStore, TLC

CONSTANTS a, b
MCKeys == {<<a>>, <<a, b>>}
MCLegacy == (a :> 1) @@ (b :> 0)
ThreadSymmetry == Permutations(Threads)
=============================================================================
