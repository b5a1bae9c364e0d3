----------------------------- MODULE MCReadSide -----------------------------
(* TLC's view of ReadSide: the writers are interchangeable. *)
EXTENDS ReadSide, TLC

WriterSymmetry == Permutations(Writers)
=============================================================================
