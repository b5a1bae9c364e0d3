--------------------------- MODULE MCContextStore ---------------------------
(***************************************************************************)
(* Small instances of ContextStore for TLC.                                *)
(***************************************************************************)
EXTENDS ContextStore, TLC

MCBatches == {<<TRUE>>, <<TRUE, FALSE>>, <<FALSE, TRUE>>}
MCSingleFaults == FaultKinds \ {"releak", "resetsync"}
MCSaveFaults == {"stage", "meta", "commit", "load"}
MCGrowing == {<<TRUE>>, <<TRUE, TRUE>>}
ThreadSymmetry == Permutations(Threads)
=============================================================================
