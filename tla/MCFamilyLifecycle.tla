------------------------- MODULE MCFamilyLifecycle -------------------------
(***************************************************************************)
(* Small instances of FamilyLifecycle for TLC.                             *)
(***************************************************************************)
EXTENDS FamilyLifecycle, TLC

ImporterSymmetry == Permutations(Importers)
=============================================================================
