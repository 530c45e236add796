------------------------ MODULE MCHydrationManager ------------------------
(* Small instances of HydrationManager for TLC.                            *)
EXTENDS HydrationManager, TLC

Symmetry ==
  Permutations(Series) \cup Permutations(Callers) \cup Permutations(Tasks)
=============================================================================
