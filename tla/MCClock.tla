------------------------------ MODULE MCClock ------------------------------
(* Small instances of Clock for TLC.                                       *)
EXTENDS Clock, TLC

Symmetry == Permutations(Configs) \cup Permutations(Handlers) \cup Permutations(Pipes)
=============================================================================
