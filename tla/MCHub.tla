------------------------------- MODULE MCHub -------------------------------
(* Small instances of Hub for TLC.                                         *)
EXTENDS Hub, TLC

Symmetry == Permutations(Clients) \cup Permutations(Symbols) \cup Permutations(Types)
              \cup Permutations(Dates)
=============================================================================
