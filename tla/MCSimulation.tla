---------------------------- MODULE MCSimulation ----------------------------
(* Small instances of Simulation for TLC.  No symmetry: the run checks     *)
(* liveness.                                                               *)
EXTENDS Simulation
=============================================================================
