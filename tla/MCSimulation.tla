---------------------------- MODULE MCSimulation ----------------------------
(* TLC instances of Simulation. *)
EXTENDS SimulationProps
TwoMessages == {"m1", "m2"}
=============================================================================
