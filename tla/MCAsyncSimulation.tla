------------------------- MODULE MCAsyncSimulation -------------------------
(* TLC instances of AsyncSimulation. *)
EXTENDS AsyncSimulationProps
TwoMessages == {"m1", "m2"}
=============================================================================
