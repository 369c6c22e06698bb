--------------------------- MODULE MCStoreMachine ---------------------------
(* TLC instance of StoreMachine: four parties, two bodies, every owner. *)
EXTENDS StoreMachine
CONSTANTS b1, b2
MCBody == {b1, b2}
=============================================================================
