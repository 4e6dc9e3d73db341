------------------------------- MODULE MCAgent -------------------------------
(* The agent's program and the controller alone, for TLC. *)
EXTENDS Agent
=============================================================================
