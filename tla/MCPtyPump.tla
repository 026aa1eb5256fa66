---------------------------- MODULE MCPtyPump -------------------------------
(* Model-checking instance of PtyPump: the capacities are set in the cfg   *)
(* file, small enough that every buffer can be full at the same time.      *)
EXTENDS PtyPump
=============================================================================
