---------------------------- MODULE MCStateSync -----------------------------
(* Model-checking instance of StateSync.                                   *)
EXTENDS StateSync

(* Bound: a shell that changes the grid twice leaves time for one request, *)
(* one that changes it once for two.                                       *)
Budget == changes + asked <= 3
=============================================================================
