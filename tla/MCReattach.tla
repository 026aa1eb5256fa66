---------------------------- MODULE MCReattach ------------------------------
(* Model-checking instance of Reattach.  Frames and the counters they      *)
(* carry stay within these ranges, so TypeOK can be evaluated.             *)
EXTENDS Reattach
=============================================================================
