------------------------- MODULE MCSessionRegistry --------------------------
(* Model-checking instance of SessionRegistry: slots, handlers and         *)
(* identities are interchangeable.                                         *)
EXTENDS SessionRegistry, TLC

Symmetry ==
  Permutations(Slots) \cup Permutations(Handlers) \cup Permutations(Identities)
=============================================================================
