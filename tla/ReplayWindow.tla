---------------------------- MODULE ReplayWindow ----------------------------
(***************************************************************************)
(* What a session slot promises about the terminal output it keeps for a   *)
(* client that reconnects, without saying how the bytes are stored.        *)
(*                                                                         *)
(* Output chunks are numbered 0, 1, 2, ... in the order they were read     *)
(* from the PTY.  At any moment the slot retains exactly the chunks        *)
(* low .. next - 1.  The end-to-end module Reattach keeps the slot's       *)
(* output in this form; OutputBuffer, the translation of                   *)
(* SequencedOutputBuffer, is shown to implement it.                        *)
(***************************************************************************)
EXTENDS Naturals

VARIABLES
  low,         \* number of the oldest chunk that is retained
  next,        \* number the next chunk will get
  acked,       \* how many chunks the client has said it applied
  overflowed   \* whether an unacknowledged chunk may have been dropped

vars == <<low, next, acked, overflowed>>

Init ==
  /\ low = 0
  /\ next = 0
  /\ acked = 0
  /\ overflowed = FALSE

(* A chunk arrives.  Any number of the oldest chunks may be given up to    *)
(* make room for it, but never the new one, and giving one up is recorded. *)
Produce ==
  /\ next' = next + 1
  /\ low' \in low .. next
  /\ overflowed' = (overflowed \/ low' # low)
  /\ UNCHANGED acked

(* The client has applied the chunks below n: they need not be kept.       *)
Acknowledge(n) ==
  /\ acked' = IF n > acked THEN n ELSE acked
  /\ low' = IF n > low THEN n ELSE low
  /\ UNCHANGED <<next, overflowed>>

Next ==
  \/ Produce
  \/ \E n \in 0 .. next : Acknowledge(n)

Spec == Init /\ [][Next]_vars
=============================================================================
