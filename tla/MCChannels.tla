----------------------------- MODULE MCChannels -----------------------------
(* Model-checking instance of Channels.                                    *)
EXTENDS Channels

(* Bound: a user who pages up more often sees less output, and what        *)
(* follows a dropped read is looked at without a history.                  *)
Budget ==
  /\ pageups + printed <= 5
  /\ pageRead = "torn" \/ reqRead = "torn" => printed = 0
=============================================================================
