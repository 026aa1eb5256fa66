----------------------------- MODULE MCConnect -----------------------------
(* Two processes, one with an authorized key, and a name that leads to two *)
(* servers; and, on its own, the framing of a reliable stream.  `machine`  *)
(* says which of the two runs; the other stays in its initial state.       *)
EXTENDS Connect, TLC

CONSTANTS c1, c2, k1, k2, Messages, Base, HeaderLen, MAX_FRAME_LEN, MaxFrames

VARIABLES machine, sent, flight, open, arrived, read, got, result, lost

framingVars == <<sent, flight, open, arrived, read, got, result, lost>>

Frames == INSTANCE Framing

ASSUME FrameAssumption == Frames!FramingAssumption

MCKeyOf == c1 :> k1 @@ c2 :> k2
MCMaxConns == [native |-> 3, wt |-> 2]
MCMessages == {<<0>>, <<1, 2>>, <<2, 2, 1>>}
Symmetry == Permutations(Servers)

MCInit ==
    /\ machine \in {"connect", "framing"}
    /\ Init /\ (machine # "connect" => mode = "native")
    /\ Frames!Init

MCNext ==
    /\ UNCHANGED machine
    /\ \/ machine = "connect" /\ Next /\ UNCHANGED framingVars
       \/ machine = "framing" /\ Frames!Next /\ UNCHANGED vars

MCSpec == MCInit /\ [][MCNext]_<<machine, vars, framingVars>>

---------------------------------------------------------------------------
\* See Framing: dropping a partial read is all that takes a stream out of sync.
OnlyDroppedReadsDesync == Frames!OnlyDroppedReadsDesync

\* See Framing: a reliable stream stays in sync.
InSync == Frames!InSync
=============================================================================
