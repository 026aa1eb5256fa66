----------------------------- MODULE InputPath -----------------------------
(***************************************************************************)
(* The bytes of the client's stdin on their way to the shell: the stdin    *)
(* arm of run_pump feeds each read to the CsiAccumulator, which takes the  *)
(* Shift-PageUp/Down sequences out, and the rest to the escape machine,    *)
(* which recognises `~.` and `~~` at the start of a line.  While the       *)
(* client waits to reconnect, quit_during_backoff reads stdin instead.     *)
(*                                                                         *)
(* How the operating system cuts the bytes into reads is arbitrary.  The   *)
(* two paging sequences are parameters; the code's are ESC [ 5 ; 2 ~ and   *)
(* ESC [ 6 ; 2 ~, of which an instance may leave out bytes that occur      *)
(* nowhere else.                                                           *)
(***************************************************************************)
EXTENDS Integers, Sequences, SequencesExt

CONSTANTS
    CSI_SHIFT_PAGEUP, CSI_SHIFT_PAGEDOWN,
    Bytes,      \* the bytes a user may type
    MaxBytes    \* bound on the bytes typed in one pump

EOL == {"CR", "LF"}
CtrlC == "ETX"
Sequences2 == {CSI_SHIFT_PAGEUP, CSI_SHIFT_PAGEDOWN}

\* What the constants of an instance satisfy: the two sequences are of one length, and
\* what they start with, ESC, comes only at their start.
InputAssumption ==
    /\ Sequences2 \subseteq Seq(Bytes) \ {<<>>}
    /\ Len(CSI_SHIFT_PAGEUP) = Len(CSI_SHIFT_PAGEDOWN)
    /\ \A q, r \in Sequences2 : \A i \in 2..Len(q) : q[i] # r[1]
    /\ MaxBytes \in Nat

VARIABLES
    phase,      \* "pump", "backoff", "quit" (~. in a session), "abandoned" (quit in backoff)
    pending,    \* CsiAccumulator.pending
    escape,     \* EscapeState
    sent,       \* bytes given to send_input by this pump
    listening,  \* quit_during_backoff has not yet returned from its read
    typed       \* history: bytes read by this pump

vars == <<phase, pending, escape, sent, listening, typed>>

---------------------------------------------------------------------------
StartsAt(b, i, q) == i + Len(q) - 1 <= Len(b) /\ SubSeq(b, i, i + Len(q) - 1) = q

\* A proper, non-empty prefix of a paging sequence.
is_paging_prefix(b) ==
    b # <<>> /\ \E q \in Sequences2 : Len(b) < Len(q) /\ SubSeq(q, 1, Len(b)) = b

\* The i-th of the bytes b in the loop of CsiAccumulator::process: one of a sequence found
\* before, one that ends the loop and is held with all that follow, or one to forward.
CsiStep(acc, b, i) ==
    LET rest == SubSeq(b, i, Len(b))
    IN  IF acc.hold # <<>> THEN acc
        ELSE IF acc.skip > 0 THEN [acc EXCEPT !.skip = @ - 1]
        ELSE IF StartsAt(b, i, CSI_SHIFT_PAGEUP)
        THEN [acc EXCEPT !.skip = Len(CSI_SHIFT_PAGEUP) - 1]
        ELSE IF StartsAt(b, i, CSI_SHIFT_PAGEDOWN)
        THEN [acc EXCEPT !.skip = Len(CSI_SHIFT_PAGEDOWN) - 1]
        ELSE IF is_paging_prefix(rest) THEN [acc EXCEPT !.hold = rest]
        ELSE [acc EXCEPT !.out = Append(@, b[i])]

CsiProcess(b) ==
    LET after[i \in 0..Len(b)] ==
            IF i = 0 THEN [out |-> <<>>, hold |-> <<>>, skip |-> 0]
            ELSE CsiStep(after[i - 1], b, i)
    IN  after[Len(b)]

After(c) == IF c \in EOL THEN "LineStart" ELSE "MidLine"

EscapeStepDropsTilde(e, c) ==
    CASE e.quit -> e
      [] ~e.quit /\ c = "~" /\ e.at = "LineStart" -> [e EXCEPT !.at = "SeenTilde"]
      [] ~e.quit /\ c = "." /\ e.at = "SeenTilde" -> [e EXCEPT !.quit = TRUE]
      [] OTHER -> [e EXCEPT !.out = Append(@, c), !.at = After(c)]

\* One byte of EscapeState::process; nothing is taken after a quit.
EscapeStep(e, c) ==
    CASE e.quit -> e
      [] ~e.quit /\ e.at = "LineStart" ->
            IF c = "~" THEN [e EXCEPT !.at = "SeenTilde"]
                       ELSE [e EXCEPT !.out = Append(@, c), !.at = After(c)]
      [] ~e.quit /\ e.at = "SeenTilde" ->
            IF c = "." THEN [e EXCEPT !.quit = TRUE]
            ELSE IF c = "~" THEN [e EXCEPT !.out = Append(@, c), !.at = "MidLine"]
            ELSE [e EXCEPT !.out = @ \o <<"~", c>>, !.at = After(c)]
      [] ~e.quit /\ e.at = "MidLine" ->
            [e EXCEPT !.out = Append(@, c), !.at = After(c)]

EscapeProcess(at, b) ==
    LET after[i \in 0..Len(b)] ==
            IF i = 0 THEN [at |-> at, out |-> <<>>, quit |-> FALSE]
            ELSE EscapeStep(after[i - 1], b[i])
    IN  after[Len(b)]

---------------------------------------------------------------------------
TypeOK ==
    /\ phase \in {"pump", "backoff", "quit", "abandoned"}
    /\ is_paging_prefix(pending) \/ pending = <<>>
    /\ escape \in {"LineStart", "SeenTilde", "MidLine"}
    /\ sent \in Seq(Bytes) /\ listening \in BOOLEAN /\ typed \in Seq(Bytes)

Init ==
    /\ phase = "pump" /\ pending = <<>> /\ escape = "LineStart"
    /\ sent = <<>> /\ listening = FALSE /\ typed = <<>>

Reads(n) == UNION {[1..k -> Bytes] : k \in 1..n}

\* The stdin arm of run_pump; what it would forward is dropped when the user quits.
StdinRead ==
    /\ phase = "pump"
    /\ \E b \in Reads(MaxBytes - Len(typed)) :
        LET csi == CsiProcess(pending \o b)
            esc == EscapeProcess(escape, csi.out)
        IN  /\ typed' = typed \o b
            /\ pending' = csi.hold
            /\ escape' = esc.at
            /\ phase' = IF esc.quit THEN "quit" ELSE "pump"
            /\ sent' = IF esc.quit THEN sent ELSE sent \o esc.out
    /\ UNCHANGED listening

\* The transport drops: the pump's machines go with it and the client waits to reconnect.
TransportDrop ==
    /\ phase = "pump"
    /\ phase' = "backoff"
    /\ listening' = TRUE
    /\ UNCHANGED <<pending, escape, sent, typed>>

WantsQuit(b) ==
    \/ CtrlC \in Range(b)
    \/ \E i \in 1..(Len(b) - 1) : b[i] = "~" /\ b[i + 1] = "."

\* quit_during_backoff: one read; anything but a request to quit is swallowed, and the
\* wait reads no more.
BackoffRead ==
    /\ phase = "backoff" /\ listening
    /\ \E b \in Reads(2) : phase' = IF WantsQuit(b) THEN "abandoned" ELSE "backoff"
    /\ listening' = FALSE
    /\ UNCHANGED <<pending, escape, sent, typed>>

\* The next attempt succeeds: a new pump with new machines.
Reconnect ==
    /\ phase = "backoff"
    /\ phase' = "pump" /\ listening' = FALSE
    /\ pending' = <<>> /\ escape' = "LineStart" /\ sent' = <<>> /\ typed' = <<>>

\* The process is gone.
Exited == phase \in {"quit", "abandoned"} /\ UNCHANGED vars

Next == StdinRead \/ TransportDrop \/ BackoffRead \/ Reconnect \/ Exited

Spec == Init /\ [][Next]_vars

---------------------------------------------------------------------------
(* What the stream means, read as a whole. *)

\* Positions inside a complete paging sequence, and of the prefix at the end that may become one.
Paging(b) == {j \in DOMAIN b : \E i \in 1..j, q \in Sequences2 : StartsAt(b, i, q) /\ j < i + Len(q)}
Held(b) == {j \in DOMAIN b : \E i \in 1..j : is_paging_prefix(SubSeq(b, i, Len(b)))} \ Paging(b)
\* The bytes of b at the positions S, in order: of the first i bytes, and of all.
PickAt(b, S, before, i) == IF i \in S THEN Append(before, b[i]) ELSE before
Picked(b, S) ==
    LET picked[i \in 0..Len(b)] == IF i = 0 THEN <<>> ELSE PickAt(b, S, picked[i - 1], i)
    IN  picked
Pick(b, S) == Picked(b, S)[Len(b)]
Kept(b) == DOMAIN b \ (Paging(b) \cup Held(b))
Plain(b) == Pick(b, Kept(b))

\* A tilde at the start of a line; it introduces an escape or waits for its second byte.
Introduces(p, i) == p[i] = "~" /\ (i = 1 \/ p[i - 1] \in EOL)
Escapes(p) == \E i \in 1..(Len(p) - 1) : Introduces(p, i) /\ p[i + 1] = "."
Forwarded(p) ==
    Pick(p, {i \in DOMAIN p : ~(Introduces(p, i) /\ (i = Len(p) \/ p[i + 1] = "~"))})

(***************************************************************************)
(* However the stream is cut into reads, the shell is sent every byte      *)
(* typed, once and in order, but the paging sequences, the first tilde of  *)
(* `~~` and what is held because it may still become a sequence or an      *)
(* escape (the split-read claim of CsiAccumulator and EscapeState).        *)
(***************************************************************************)
SentIsTyped ==
    phase = "pump" => sent = Forwarded(Plain(typed))

(***************************************************************************)
(* A pump ends by `~.` exactly when the two bytes follow each other at the *)
(* start of a line once the paging sequences, which end in a tilde, are    *)
(* taken out: never for a tilde in mid-line, after `~~`, or of a sequence. *)
(***************************************************************************)
QuitIsEscape ==
    /\ phase = "pump" => ~Escapes(Plain(typed))
    /\ phase = "quit" => Escapes(Plain(typed))
=============================================================================
