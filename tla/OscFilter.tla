----------------------------- MODULE OscFilter ------------------------------
(***************************************************************************)
(* Out-of-band terminal control: the OSC sequences (titles, clipboard      *)
(* writes, links) in what the shell prints.  TerminalState::advance lets   *)
(* osc_prefilter scan each read of the PTY before the vte parser gets it,  *)
(* so that the parser holds a bounded part of one sequence; osc_dispatch   *)
(* keeps the latest control of each kind; the connection's pump drains     *)
(* them after each read and sends them on the reliable stream; the client  *)
(* writes them to its terminal.                                            *)
(*                                                                         *)
(* The first byte of a payload stands for its number and its contents: a   *)
(* member of Titles, Clips or Links is what the sequence sets.  The parser *)
(* is external: it takes 7-bit introducers only, so 0x9D is to it a byte   *)
(* of a character (the last one of U+201D).                                *)
(***************************************************************************)
EXTENDS Naturals, Sequences

CONSTANTS
  Reads,                  \* what one read of the PTY may return
  Titles, Clips, Links,   \* first bytes: OSC 0/2, an OSC 52 write, an OSC 8 of a listed scheme
  Refused,                \* the Clips whose selection the client does not accept
  OSC_ACCUMULATION_MAX, MAX_TITLE_BYTES, OSC_52_MAX_BYTES,
  Status,                 \* --status: the client's title line is its own
  None,
  MaxRaw,                 \* bound: bytes the parser holds
  WireCap,                \* bound: controls on the stream (flow control, external)
  MaxReads                \* bound: reads of the PTY

(* What the constants of an instance satisfy: a read is not empty, and     *)
(* None is neither a byte, the name of a kind nor a control.               *)
OscAssumption ==
  /\ Reads \subseteq Seq(STRING) \ {<<>>} /\ OSC_ACCUMULATION_MAX \in Nat
  /\ None \notin STRING
  /\ None \notin (Titles \cup Clips \cup Links) \X BOOLEAN

VARIABLES
  in_osc, osc_byte_count, pending_esc,   \* the scanner
  vte,        \* the parser: its state, and the first byte and the length of its sequence
  pend,       \* title, osc52_pending, osc8_hyperlink_pending
  attached, wire, shown,
  tracked,    \* history: the scanner counted the sequence when the parser began it
  cut,        \* history: the parser's state where the last read was truncated, or None
  due, lost,  \* history: the latest control of each kind, and the kinds a lost connection took
  pumped,     \* history: a read was forwarded whole since the (re)attachment
  reads       \* history: reads so far

scanVars == <<in_osc, osc_byte_count, pending_esc>>
vars == <<scanVars, vte, pend, attached, wire, shown, tracked, cut, due, lost, pumped, reads>>

Kinds == {"title", "clip", "link"}
NoControls == [k \in Kinds |-> None]
Ground == [at |-> "ground", first |-> None, raw |-> 0, began |-> FALSE]

Init ==
  /\ in_osc = FALSE /\ osc_byte_count = 0 /\ pending_esc = FALSE
  /\ vte = Ground
  /\ pend = NoControls /\ due = NoControls /\ shown = NoControls
  /\ attached = TRUE /\ wire = <<>>
  /\ tracked = FALSE /\ cut = None /\ lost = {} /\ pumped = FALSE /\ reads = 0
-----------------------------------------------------------------------------
Off == [in_osc |-> FALSE, count |-> 0, esc |-> FALSE]
On == [in_osc |-> TRUE, count |-> 0, esc |-> FALSE]
Counted(s) == [s EXCEPT !.count = @ + 1]

(* The scan at byte i of b: a.scan is the scanner, a.skip says that the    *)
(* byte was taken with the one before it, and the first a.fed bytes of b   *)
(* may be fed; a.cut says that no more of them may.                        *)
ScanByte(a, b, i) ==
  LET s == a.scan
      next == IF i < Len(b) THEN b[i + 1] ELSE None
      On2(scan, skip) == [scan |-> scan, skip |-> skip, fed |-> i, cut |-> FALSE]
  IN  CASE a.cut -> a
        [] ~a.cut /\ a.skip -> On2(s, FALSE)
        [] ~a.cut /\ ~a.skip /\ ~s.in_osc ->
             IF b[i] = "9D" THEN On2(On, FALSE)
             ELSE IF b[i] = "ESC" /\ next = "]" THEN On2(On, TRUE)
             ELSE On2(s, FALSE)
        [] ~a.cut /\ ~a.skip /\ s.in_osc ->
             IF b[i] = "BEL" THEN On2(Off, FALSE)
             ELSE IF b[i] # "ESC" THEN
               IF s.count = OSC_ACCUMULATION_MAX THEN [a EXCEPT !.scan = Off, !.cut = TRUE]
                                                 ELSE On2(Counted(s), FALSE)
             ELSE IF next = None THEN On2([s EXCEPT !.esc = TRUE], FALSE)
             ELSE On2(Off, next = "\\")

(* The scan of b, whose first byte may have been taken already.            *)
Scan(b, skip, s) ==
  LET scan[i \in 0 .. Len(b)] ==
        IF i = 0 THEN [scan |-> s, skip |-> skip, fed |-> 0, cut |-> FALSE]
        ELSE ScanByte(scan[i - 1], b, i)
  IN  scan[Len(b)]

(* Mutant: the count is not carried from one read to the next.             *)
osc_prefilter_forgets(b) == Scan(b, FALSE, IF in_osc THEN On ELSE Off)

(* osc_prefilter: an ESC left over from the last read is resolved first.   *)
osc_prefilter(b) ==
  LET s == [in_osc |-> in_osc, count |-> osc_byte_count, esc |-> FALSE]
  IN  IF ~(pending_esc /\ in_osc) THEN Scan(b, FALSE, s)
      ELSE IF b[1] = "\\" THEN Scan(b, TRUE, Off)
      ELSE IF s.count = OSC_ACCUMULATION_MAX THEN [scan |-> Off, fed |-> 0]
      ELSE Scan(b, FALSE, Counted(s))
-----------------------------------------------------------------------------
KindOf(c) ==
  CASE c \in Titles -> "title" [] c \in Clips -> "clip" [] c \in Links -> "link" [] OTHER -> None

(* osc_dispatch of the parser's sequence: a title that is too long, a      *)
(* clipboard query, a link of another scheme or with no target (the one    *)
(* that ends a link) and any other number leave nothing; a clipboard write *)
(* is truncated.                                                           *)
osc_dispatch(t) ==
  LET k == KindOf(t.vte.first)
      value == <<t.vte.first, k = "clip" /\ t.vte.raw > OSC_52_MAX_BYTES>>
  IN  IF k = None \/ (k = "title" /\ t.vte.raw > MAX_TITLE_BYTES) THEN t
      ELSE [t EXCEPT !.pend[k] = value, !.due[k] = value, !.lost = @ \ {k}]

(* ESC c: a full reset forgets the controls not yet sent and the scanner's *)
(* state, which is already that of the end of the read.                    *)
Ris(t) ==
  [t EXCEPT !.scan = Off, !.pend = NoControls,
            !.lost = @ \cup {k \in Kinds : t.pend[k] # None}]

(* One byte of the vte parser (external).                                  *)
VteStep(t, c) ==
  CASE t.vte.at = "ground" -> IF c = "ESC" THEN [t EXCEPT !.vte.at = "escape"] ELSE t
    [] t.vte.at = "escape" ->
         CASE c = "]" -> [t EXCEPT !.vte = [Ground EXCEPT !.at = "osc", !.began = TRUE]]
           [] c = "c" -> [Ris(t) EXCEPT !.vte = Ground]
           [] c \in {"ESC", "BEL", "9D"} -> t
           [] OTHER -> [t EXCEPT !.vte = Ground]
    [] t.vte.at = "osc" ->
         CASE c = "BEL" -> [osc_dispatch(t) EXCEPT !.vte = Ground]
           [] c = "ESC" -> [osc_dispatch(t) EXCEPT !.vte = [Ground EXCEPT !.at = "escape"]]
           [] OTHER -> [t EXCEPT !.vte.raw = @ + 1,
                                 !.vte.first = IF t.vte.raw = 0 THEN c ELSE @]

(* The first n bytes of b, one after another.                              *)
Feed(t, b, n) ==
  LET fed[i \in 0 .. n] == IF i = 0 THEN t ELSE VteStep(fed[i - 1], b[i])
  IN  fed[n]

(* TerminalState::advance: scan, feed what may be fed, and start the       *)
(* parser anew when something was left out.                                *)
advance(b) ==
  LET p == osc_prefilter(b)
      t == Feed([vte |-> [vte EXCEPT !.began = FALSE], scan |-> p.scan,
                 pend |-> pend, due |-> due, lost |-> lost], b, p.fed)
      truncated == p.fed < Len(b)
  IN  [vte |-> IF truncated THEN Ground ELSE t.vte,
       cut |-> IF truncated THEN t.vte.at ELSE None,
       scan |-> t.scan, pend |-> t.pend, due |-> t.due, lost |-> t.lost]
-----------------------------------------------------------------------------
(* The controls there are, in the order they are sent.                     *)
Control(p, k) == IF p[k] = None THEN <<>> ELSE << <<k, p[k]>> >>
Controls(p) == Control(p, "title") \o Control(p, "clip") \o Control(p, "link")

(* drain_terminal_control takes all three.                                 *)
drain_terminal_control(t) == [out |-> Controls(t.pend), left |-> NoControls]

(* The output arm of the pump, for one read: parse, send the bytes, drain, *)
(* send the controls.  The connection takes the first `ok` of the writes.  *)
PumpChunk ==
  /\ attached
  /\ reads < MaxReads /\ reads' = reads + 1
  /\ \E b \in Reads :
       LET t == advance(b)
           d == drain_terminal_control(t)
       IN  \E ok \in 0 .. (1 + Len(d.out)) :
             /\ t.vte.raw <= MaxRaw
             /\ Len(wire) + Len(d.out) <= WireCap
             /\ in_osc' = t.scan.in_osc /\ osc_byte_count' = t.scan.count
             /\ pending_esc' = t.scan.esc
             /\ vte' = t.vte
             /\ cut' = t.cut
             /\ tracked' = /\ t.vte.at = "osc"
                           /\ IF t.vte.began THEN t.scan.in_osc /\ t.scan.count = t.vte.raw
                                             ELSE tracked
             /\ due' = t.due
             /\ pend' = IF ok = 0 THEN t.pend ELSE d.left
             /\ wire' = wire \o (IF ok = 0 THEN <<>> ELSE SubSeq(d.out, 1, ok - 1))
             /\ attached' = (ok = 1 + Len(d.out))
             /\ lost' = t.lost \cup (IF ok = 0 THEN {}
                                     ELSE {d.out[i][1] : i \in ok .. Len(d.out)})
             /\ pumped' = (ok = 1 + Len(d.out))
  /\ UNCHANGED shown

(* The client's TerminalControl arm writes the control to its terminal.    *)
ClientControl ==
  /\ wire # <<>>
  /\ LET k == Head(wire)[1]
         v == Head(wire)[2]
     IN  shown' = IF (k = "title" /\ Status) \/ (k = "clip" /\ v[1] \in Refused) THEN shown
                  ELSE [shown EXCEPT ![k] = v]
  /\ wire' = Tail(wire)
  /\ UNCHANGED <<scanVars, vte, pend, attached, tracked, cut, due, lost, pumped, reads>>

(* The connection is lost otherwise than in a write of the pump.           *)
TransportLost ==
  /\ attached
  /\ attached' = FALSE /\ pumped' = FALSE
  /\ UNCHANGED <<scanVars, vte, pend, wire, shown, tracked, cut, due, lost, reads>>

(* A reattachment has a stream of its own; the terminal state is the       *)
(* slot's and goes on.                                                     *)
Reattach ==
  /\ ~attached
  /\ attached' = TRUE
  /\ lost' = lost \cup {wire[i][1] : i \in DOMAIN wire}
  /\ wire' = <<>>
  /\ UNCHANGED <<scanVars, vte, pend, shown, tracked, cut, due, pumped, reads>>

Next == PumpChunk \/ ClientControl \/ TransportLost \/ Reattach

Spec == Init /\ [][Next]_vars
-----------------------------------------------------------------------------
(* A sequence the scanner counts along with the parser when it begins is   *)
(* counted to its end, over any cut into reads, so the parser never holds  *)
(* more of it than OSC_ACCUMULATION_MAX bytes; what one read truncates is  *)
(* not carried into the next.                                              *)
TrackedIsBounded ==
  /\ tracked => in_osc /\ osc_byte_count = vte.raw /\ vte.raw <= OSC_ACCUMULATION_MAX
  /\ cut # None => ~in_osc /\ vte = Ground

(* Once a read is forwarded whole nothing stays behind in the terminal     *)
(* state, and when the stream is empty the client's terminal has the       *)
(* latest control of each kind, unless the connection that took it failed, *)
(* a reset came before it was sent, or the client does not write it.       *)
ControlsArrive ==
  /\ pumped => pend = NoControls
  /\ \A k \in Kinds : pend[k] # None => pend[k] = due[k]
  /\ attached /\ wire = <<>> /\ pend = NoControls =>
       \A k \in Kinds :
         \/ shown[k] = due[k] \/ k \in lost
         \/ k = "title" /\ Status
         \/ k = "clip" /\ due[k] # None /\ due[k][1] \in Refused

(* terminal.rs, advance: the scanner tracks "whether the parser is         *)
(* currently inside an OSC string (mirroring vte's private                 *)
(* State::OscString)", so only an OSC is ever truncated.                   *)
OnlyOscCut == cut \in {None, "osc"}
=============================================================================
