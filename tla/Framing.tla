------------------------------ MODULE Framing ------------------------------
(***************************************************************************)
(* The reliable streams: encode puts the length of a message's body before *)
(* it, write_message_ns appends the frame to the stream, and               *)
(* read_message_ns reads the length, then that many bytes.  The peer's     *)
(* bytes arrive in pieces.  In the session pumps read_message_ns is an arm *)
(* of a select! loop: an arm that is not taken is dropped, and read_exact  *)
(* then forgets the bytes it had already taken from the stream.            *)
(*                                                                         *)
(* A length is HeaderLen digits of base Base, most significant first (the  *)
(* code: four bytes).  A message is the sequence of bytes postcard writes  *)
(* for it; postcard is a prefix code and ignores what follows a message.   *)
(***************************************************************************)
EXTENDS Integers, Sequences, SequencesExt

CONSTANTS
    Messages,      \* the encoded messages a peer may send
    Base, HeaderLen,
    MAX_FRAME_LEN,
    MaxFrames      \* bound on the messages written

VARIABLES
    sent,      \* history: the messages written
    flight,    \* bytes written and not yet arrived
    open,      \* the peer has not finished the stream
    arrived,   \* bytes the transport holds for the reader
    read,      \* the pending read_message_ns
    got,       \* history: the messages returned
    result,    \* "reading", or the error that ended the loop
    lost       \* history: bytes taken by reads that were dropped

vars == <<sent, flight, open, arrived, read, got, result, lost>>

---------------------------------------------------------------------------
FreshRead == [at |-> "len", need |-> HeaderLen, buf |-> <<>>]

\* What is left of n after each of its digits has been taken, the least significant first.
Rests(n) ==
    LET rest[k \in 0..HeaderLen] == IF k = 0 THEN n ELSE rest[k - 1] \div Base
    IN  rest

\* u32::to_be_bytes and from_be_bytes.
ToBytes(n) ==
    [i \in 1..HeaderLen |-> Rests(n)[HeaderLen - i] - Base * Rests(n)[HeaderLen - i + 1]]
FromBytes(b) ==
    LET value[i \in 0..Len(b)] == IF i = 0 THEN 0 ELSE value[i - 1] * Base + b[i]
    IN  value[Len(b)]

\* What the constants of an instance satisfy: the header holds every length encode
\* allows (the code: 16 MiB in four bytes), and no message starts with another one.
FramingAssumption ==
    /\ Base \in Nat \ {0} /\ HeaderLen \in Nat \ {0} /\ MAX_FRAME_LEN \in Nat
    /\ \A n \in 0..MAX_FRAME_LEN : Rests(n)[HeaderLen] = 0
    /\ Messages \subseteq Seq(Nat)
    /\ \A m, n \in Messages : IsPrefix(m, n) => m = n

encode(m) == ToBytes(Len(m)) \o m

\* decode: postcard::from_bytes, the messages the body starts with (at most one).
decode(body) == {m \in Messages : IsPrefix(m, body)}

TooLargeAtCap(n) == n >= MAX_FRAME_LEN
TooLarge(n) == n > MAX_FRAME_LEN

\* read_exact takes what it still needs of the bytes that are there.
Take(r, a) ==
    LET n == IF r.need - Len(r.buf) < Len(a) THEN r.need - Len(r.buf) ELSE Len(a)
    IN  [read |-> [r EXCEPT !.buf = @ \o SubSeq(a, 1, n)], rest |-> SubSeq(a, n + 1, Len(a))]

Full(r) == Len(r.buf) = r.need

\* One poll of read_message_ns: the length, and if it is complete and allowed, the body.
Polled(r, a) ==
    LET t == Take(r, a)
    IN  IF t.read.at = "len" /\ Full(t.read) /\ ~TooLarge(FromBytes(t.read.buf))
        THEN Take([at |-> "body", need |-> FromBytes(t.read.buf), buf |-> <<>>], t.rest)
        ELSE t

Init ==
    /\ sent = <<>> /\ got = <<>>
    /\ flight = <<>> /\ arrived = <<>> /\ open = TRUE
    /\ read = FreshRead /\ result = "reading" /\ lost = <<>>

\* write_message_ns; a message encode refuses is not written.
WriteMessage ==
    /\ open /\ Len(sent) < MaxFrames
    /\ \E m \in Messages :
          /\ Len(m) <= MAX_FRAME_LEN
          /\ sent' = Append(sent, m)
          /\ flight' = flight \o encode(m)
    /\ UNCHANGED <<open, arrived, read, got, result, lost>>

\* The peer finishes its side of the stream.
Finish ==
    /\ open /\ open' = FALSE
    /\ UNCHANGED <<sent, flight, arrived, read, got, result, lost>>

\* A packet brings the next bytes of the stream.
Arrive ==
    /\ \E n \in 1..Len(flight) :
          /\ arrived' = arrived \o SubSeq(flight, 1, n)
          /\ flight' = SubSeq(flight, n + 1, Len(flight))
    /\ UNCHANGED <<sent, open, read, got, result, lost>>

\* read_message_ns is polled and stays pending, its bytes held by the future.
PollPending ==
    LET t == Polled(read, arrived)
    IN  /\ result = "reading" /\ arrived # <<>>
        /\ ~Full(t.read)
        /\ read' = t.read /\ arrived' = t.rest
        /\ UNCHANGED <<sent, flight, open, got, result, lost>>

\* read_message_ns returns: a message, which the arm handles before the loop
\* reads again, or the error of an impossible length or body, which ends the pump.
PollReady ==
    LET t == Polled(read, arrived)
    IN  /\ result = "reading"
        /\ Full(t.read)
        /\ arrived' = t.rest /\ read' = FreshRead
        /\ \/ /\ t.read.at = "len"
              /\ result' = "FrameTooLarge" /\ UNCHANGED got
           \/ /\ t.read.at = "body" /\ decode(t.read.buf) = {}
              /\ result' = "Postcard" /\ UNCHANGED got
           \/ /\ t.read.at = "body"
              /\ \E m \in decode(t.read.buf) : got' = Append(got, m)
              /\ UNCHANGED result
        /\ UNCHANGED <<sent, flight, open, lost>>

\* The stream ends while read_exact waits.
PollEof ==
    /\ result = "reading" /\ ~open /\ flight = <<>> /\ arrived = <<>>
    /\ result' = "Io"
    /\ UNCHANGED <<sent, flight, open, arrived, read, got, lost>>

\* Another arm of the select! completes: the read future is dropped, and the
\* next iteration starts a new one.
OtherArm ==
    /\ result = "reading" /\ read # FreshRead
    /\ lost' = lost \o (IF read.at = "body" THEN ToBytes(read.need) ELSE <<>>) \o read.buf
    /\ read' = FreshRead
    /\ UNCHANGED <<sent, flight, open, arrived, got, result>>

\* A finished stream whose reader has stopped.
Ended == result # "reading" /\ ~open /\ flight = <<>> /\ UNCHANGED vars

Next ==
    \/ WriteMessage \/ Finish \/ Arrive \/ PollPending \/ PollReady \/ PollEof
    \/ OtherArm \/ Ended

Spec == Init /\ [][Next]_vars

---------------------------------------------------------------------------
\* The reliable stream stays in sync: what read_message_ns returned is what
\* write_message_ns was given, in that order, and no payload was read as a
\* length (28-UAT.md, "Reliable-stream framing stays in sync").
InSync ==
    /\ IsPrefix(got, sent)
    /\ result \notin {"FrameTooLarge", "Postcard"}

\* Dropping a partial read is the only thing that takes the stream out of sync:
\* however the bytes are cut up, and with messages of the largest size, as long
\* as no read was dropped half way, the messages come out as they went in and,
\* once every byte has been read, all of them did.
OnlyDroppedReadsDesync ==
    lost = <<>> =>
        /\ InSync
        /\ (flight = <<>> /\ arrived = <<>> /\ read = FreshRead) => got = sent
=============================================================================
