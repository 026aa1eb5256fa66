--------------------------- MODULE ReattachProofs ---------------------------
(***************************************************************************)
(* What cold reattach promises, for any number of connections and chunks:  *)
(* the client's counter never runs ahead of what reached it, no chunk is   *)
(* trimmed or skipped in silence, and an orphan's token was sent.          *)
(*                                                                         *)
(* The invariant comes in three layers, each proved with the ones before:  *)
(* who owns a connection and a session, which session a token stands for,  *)
(* and how the numbers of the chunks on the wire relate to the client's    *)
(* counter, to what it received and to what the server writes next.        *)
(***************************************************************************)
EXTENDS Reattach, SequenceTheorems, TLAPS

Fresh    == {"accepting", "opening", "granting"}
Writing  == {"committing", "replaying", "pump"}
Serving  == Writing \cup {"opening", "granting", "stopping"}
Attaching == {"awaiting", "channel", "pump"}
Pumping  == {"channel", "pump"}

(* Only the latest connection carries frames to the client.                *)
NetInv ==
  /\ \A c \in Conns : c # conn => c \notin up /\ s2c[c] = << >>
  /\ \A c \in Conns : c > conn => c2s[c] = << >> /\ spc[c] = "accepting"
  /\ \A c \in Conns : spc[c] \in Fresh => s2c[c] = << >>
  /\ conn \in Conns /\ cpc \notin Attaching => conn \notin up /\ s2c[conn] = << >>
  /\ cpc \in Attaching => conn \in Conns

(* A session has at most one handler, and has one exactly while it is      *)
(* neither orphaned nor gone.                                              *)
OwnInv ==
  /\ \A c \in Conns : spc[c] = "accepting" => sess[c] = NoConn /\ state[c] = "None"
  /\ \A c \in Conns : spc[c] = "opening" => sess[c] = c
  /\ \A c \in Conns : spc[c] \in {"accepting", "opening"} => next[c] = 0
  /\ \A c \in Conns : spc[c] \in Serving =>
        sess[c] \in Conns /\ state[sess[c]] \in {"Active", "Reconnecting"}
  /\ \A c, d \in Conns :
        spc[c] \in Serving /\ spc[d] \in Serving /\ sess[c] = sess[d] => c = d
-----------------------------------------------------------------------------
(* Token t stands for session s and no other.                              *)
Bound(t, s) ==
  /\ t # NoToken /\ t <= minted
  /\ \A r \in Conns : live[r] = t => r = s
  /\ \A c \in Conns : cand[c] = t => sess[c] = s

(* Tokens are minted once, for one session.                                *)
TokenInv ==
  /\ \A c \in Conns : spc[c] \in Fresh => cand[c] = NoToken
  /\ \A c \in Conns : spc[c] = "opening" => live[c] # NoToken
  /\ \A s \in Conns : live[s] # NoToken => Bound(live[s], s)
  /\ \A c \in Conns : cand[c] # NoToken => Bound(cand[c], sess[c])

(* A session past its opening has a token that was sent, and so has one    *)
(* whose next token is about to be committed.                              *)
SentInv ==
  /\ \A s \in Conns : state[s] = "Orphaned" => live[s] \in offered
  /\ \A c \in Conns : spc[c] \in Serving \ {"opening"} => live[sess[c]] \in offered
  /\ \A c \in Conns : spc[c] = "committing" => cand[c] \in offered
-----------------------------------------------------------------------------
Sent(c, kind) == {i \in DOMAIN s2c[c] : s2c[c][i].type = kind}
Data(c) == Sent(c, "PtyData")
Oks(c)  == Sent(c, "ReattachOk")
Number(c, i) == s2c[c][i].seq

(* The number of the chunk that a handler writes next.                     *)
Position(c) == IF spc[c] = "pump" THEN next[sess[c]] ELSE cursor[c]

(* The client, having read what is on the wire, will have chunk n - 1 or   *)
(* will have been told that it is lost.                                    *)
Covered(c, n) ==
  \/ n <= got[sess[c]]
  \/ \E i \in Data(c) : Number(c, i) + 1 = n
  \/ \E i \in Oks(c) : s2c[c][i].truncated /\ n <= Number(c, i)

(* A ReattachOk on the wire announces the chunks that follow it.           *)
OkNumbers(c) ==
  \A i \in Oks(c) :
    /\ sess[c] \in Conns /\ Number(c, i) <= next[sess[c]]
    /\ s2c[c][i].truncated \/ Number(c, i) <= got[sess[c]]
    /\ spc[c] \in Writing => Number(c, i) <= Position(c)
    /\ \A j \in Data(c) : i < j /\ Number(c, i) <= Number(c, j)

(* The chunks on the wire are numbered without a gap.                      *)
DataNumbers(c) ==
  \A i \in Data(c) :
    /\ sess[c] \in Conns /\ s2c[c][i].sess = sess[c]
    /\ Number(c, i) < next[sess[c]]
    /\ spc[c] \in Writing => Number(c, i) < Position(c)
    /\ Covered(c, Number(c, i))
    /\ \A j \in Data(c) : i < j => Number(c, i) < Number(c, j)

(* Nor is there one before the chunk that is written next.                 *)
Wire(c) ==
  /\ OkNumbers(c) /\ DataNumbers(c)
  /\ c \in up /\ spc[c] \in Writing => Covered(c, Position(c))

StreamInv == \A c \in Conns : Wire(c)

(* The client's counter is at most the number of the next chunk it reads.  *)
Behind(c) ==
  /\ \A i \in Data(c) : highest_applied <= Number(c, i)
  /\ spc[c] \in Writing => highest_applied <= Position(c)

CountInv ==
  cpc \in Pumping => sess[conn] \in Conns /\ spc[conn] \notin Fresh /\ Behind(conn)

(* The client counts from what it received, for the session its token      *)
(* stands for.                                                             *)
HoldInv ==
  /\ token # NoToken =>
       \E s \in Conns : /\ Bound(token, s) /\ highest_applied <= got[s]
                        /\ cpc \in Pumping => s = sess[conn]
  /\ cpc \in Pumping => token # NoToken

(* So does what it has sent.                                               *)
ReportInv ==
  \A c \in Conns : \A i \in DOMAIN c2s[c] :
    /\ c2s[c][i].type = "Ack" => sess[c] \in Conns /\ c2s[c][i].seq <= got[sess[c]]
    /\ c2s[c][i].type = "Reattach" =>
         \E s \in Conns : Bound(c2s[c][i].token, s) /\ c2s[c][i].seq <= got[s]

(* The tokens in the answers on the wire stand for the session.            *)
AnswerInv ==
  \A c \in Conns : \A i \in DOMAIN s2c[c] :
    s2c[c][i].type \in {"SessionOpened", "ReattachOk"} =>
      sess[c] \in Conns /\ Bound(s2c[c][i].token, sess[c])

(* What is received was produced, and a handler replays from a number that *)
(* was received or announced.                                              *)
ReplayInv ==
  /\ \A s \in Conns : got[s] <= next[s]
  /\ \A c \in Conns : spc[c] = "granting" => cursor[c] <= got[sess[c]]
  /\ \A c \in Conns : spc[c] \in {"committing", "replaying"} => cursor[c] <= next[sess[c]]

IInv ==
  /\ TypeOK
  /\ NetInv /\ OwnInv
  /\ TokenInv /\ SentInv
  /\ StreamInv /\ CountInv /\ HoldInv /\ ReportInv /\ AnswerInv /\ ReplayInv
  /\ TrimmedWasReceived
-----------------------------------------------------------------------------
(* Reading and writing frames.                                             *)

(* Every message is a frame.                                               *)
LEMMA Messages ==
  /\ {SessionOpen, ChannelOpen, ReattachErr, ChannelAccept, SessionClose} \subseteq Frames
  /\ \A t, n \in Nat : ReattachMsg(t, n) \in Frames
  /\ \A n \in Nat : AckMsg(n) \in Frames
  /\ \A t \in Nat : SessionOpened(t) \in Frames
  /\ \A t, n \in Nat, b \in BOOLEAN : ReattachOk(t, n, b) \in Frames
  /\ \A s \in Conns, n \in Nat : PtyData(s, n) \in Frames
BY DEF Frames, ReattachMsg, AckMsg, SessionOpened, ReattachOk, PtyData

(* A frame has the fields of its type.                                     *)
LEMMA Fields ==
  ASSUME NEW m \in Frames
  PROVE  /\ m.type \in {"Ack", "Reattach", "ReattachOk", "PtyData"} => m.seq \in Nat
         /\ m.type \in {"Reattach", "SessionOpened", "ReattachOk"} => m.token \in Nat
         /\ m.type = "ReattachOk" => m.truncated \in BOOLEAN
         /\ m.type = "PtyData" => m.sess \in Conns
BY DEF Frames, SessionOpen, ChannelOpen, ReattachErr, ChannelAccept, SessionClose

(* A frame a server writes goes to the end of its stream, or is lost.      *)
LEMMA ServerWritten ==
  ASSUME TypeOK, NEW c \in Conns, NEW m \in Frames, ServerWrites(c, m)
  PROVE  /\ s2c' \in [Conns -> Seq(Frames)]
         /\ \A d \in Conns : d # c => s2c'[d] = s2c[d]
         /\ c \notin up => s2c'[c] = s2c[c]
         /\ c \in up => /\ Len(s2c'[c]) = Len(s2c[c]) + 1
                        /\ DOMAIN s2c'[c] = DOMAIN s2c[c] \cup {Len(s2c[c]) + 1}
                        /\ \A i \in DOMAIN s2c[c] : s2c'[c][i] = s2c[c][i]
                        /\ s2c'[c][Len(s2c[c]) + 1] = m
  <1>1. s2c[c] \in Seq(Frames) /\ s2c \in [Conns -> Seq(Frames)]
    BY DEF TypeOK
  <1>2. CASE c \notin up
    BY <1>1, <1>2 DEF ServerWrites
  <1>3. CASE c \in up
    <2>1. s2c' = [s2c EXCEPT ![c] = Append(s2c[c], m)]
      BY <1>3 DEF ServerWrites
    <2>2. /\ Append(s2c[c], m) \in Seq(Frames) /\ Len(Append(s2c[c], m)) = Len(s2c[c]) + 1
          /\ \A i \in 1..Len(s2c[c]) : Append(s2c[c], m)[i] = s2c[c][i]
          /\ Append(s2c[c], m)[Len(s2c[c]) + 1] = m
      BY <1>1, AppendProperties
    <2>3. s2c'[c] = Append(s2c[c], m)
      BY <1>1, <2>1
    <2>4. s2c' \in [Conns -> Seq(Frames)] /\ \A d \in Conns : d # c => s2c'[d] = s2c[d]
      BY <1>1, <2>1, <2>2
    <2>5. DOMAIN s2c[c] = 1..Len(s2c[c]) /\ Len(s2c[c]) \in Nat
      BY <1>1
    <2>6. DOMAIN s2c'[c] = 1..(Len(s2c[c]) + 1)
      BY <2>2, <2>3, <2>5
    <2> QED
      BY <1>3, <2>2, <2>3, <2>4, <2>5, <2>6
  <1> QED
    BY <1>2, <1>3

(* So does a frame the client writes.                                      *)
LEMMA ClientWritten ==
  ASSUME TypeOK, conn \in Conns, NEW m \in Frames, ClientWrites(m)
  PROVE  /\ c2s' \in [Conns -> Seq(Frames)]
         /\ \A d \in Conns : d # conn => c2s'[d] = c2s[d]
         /\ \A i \in DOMAIN c2s'[conn] :
               \/ i \in DOMAIN c2s[conn] /\ c2s'[conn][i] = c2s[conn][i]
               \/ c2s'[conn][i] = m
  <1>1. c2s[conn] \in Seq(Frames) /\ c2s \in [Conns -> Seq(Frames)]
    BY DEF TypeOK
  <1>2. CASE conn \notin up
    BY <1>1, <1>2 DEF ClientWrites
  <1>3. CASE conn \in up
    <2>1. c2s' = [c2s EXCEPT ![conn] = Append(c2s[conn], m)]
      BY <1>3 DEF ClientWrites
    <2>2. /\ Append(c2s[conn], m) \in Seq(Frames)
          /\ Len(Append(c2s[conn], m)) = Len(c2s[conn]) + 1
          /\ \A i \in 1..Len(c2s[conn]) : Append(c2s[conn], m)[i] = c2s[conn][i]
          /\ Append(c2s[conn], m)[Len(c2s[conn]) + 1] = m
      BY <1>1, AppendProperties
    <2>3. c2s'[conn] = Append(c2s[conn], m)
      BY <1>1, <2>1
    <2>4. c2s' \in [Conns -> Seq(Frames)] /\ \A d \in Conns : d # conn => c2s'[d] = c2s[d]
      BY <1>1, <2>1, <2>2
    <2>5. DOMAIN c2s[conn] = 1..Len(c2s[conn]) /\ Len(c2s[conn]) \in Nat
      BY <1>1
    <2>6. DOMAIN c2s'[conn] = 1..(Len(c2s[conn]) + 1)
      BY <2>2, <2>3, <2>5
    <2> QED
      BY <2>2, <2>3, <2>4, <2>5, <2>6
  <1> QED
    BY <1>2, <1>3

(* Reading takes the first frame and moves the others up.                  *)
LEMMA TailFrames ==
  ASSUME NEW q \in Seq(Frames), q # << >>
  PROVE  /\ Head(q) \in Frames /\ Head(q) = q[1] /\ 1 \in DOMAIN q
         /\ Tail(q) \in Seq(Frames)
         /\ \A i \in DOMAIN Tail(q) : i + 1 \in DOMAIN q /\ Tail(q)[i] = q[i + 1]
         /\ \A i \in DOMAIN q : i # 1 => i - 1 \in DOMAIN Tail(q)
  <1>1. /\ Head(q) \in Frames /\ Tail(q) \in Seq(Frames) /\ Len(Tail(q)) = Len(q) - 1
        /\ \A i \in 1..Len(Tail(q)) : Tail(q)[i] = q[i + 1]
    BY HeadTailProperties
  <1>2. DOMAIN q = 1..Len(q) /\ Len(q) \in Nat /\ Len(q) # 0 /\ Head(q) = q[1]
    OBVIOUS
  <1>3. DOMAIN Tail(q) = 1..(Len(q) - 1)
    BY <1>1, <1>2
  <1> QED
    BY <1>1, <1>2, <1>3

(* What the server's read of a frame does.                                 *)
LEMMA ServerRead ==
  ASSUME TypeOK, NEW c \in Conns, NEW kind, ServerReads(c, kind)
  PROVE  /\ c2s[c] # << >> /\ Head(c2s[c]) \in Frames /\ Head(c2s[c]).type = kind
         /\ Head(c2s[c]) = c2s[c][1] /\ 1 \in DOMAIN c2s[c]
         /\ c2s' \in [Conns -> Seq(Frames)]
         /\ \A d \in Conns : d # c => c2s'[d] = c2s[d]
         /\ \A i \in DOMAIN c2s'[c] : i + 1 \in DOMAIN c2s[c] /\ c2s'[c][i] = c2s[c][i + 1]
  <1>1. c2s[c] \in Seq(Frames) /\ c2s \in [Conns -> Seq(Frames)] /\ c2s[c] # << >>
    BY DEF TypeOK, ServerReads, ServerSees
  <1>2. c2s' = [c2s EXCEPT ![c] = Tail(c2s[c])] /\ Head(c2s[c]).type = kind
    BY DEF ServerReads, ServerSees
  <1>3. Tail(c2s[c]) \in Seq(Frames)
    BY <1>1, TailFrames
  <1>4. /\ c2s'[c] = Tail(c2s[c]) /\ c2s' \in [Conns -> Seq(Frames)]
        /\ \A d \in Conns : d # c => c2s'[d] = c2s[d]
    BY <1>1, <1>2, <1>3
  <1> QED
    BY <1>1, <1>2, <1>4, TailFrames

(* What the client's read of a frame does.                                 *)
LEMMA ClientRead ==
  ASSUME TypeOK, conn \in Conns, NEW kind, ClientReads(kind)
  PROVE  /\ s2c[conn] # << >> /\ Head(s2c[conn]) \in Frames /\ Head(s2c[conn]).type = kind
         /\ Head(s2c[conn]) = s2c[conn][1] /\ 1 \in DOMAIN s2c[conn]
         /\ s2c' \in [Conns -> Seq(Frames)]
         /\ \A d \in Conns : d # conn => s2c'[d] = s2c[d]
         /\ \A i \in DOMAIN s2c'[conn] :
               i + 1 \in DOMAIN s2c[conn] /\ s2c'[conn][i] = s2c[conn][i + 1]
         /\ \A i \in DOMAIN s2c[conn] : i # 1 =>
               i - 1 \in DOMAIN s2c'[conn] /\ s2c'[conn][i - 1] = s2c[conn][i]
  <1>1. s2c[conn] \in Seq(Frames) /\ s2c \in [Conns -> Seq(Frames)] /\ s2c[conn] # << >>
    BY DEF TypeOK, ClientReads, ClientSees
  <1>2. s2c' = [s2c EXCEPT ![conn] = Tail(s2c[conn])] /\ Head(s2c[conn]).type = kind
    BY DEF ClientReads, ClientSees
  <1>3. Tail(s2c[conn]) \in Seq(Frames)
    BY <1>1, TailFrames
  <1>4. /\ s2c'[conn] = Tail(s2c[conn]) /\ s2c' \in [Conns -> Seq(Frames)]
        /\ \A d \in Conns : d # conn => s2c'[d] = s2c[d]
    BY <1>1, <1>2, <1>3
  <1>5. \A i \in DOMAIN s2c[conn] : i \in Nat /\ i >= 1 /\ (i - 1) + 1 = i
    BY <1>1
  <1>6. \A i \in DOMAIN s2c[conn] : i # 1 =>
           i - 1 \in DOMAIN s2c'[conn] /\ s2c'[conn][i - 1] = s2c[conn][i]
    BY <1>1, <1>4, <1>5, TailFrames
  <1> QED
    BY <1>1, <1>2, <1>4, <1>6, TailFrames
-----------------------------------------------------------------------------
(* Who owns a connection and a session.                                    *)

Control == TypeOK /\ NetInv /\ OwnInv

(* A handler that returns gives up the connection and what it had not read. *)
LEMMA Returned ==
  ASSUME Control, NEW c \in Conns, HandlerReturns(c)
  PROVE  /\ spc' = [spc EXCEPT ![c] = "done"] /\ up' = up \ {c}
         /\ c2s' \in [Conns -> Seq(Frames)] /\ c2s'[c] = << >>
         /\ \A d \in Conns : d # c => c2s'[d] = c2s[d]
         /\ cand' \in [Conns -> Nat] /\ cand'[c] = NoToken
         /\ \A d \in Conns : d # c => cand'[d] = cand[d]
         /\ cursor' \in [Conns -> Nat] /\ cursor'[c] = 0
         /\ \A d \in Conns : d # c => cursor'[d] = cursor[d]
  <1>1. /\ c2s \in [Conns -> Seq(Frames)]
        /\ cand \in [Conns -> Nat] /\ cursor \in [Conns -> Nat]
    BY DEF Control, TypeOK
  <1>2. << >> \in Seq(Frames)
    BY EmptySeq
  <1> QED
    BY <1>1, <1>2 DEF HandlerReturns, Goto, NoToken

(* The parts of the type invariant that ownership needs.                   *)
LEMMA OwnTypes ==
  ASSUME TypeOK
  PROVE  /\ spc \in [Conns -> {"accepting", "opening", "granting", "committing",
                               "replaying", "pump", "stopping", "done"}]
         /\ state \in [Conns -> {"None", "Active", "Orphaned", "Reconnecting", "Gone"}]
         /\ sess \in [Conns -> Conns \cup {NoConn}] /\ next \in [Conns -> Nat]
         /\ up \subseteq Conns /\ conn \in Conns \cup {NoConn} /\ NoConn \notin Conns
         /\ Conns \subseteq Nat /\ NoConn = 0
BY DEF TypeOK, Conns, NoConn, ReattachAssumption

(* The handler's steps that start or end its service preserve the ownership. *)
LEMMA OpenSessionControl ==
  ASSUME Control, NEW c \in Conns, OpenSession(c)
  PROVE  Control'
  <1> USE DEF Control
  <1>1. /\ c2s' \in [Conns -> Seq(Frames)] /\ \A d \in Conns : d # c => c2s'[d] = c2s[d]
        /\ c2s[c] # << >>
    BY ServerRead DEF OpenSession
  <1>2. /\ spc[c] = "accepting" /\ spc' = [spc EXCEPT ![c] = "opening"]
        /\ state' = [state EXCEPT ![c] = "Active"] /\ sess' = [sess EXCEPT ![c] = c]
        /\ minted' = minted + 1 /\ live' = [live EXCEPT ![c] = minted']
        /\ UNCHANGED <<outVars, cand, cursor, offered, up, s2c, clientVars>>
    BY DEF OpenSession, Goto
  <1>3. TypeOK'
    <2>1. minted' \in Nat /\ live' \in [Conns -> Nat]
      BY <1>2 DEF TypeOK
    <2> QED
      BY <1>1, <1>2, <2>1 DEF TypeOK, outVars, clientVars
  <1>4. NetInv'
    BY <1>1, <1>2, OwnTypes DEF NetInv, clientVars, Fresh
  <1>5. OwnInv'
    BY <1>2, OwnTypes DEF OwnInv, Serving, Writing, outVars
  <1> QED
    BY <1>3, <1>4, <1>5

(* SessionOpened is written and the pump starts.                           *)
LEMMA SendOpenedControl ==
  ASSUME Control, NEW c \in Conns, SendOpened(c)
  PROVE  Control'
  <1> USE DEF Control
  <1>1. SessionOpened(live[c]) \in Frames
    BY Messages DEF TypeOK
  <1>2. /\ s2c' \in [Conns -> Seq(Frames)] /\ \A d \in Conns : d # c => s2c'[d] = s2c[d]
        /\ c \notin up => s2c'[c] = s2c[c]
    BY <1>1, ServerWritten DEF SendOpened
  <1>3. /\ spc[c] = "opening" /\ spc' = [spc EXCEPT ![c] = "pump"]
        /\ offered' = offered \cup {live[c]}
        /\ UNCHANGED <<slotVars, sess, cand, cursor, minted, up, c2s, clientVars>>
    BY DEF SendOpened, Goto
  <1>4. TypeOK'
    BY <1>2, <1>3 DEF TypeOK, slotVars, outVars, clientVars
  <1>5. NetInv'
    BY <1>2, <1>3, OwnTypes DEF NetInv, clientVars, Fresh
  <1>6. OwnInv'
    BY <1>3, OwnTypes DEF OwnInv, Serving, Writing, slotVars, outVars
  <1> QED
    BY <1>4, <1>5, <1>6

(* The end of a service: the session is orphaned or gone.                  *)
LEMMA EndsControl ==
  ASSUME Control, NEW c \in Conns, spc[c] \in Serving, NEW x \in {"Orphaned", "Gone"},
         state' = [state EXCEPT ![sess[c]] = x], HandlerReturns(c),
         s2c' \in [Conns -> Seq(Frames)], \A d \in Conns : d # c => s2c'[d] = s2c[d],
         c \notin up => s2c'[c] = s2c[c], pending' \in [Conns -> Nat],
         UNCHANGED <<live, low, next, overflowed, produced, sess, tokenVars, clientVars>>
  PROVE  Control'
  <1> USE DEF Control
  <1>1. /\ spc' = [spc EXCEPT ![c] = "done"] /\ up' = up \ {c} /\ c2s'[c] = << >>
        /\ \A d \in Conns : d # c => c2s'[d] = c2s[d]
    BY Returned
  <1>2. TypeOK'
    BY Returned DEF TypeOK, tokenVars, clientVars
  <1>3. NetInv'
    BY <1>1, OwnTypes DEF NetInv, clientVars, Fresh, Serving, Writing
  <1>4. OwnInv'
    <2>1. /\ sess[c] \in Conns /\ spc[c] # "accepting" /\ sess' = sess /\ next' = next
          /\ \A d \in Conns : spc'[d] = IF d = c THEN "done" ELSE spc[d]
          /\ \A s \in Conns : state'[s] = IF s = sess[c] THEN x ELSE state[s]
      BY <1>1, OwnTypes DEF OwnInv, Serving, Writing
    <2>2. "done" \notin Serving
      BY DEF Serving, Writing
    <2>3. \A d \in Conns : spc'[d] = "accepting" => sess[d] = NoConn /\ state'[d] = "None"
      <3>1. state[sess[c]] # "None"
        BY DEF OwnInv
      <3>2. \A d \in Conns : spc'[d] = "accepting" =>
               sess[d] = NoConn /\ state[d] = "None" /\ d # sess[c]
        BY <2>1, <3>1 DEF OwnInv
      <3> QED
        BY <2>1, <3>2
    <2>4. /\ \A d \in Conns : spc'[d] = "opening" => sess[d] = d
          /\ \A d \in Conns : spc'[d] \in {"accepting", "opening"} => next[d] = 0
      BY <2>1 DEF OwnInv
    <2>5. \A d \in Conns : spc'[d] \in Serving => d # c /\ spc[d] \in Serving /\ sess[d] # sess[c]
      BY <2>1, <2>2 DEF OwnInv
    <2>6. \A d \in Conns : spc'[d] \in Serving =>
             sess[d] \in Conns /\ state'[sess[d]] \in {"Active", "Reconnecting"}
      BY <2>1, <2>5 DEF OwnInv
    <2>7. \A d, e \in Conns :
             spc'[d] \in Serving /\ spc'[e] \in Serving /\ sess[d] = sess[e] => d = e
      BY <2>5 DEF OwnInv
    <2> QED
      BY <2>1, <2>3, <2>4, <2>6, <2>7 DEF OwnInv
  <1> QED
    BY <1>2, <1>3, <1>4

(* The ends that write nothing.                                            *)
LEMMA EndsSilentlyControl ==
  ASSUME Control, NEW c \in Conns, OpenedFails(c) \/ ReOrphan(c) \/ Orphan(c)
  PROVE  Control'
  <1>1. /\ pending \in [Conns -> Nat] /\ s2c \in [Conns -> Seq(Frames)]
        /\ spc[c] = "opening" => sess[c] = c
    BY DEF Control, TypeOK, OwnInv
  <1>2. CASE OpenedFails(c)
    BY <1>1, <1>2, EndsControl DEF OpenedFails, outVars, Serving
  <1>3. CASE ReOrphan(c)
    BY <1>1, <1>3, EndsControl DEF ReOrphan, outVars, Serving, Writing
  <1>4. CASE Orphan(c)
    BY <1>1, <1>4, EndsControl DEF Orphan, Serving
  <1> QED
    BY <1>2, <1>3, <1>4

(* The end that writes SessionClose.                                       *)
LEMMA ShellExitsControl ==
  ASSUME Control, NEW c \in Conns, ShellExits(c)
  PROVE  Control'
  <1>1. pending \in [Conns -> Nat] /\ TypeOK
    BY DEF Control, TypeOK
  <1>2. /\ s2c' \in [Conns -> Seq(Frames)] /\ \A d \in Conns : d # c => s2c'[d] = s2c[d]
        /\ c \notin up => s2c'[c] = s2c[c]
    BY <1>1, Messages, ServerWritten DEF ShellExits
  <1> QED
    BY <1>1, <1>2, EndsControl DEF ShellExits, outVars, Serving, Writing

(* An orphan has no handler, so taking it over gives it one.               *)
LEMMA AcceptReattachControl ==
  ASSUME Control, NEW c \in Conns, AcceptReattach(c)
  PROVE  Control'
  <1> USE DEF Control
  <1>1. /\ c2s' \in [Conns -> Seq(Frames)] /\ \A d \in Conns : d # c => c2s'[d] = c2s[d]
        /\ c2s[c] # << >> /\ Head(c2s[c]).seq \in Nat
    BY ServerRead, Fields DEF AcceptReattach
  <1>2. PICK s \in Conns : /\ state[s] = "Orphaned" /\ sess' = [sess EXCEPT ![c] = s]
                           /\ state' = [state EXCEPT ![s] = "Reconnecting"]
    BY DEF AcceptReattach, Matches
  <1>3. /\ spc[c] = "accepting" /\ spc' = [spc EXCEPT ![c] = "granting"]
        /\ cursor' = [cursor EXCEPT ![c] = Head(c2s[c]).seq]
        /\ UNCHANGED <<live, outVars, cand, tokenVars, up, s2c, clientVars>>
    BY DEF AcceptReattach, Goto
  <1>4. TypeOK'
    BY <1>1, <1>2, <1>3 DEF TypeOK, outVars, tokenVars, clientVars
  <1>5. NetInv'
    BY <1>1, <1>3, OwnTypes DEF NetInv, clientVars, Fresh
  <1>6. OwnInv'
    BY <1>2, <1>3, OwnTypes DEF OwnInv, Serving, Writing, outVars
  <1> QED
    BY <1>4, <1>5, <1>6

(* A handler that rejects a Reattach never had a session.                  *)
LEMMA RejectReattachControl ==
  ASSUME Control, NEW c \in Conns, RejectReattach(c)
  PROVE  Control'
  <1> USE DEF Control
  <1>1. /\ s2c' \in [Conns -> Seq(Frames)] /\ \A d \in Conns : d # c => s2c'[d] = s2c[d]
        /\ c \notin up => s2c'[c] = s2c[c]
    BY Messages, ServerWritten DEF RejectReattach
  <1>2. /\ spc[c] = "accepting" /\ c2s[c] # << >> /\ HandlerReturns(c)
        /\ UNCHANGED <<slotVars, sess, tokenVars, clientVars>>
    BY DEF RejectReattach, ServerSees
  <1>3. /\ spc' = [spc EXCEPT ![c] = "done"] /\ up' = up \ {c} /\ c2s'[c] = << >>
        /\ \A d \in Conns : d # c => c2s'[d] = c2s[d]
    BY <1>2, Returned
  <1>4. TypeOK'
    BY <1>1, <1>2, Returned DEF TypeOK, slotVars, outVars, tokenVars, clientVars
  <1>5. NetInv'
    BY <1>1, <1>2, <1>3, OwnTypes DEF NetInv, clientVars, Fresh
  <1>6. OwnInv'
    BY <1>2, <1>3, OwnTypes DEF OwnInv, Serving, Writing, slotVars, outVars
  <1> QED
    BY <1>4, <1>5, <1>6

(* ReattachOk is the first frame on its connection.                        *)
LEMMA SendReattachOkControl ==
  ASSUME Control, NEW c \in Conns, SendReattachOk(c)
  PROVE  Control'
  <1> USE DEF Control
  <1>1. PICK from \in Nat, b \in BOOLEAN :
           /\ cursor' = [cursor EXCEPT ![c] = from]
           /\ ServerWrites(c, ReattachOk(minted', from, b))
    <2>1. spc[c] = "granting" /\ sess[c] \in Conns
      BY DEF SendReattachOk, OwnInv, Serving, TypeOK
    <2> QED
      BY <2>1 DEF SendReattachOk, TypeOK
  <1>2. /\ spc[c] = "granting" /\ spc' = [spc EXCEPT ![c] = "committing"]
        /\ minted' = minted + 1 /\ cand' = [cand EXCEPT ![c] = minted']
        /\ offered' = offered \cup {minted'}
        /\ UNCHANGED <<slotVars, sess, up, c2s, clientVars>>
    BY DEF SendReattachOk, Goto
  <1>3. ReattachOk(minted', from, b) \in Frames
    BY <1>2, Messages DEF TypeOK
  <1>4. /\ s2c' \in [Conns -> Seq(Frames)] /\ \A d \in Conns : d # c => s2c'[d] = s2c[d]
        /\ c \notin up => s2c'[c] = s2c[c]
    BY <1>1, <1>3, ServerWritten
  <1>5. TypeOK'
    <2>1. minted' \in Nat /\ cand' \in [Conns -> Nat]
      BY <1>2 DEF TypeOK
    <2>2. offered' \subseteq Nat
      BY <1>2, <2>1 DEF TypeOK
    <2> QED
      BY <1>1, <1>2, <1>4, <2>1, <2>2 DEF TypeOK, slotVars, outVars, clientVars
  <1>6. NetInv'
    BY <1>2, <1>4, OwnTypes DEF NetInv, clientVars, Fresh
  <1>7. OwnInv'
    BY <1>2, OwnTypes DEF OwnInv, Serving, Writing, slotVars, outVars
  <1> QED
    BY <1>5, <1>6, <1>7

(* A handler that goes on serving its session preserves the ownership.     *)
LEMMA ServesControl ==
  ASSUME Control, NEW c \in Conns, spc[c] \in Serving \ Fresh,
         NEW l \in Serving \ Fresh, spc' = [spc EXCEPT ![c] = l],
         state' = state \/ state' = [state EXCEPT ![sess[c]] = "Active"],
         live' \in [Conns -> Nat], low' \in [Conns -> Nat], next' \in [Conns -> Nat],
         overflowed' \in [Conns -> BOOLEAN], pending' \in [Conns -> Nat],
         produced' \in [Conns -> Nat], cursor' \in [Conns -> Nat],
         \A s \in Conns : s # sess[c] => next'[s] = next[s],
         s2c' \in [Conns -> Seq(Frames)], \A d \in Conns : d # c => s2c'[d] = s2c[d],
         c \notin up => s2c'[c] = s2c[c],
         c2s' \in [Conns -> Seq(Frames)], \A d \in Conns : d # c => c2s'[d] = c2s[d],
         UNCHANGED <<sess, cand, tokenVars, up, clientVars>>
  PROVE  Control'
  <1> USE DEF Control
  <1>1. sess[c] \in Conns /\ state[sess[c]] \in {"Active", "Reconnecting"}
    BY DEF OwnInv
  <1>2. TypeOK'
    <2>1. spc' \in [Conns -> {"accepting", "opening", "granting", "committing",
                               "replaying", "pump", "stopping", "done"}]
      BY OwnTypes DEF Serving, Writing
    <2>2. state' \in [Conns -> {"None", "Active", "Orphaned", "Reconnecting", "Gone"}]
      BY OwnTypes
    <2> QED
      BY <2>1, <2>2 DEF TypeOK, tokenVars, clientVars
  <1>3. NetInv'
    BY OwnTypes DEF NetInv, clientVars, Fresh, Serving, Writing
  <1>4. OwnInv'
    <2>1. \A d \in Conns : spc[d] \in {"accepting", "opening"} => d # sess[c] /\ d # c
      <3> SUFFICES ASSUME NEW d \in Conns, spc[d] \in {"accepting", "opening"}
                   PROVE  d # sess[c] /\ d # c
        OBVIOUS
      <3>1. d # c
        BY DEF Fresh
      <3>2. CASE spc[d] = "accepting"
        BY <1>1, <3>1, <3>2 DEF OwnInv
      <3>3. CASE spc[d] = "opening"
        <4>1. sess[d] = d /\ spc[d] \in Serving
          BY <3>3 DEF OwnInv, Serving
        <4> QED
          BY <3>1, <4>1 DEF OwnInv
      <3> QED
        BY <3>1, <3>2, <3>3
    <2>2. \A d \in Conns : spc'[d] = IF d = c THEN l ELSE spc[d]
      BY OwnTypes
    <2>3. \A d \in Conns : state'[d] = state[d] \/ (d = sess[c] /\ state'[d] = "Active")
      BY OwnTypes
    <2>4. \A d \in Conns : spc'[d] \in {"accepting", "opening"} =>
             d # c /\ spc'[d] = spc[d] /\ d # sess[c] /\ state'[d] = state[d] /\ next'[d] = next[d]
      BY <2>1, <2>2, <2>3, SMTT(40) DEF Fresh
    <2>5. \A d \in Conns : spc'[d] \in Serving <=> spc[d] \in Serving
      BY <2>2
    <2>6. /\ \A d \in Conns : spc'[d] = "accepting" => sess'[d] = NoConn /\ state'[d] = "None"
          /\ \A d \in Conns : spc'[d] = "opening" => sess'[d] = d
          /\ \A d \in Conns : spc'[d] \in {"accepting", "opening"} => next'[d] = 0
      <3>1. ASSUME NEW d \in Conns, spc'[d] \in {"accepting", "opening"}
            PROVE  /\ spc'[d] = "accepting" => sess'[d] = NoConn /\ state'[d] = "None"
                   /\ spc'[d] = "opening" => sess'[d] = d
                   /\ next'[d] = 0
        <4>1. /\ spc'[d] = spc[d] /\ sess'[d] = sess[d] /\ state'[d] = state[d]
              /\ next'[d] = next[d]
          BY <2>4, <3>1
        <4> QED
          BY <3>1, <4>1 DEF OwnInv
      <3> QED
        BY <3>1
    <2>7. \A d \in Conns : spc'[d] \in Serving =>
             sess'[d] \in Conns /\ state'[sess'[d]] \in {"Active", "Reconnecting"}
      BY <2>3, <2>5 DEF OwnInv
    <2>8. \A d, e \in Conns :
             spc'[d] \in Serving /\ spc'[e] \in Serving /\ sess'[d] = sess'[e] => d = e
      BY <2>5 DEF OwnInv
    <2> QED
      BY <2>6, <2>7, <2>8 DEF OwnInv
  <1> QED
    BY <1>2, <1>3, <1>4

(* The other steps of a handler that serves a session.                     *)
LEMMA ServingControl ==
  ASSUME Control, NEW c \in Conns,
         \/ CommitToken(c) \/ ReplayChunk(c) \/ Rebind(c) \/ PtyRead(c) \/ PumpOutput(c)
         \/ PumpAck(c) \/ PumpChannelOpen(c) \/ PumpFails(c)
  PROVE  Control'
  <1>1. /\ TypeOK /\ spc = [spc EXCEPT ![c] = spc[c]]
        /\ {"replaying", "pump", "stopping", "committing"} \subseteq Serving \ Fresh
        /\ spc[c] \in Serving => sess[c] \in Conns
    BY DEF Control, TypeOK, OwnInv, Serving, Writing, Fresh
  <1>2. /\ live \in [Conns -> Nat] /\ low \in [Conns -> Nat] /\ next \in [Conns -> Nat]
        /\ overflowed \in [Conns -> BOOLEAN] /\ pending \in [Conns -> Nat]
        /\ produced \in [Conns -> Nat] /\ cursor \in [Conns -> Nat] /\ cand \in [Conns -> Nat]
        /\ s2c \in [Conns -> Seq(Frames)] /\ c2s \in [Conns -> Seq(Frames)]
    BY <1>1 DEF TypeOK
  <1>3. CASE CommitToken(c)
    <2>1. live' \in [Conns -> Nat]
      BY <1>2, <1>3 DEF CommitToken
    <2> QED
      BY <1>1, <1>2, <1>3, <2>1, ServesControl DEF CommitToken, Goto, outVars
  <1>4. CASE ReplayChunk(c)
    <2>1. /\ s2c' \in [Conns -> Seq(Frames)] /\ \A d \in Conns : d # c => s2c'[d] = s2c[d]
          /\ c \notin up => s2c'[c] = s2c[c]
      BY <1>1, <1>2, <1>4, Messages, ServerWritten DEF ReplayChunk
    <2>2. /\ cursor' = [cursor EXCEPT ![c] = cursor[c] + 1] /\ spc[c] = "replaying"
          /\ UNCHANGED <<slotVars, spc, sess, cand, tokenVars, up, c2s, clientVars>>
      BY <1>4 DEF ReplayChunk
    <2>3. cursor' \in [Conns -> Nat]
      BY <1>2, <2>2
    <2>4. /\ spc' = [spc EXCEPT ![c] = "replaying"]
          /\ UNCHANGED <<state, live, low, next, overflowed, pending, produced>>
      BY <1>1, <2>2 DEF slotVars, outVars
    <2>5. /\ live' \in [Conns -> Nat] /\ low' \in [Conns -> Nat] /\ next' \in [Conns -> Nat]
          /\ overflowed' \in [Conns -> BOOLEAN] /\ pending' \in [Conns -> Nat]
          /\ produced' \in [Conns -> Nat] /\ cand' \in [Conns -> Nat]
          /\ c2s' \in [Conns -> Seq(Frames)] /\ \A s \in Conns : s # sess[c] => next'[s] = next[s]
          /\ "replaying" \in Serving \ Fresh
      BY <1>2, <2>2, <2>4 DEF Serving, Writing, Fresh
    <2> QED
      BY <1>1, <2>1, <2>2, <2>3, <2>4, <2>5, ServesControl
  <1>5. CASE Rebind(c)
    BY <1>1, <1>2, <1>5, ServesControl DEF Rebind, Goto, outVars
  <1>6. CASE PtyRead(c)
    <2>1. pending' \in [Conns -> Nat] /\ produced' \in [Conns -> Nat]
      <3>1. /\ pending' = [pending EXCEPT ![sess[c]] = pending[sess[c]] + 1]
            /\ produced' = [produced EXCEPT ![sess[c]] = produced[sess[c]] + 1]
            /\ sess[c] \in Conns
        BY <1>1, <1>6 DEF PtyRead
      <3>2. pending \in [Conns -> Nat] /\ produced \in [Conns -> Nat]
        BY <1>2
      <3> QED
        BY <3>1, <3>2
    <2>2. /\ spc[c] \in {"pump", "stopping"}
          /\ UNCHANGED <<state, live, low, next, overflowed, serverVars, up, s2c, c2s, clientVars>>
      BY <1>6 DEF PtyRead
    <2> QED
      BY <1>1, <1>2, <2>1, <2>2, ServesControl DEF serverVars
  <1>7. CASE PumpOutput(c)
    <2>1. /\ spc[c] = "pump" /\ sess[c] \in Conns
          /\ pending[sess[c]] > 0 /\ pending' = [pending EXCEPT ![sess[c]] = pending[sess[c]] - 1]
          /\ next' = [next EXCEPT ![sess[c]] = next[sess[c]] + 1]
          /\ UNCHANGED <<state, live, produced, sess, cand, cursor, tokenVars, up, c2s, clientVars>>
      BY <1>1, <1>7 DEF PumpOutput
    <2>2. low' \in [Conns -> Nat] /\ overflowed' \in [Conns -> BOOLEAN]
      <3>1. PICK l \in low[sess[c]] .. next[sess[c]] :
               /\ low' = [low EXCEPT ![sess[c]] = l]
               /\ overflowed' = [overflowed EXCEPT ![sess[c]] = @ \/ l # low[sess[c]]]
        BY <1>7 DEF PumpOutput
      <3>2. l \in Nat
        <4>1. low[sess[c]] \in Nat /\ next[sess[c]] \in Nat
          BY <1>2, <2>1
        <4> QED
          BY <4>1
      <3> QED
        BY <1>2, <2>1, <3>1, <3>2
    <2>3. /\ pending' \in [Conns -> Nat] /\ next' \in [Conns -> Nat]
          /\ \A s \in Conns : s # sess[c] => next'[s] = next[s]
      <3>1. pending \in [Conns -> Nat] /\ next \in [Conns -> Nat] /\ sess[c] \in Conns
        BY <1>2, <2>1
      <3>2. pending[sess[c]] - 1 \in Nat /\ next[sess[c]] + 1 \in Nat
        BY <2>1, <3>1
      <3> QED
        BY <2>1, <3>1, <3>2
    <2> DEFINE Rest == /\ spc[c] = "pump" /\ spc[c] \in Serving \ Fresh
                       /\ state' = state /\ live' \in [Conns -> Nat]
                       /\ produced' \in [Conns -> Nat] /\ cursor' \in [Conns -> Nat]
                       /\ c2s' \in [Conns -> Seq(Frames)]
                       /\ \A d \in Conns : d # c => c2s'[d] = c2s[d]
                       /\ UNCHANGED <<sess, cand, tokenVars, up, clientVars>>
    <2>4. Rest
      BY <1>1, <1>2, <2>1
    <2>5. CASE ServerWrites(c, PtyData(sess[c], next[sess[c]])) /\ UNCHANGED spc
      <3>1. /\ s2c' \in [Conns -> Seq(Frames)] /\ \A d \in Conns : d # c => s2c'[d] = s2c[d]
            /\ c \notin up => s2c'[c] = s2c[c]
        BY <1>1, <1>2, <2>1, <2>5, Messages, ServerWritten
      <3>2. spc' = [spc EXCEPT ![c] = "pump"]
        BY <1>1, <2>1, <2>5
      <3> QED
        BY <1>1, <2>4, <2>2, <2>3, <3>1, <3>2, ServesControl
    <2>6. CASE Goto(c, "stopping") /\ UNCHANGED s2c
      <3>1. spc' = [spc EXCEPT ![c] = "stopping"] /\ s2c' = s2c /\ s2c \in [Conns -> Seq(Frames)]
        BY <1>2, <2>6 DEF Goto
      <3> QED
        BY <1>1, <2>4, <2>2, <2>3, <3>1, ServesControl
    <2> QED
      BY <1>7, <2>5, <2>6 DEF PumpOutput
  <1>8. CASE PumpAck(c)
    <2>1. /\ c2s' \in [Conns -> Seq(Frames)] /\ \A d \in Conns : d # c => c2s'[d] = c2s[d]
          /\ Head(c2s[c]).seq \in Nat
      BY <1>1, <1>8, ServerRead, Fields DEF PumpAck
    <2>2. low' \in [Conns -> Nat]
      BY <1>2, <1>8, <2>1 DEF PumpAck
    <2>3. /\ spc[c] = "pump"
          /\ UNCHANGED <<state, live, next, overflowed, pending, produced, serverVars, up, s2c, clientVars>>
      BY <1>8 DEF PumpAck
    <2> QED
      BY <1>1, <1>2, <2>1, <2>2, <2>3, ServesControl DEF serverVars
  <1>9. CASE PumpChannelOpen(c)
    <2>1. /\ s2c' \in [Conns -> Seq(Frames)] /\ \A d \in Conns : d # c => s2c'[d] = s2c[d]
          /\ c \notin up => s2c'[c] = s2c[c]
      BY <1>1, <1>9, Messages, ServerWritten DEF PumpChannelOpen
    <2>2. /\ c2s' \in [Conns -> Seq(Frames)] /\ \A d \in Conns : d # c => c2s'[d] = c2s[d]
      BY <1>1, <1>9, ServerRead DEF PumpChannelOpen
    <2>3. spc[c] = "pump" /\ UNCHANGED <<slotVars, serverVars, up, clientVars>>
      BY <1>9 DEF PumpChannelOpen
    <2> QED
      BY <1>1, <1>2, <2>1, <2>2, <2>3, ServesControl DEF slotVars, outVars, serverVars
  <1>10. CASE PumpFails(c)
    BY <1>1, <1>2, <1>10, ServesControl DEF PumpFails, Goto, slotVars, outVars
  <1> QED
    BY <1>3, <1>4, <1>5, <1>6, <1>7, <1>8, <1>9, <1>10

(* The client's steps on its latest connection.                            *)
LEMMA OnlineControl ==
  ASSUME Control, conn \in Conns,
         cpc' \in {"idle", "awaiting", "channel", "pump", "ended", "quit"},
         cpc' \in Attaching \/ (conn \notin up' /\ s2c'[conn] = << >>),
         up' \subseteq up,
         s2c' \in [Conns -> Seq(Frames)], \A d \in Conns : d # conn => s2c'[d] = s2c[d],
         s2c[conn] = << >> => s2c'[conn] = << >>,
         c2s' \in [Conns -> Seq(Frames)], \A d \in Conns : d # conn => c2s'[d] = c2s[d],
         token' \in Nat, highest_applied' \in Nat, last_acked' \in Nat,
         got' \in [Conns -> Nat], UNCHANGED <<slotVars, serverVars, conn>>
  PROVE  Control'
  <1> USE DEF Control
  <1>1. TypeOK'
    BY DEF TypeOK, slotVars, outVars, serverVars, tokenVars
  <1>2. NetInv'
    <2>1. spc' = spc /\ conn' = conn
      BY DEF serverVars
    <2>2. \A c \in Conns : c # conn => c \notin up' /\ s2c'[c] = << >>
      BY DEF NetInv
    <2>3. \A c \in Conns : c > conn => c2s'[c] = << >> /\ spc[c] = "accepting"
      <3>1. \A c \in Conns : c \in Nat /\ conn \in Nat
        BY OwnTypes
      <3>2. \A c \in Conns : c > conn => c # conn
        BY <3>1
      <3> QED
        BY <3>2 DEF NetInv
    <2>4. \A c \in Conns : spc[c] \in Fresh => s2c'[c] = << >>
      BY DEF NetInv
    <2> QED
      BY <2>1, <2>2, <2>3, <2>4 DEF NetInv
  <1>3. OwnInv'
    BY DEF OwnInv, slotVars, outVars, serverVars
  <1> QED
    BY <1>1, <1>2, <1>3

(* The client that leaves closes its connection.                           *)
LEMMA LeavesControl ==
  ASSUME Control, conn \in Conns, NEW l \in {"idle", "ended", "quit"}, ClientLeaves(l),
         token' \in Nat,
         UNCHANGED <<slotVars, serverVars, c2s, conn, highest_applied, last_acked, got>>
  PROVE  Control'
  <1>1. /\ cpc' = l /\ up' = up \ {conn} /\ s2c' = [s2c EXCEPT ![conn] = << >>]
    BY DEF ClientLeaves
  <1>2. /\ s2c \in [Conns -> Seq(Frames)] /\ c2s \in [Conns -> Seq(Frames)]
        /\ highest_applied \in Nat /\ last_acked \in Nat /\ got \in [Conns -> Nat]
    BY DEF Control, TypeOK
  <1>3. << >> \in Seq(Frames)
    BY EmptySeq
  <1>4. /\ s2c' \in [Conns -> Seq(Frames)] /\ \A d \in Conns : d # conn => s2c'[d] = s2c[d]
        /\ s2c'[conn] = << >>
    BY <1>1, <1>2, <1>3
  <1> QED
    BY <1>1, <1>2, <1>4, OnlineControl

(* What StartPump leaves in the client and on the wire.                    *)
LEMMA StartPumpFacts ==
  ASSUME TypeOK, conn \in Conns, NEW n \in Nat, StartPump(n), Head(s2c[conn]) \in Frames,
         Head(s2c[conn]).type \in {"SessionOpened", "ReattachOk"}
  PROVE  /\ highest_applied' = n /\ last_acked' = n /\ cpc' = "channel"
         /\ token' = Head(s2c[conn]).token /\ token' \in Nat
         /\ c2s' \in [Conns -> Seq(Frames)] /\ \A d \in Conns : d # conn => c2s'[d] = c2s[d]
         /\ \A i \in DOMAIN c2s'[conn] :
               \/ i \in DOMAIN c2s[conn] /\ c2s'[conn][i] = c2s[conn][i]
               \/ c2s'[conn][i] = ChannelOpen
  <1>1. ClientWrites(ChannelOpen) /\ ChannelOpen \in Frames
    BY Messages DEF StartPump
  <1> QED
    BY <1>1, ClientWritten, Fields DEF StartPump

(* Reading a chunk raises what the client received, of one session.        *)
LEMMA ReceivedFacts ==
  ASSUME TypeOK, NEW m \in Frames, m.type = "PtyData"
  PROVE  /\ Received(m) \in [Conns -> Nat]
         /\ \A s \in Conns : Received(m)[s] =
               IF s = m.sess /\ m.seq >= got[s] THEN m.seq + 1 ELSE got[s]
  <1>1. got \in [Conns -> Nat] /\ m.sess \in Conns /\ m.seq \in Nat
    BY Fields DEF TypeOK
  <1> QED
    BY <1>1 DEF Received

(* The steps of the client on its connection.                              *)
LEMMA ClientControl ==
  ASSUME Control, ClientStep \/ AckTick \/ UserQuits
  PROVE  Control'
  <1>1. TypeOK /\ conn \in Conns
    BY DEF Control, NetInv, Attaching, ClientStep, RecvOpened, RecvReattachOk, RecvReattachErr,
           SkipChunk, ChannelSettled, RecvChunk, RecvClose, ClientDrops, AckTick, UserQuits
  <1>2. /\ s2c \in [Conns -> Seq(Frames)] /\ c2s \in [Conns -> Seq(Frames)]
        /\ token \in Nat /\ highest_applied \in Nat /\ last_acked \in Nat
        /\ got \in [Conns -> Nat] /\ sess[conn] \in Conns \cup {NoConn}
    BY <1>1 DEF TypeOK
  <1>3. {"channel", "pump"} \subseteq Attaching
    BY DEF Attaching
  <1> DEFINE Taken == /\ s2c' \in [Conns -> Seq(Frames)]
                      /\ \A d \in Conns : d # conn => s2c'[d] = s2c[d]
                      /\ s2c[conn] # << >>
  <1>4. ASSUME NEW kind, ClientReads(kind) PROVE Taken
    BY <1>1, <1>4, ClientRead
  <1>5. CASE RecvOpened
    <2>1. Head(s2c[conn]) \in Frames /\ Head(s2c[conn]).type = "SessionOpened" /\ StartPump(0)
      BY <1>1, <1>5, ClientRead DEF RecvOpened
    <2>2. Taken /\ UNCHANGED <<slotVars, serverVars, up, conn, got>>
      BY <1>4, <1>5 DEF RecvOpened
    <2>3. /\ highest_applied' = 0 /\ last_acked' = 0 /\ cpc' = "channel" /\ token' \in Nat
          /\ c2s' \in [Conns -> Seq(Frames)] /\ \A d \in Conns : d # conn => c2s'[d] = c2s[d]
      BY <1>1, <2>1, StartPumpFacts
    <2> QED
      BY <1>1, <1>2, <1>3, <2>2, <2>3, OnlineControl
  <1>6. CASE RecvReattachOk
    <2>1. /\ Head(s2c[conn]) \in Frames /\ Head(s2c[conn]).type = "ReattachOk"
          /\ Head(s2c[conn]).seq \in Nat
      BY <1>1, <1>6, ClientRead, Fields DEF RecvReattachOk
    <2>2. /\ Taken /\ UNCHANGED <<slotVars, serverVars, up, conn>>
          /\ StartPump(Head(s2c[conn]).seq)
      BY <1>4, <1>6 DEF RecvReattachOk
    <2>3. /\ highest_applied' \in Nat /\ last_acked' \in Nat /\ cpc' = "channel" /\ token' \in Nat
          /\ c2s' \in [Conns -> Seq(Frames)] /\ \A d \in Conns : d # conn => c2s'[d] = c2s[d]
      BY <1>1, <2>1, <2>2, StartPumpFacts
    <2>4. got' \in [Conns -> Nat]
      BY <1>2, <1>6, <2>1 DEF RecvReattachOk
    <2> QED
      BY <1>1, <1>2, <1>3, <2>2, <2>3, <2>4, OnlineControl
  <1>7. CASE RecvReattachErr
    <2>1. token' \in Nat
      BY <1>7 DEF RecvReattachErr, NoToken
    <2> QED
      BY <1>1, <1>7, <2>1, LeavesControl DEF RecvReattachErr
  <1>8. CASE SkipChunk
    <2>1. Taken /\ got' \in [Conns -> Nat]
      BY <1>1, <1>4, <1>8, ClientRead, ReceivedFacts DEF SkipChunk
    <2>2. cpc' = "channel" /\ UNCHANGED <<slotVars, serverVars, up, c2s, conn, token, highest_applied, last_acked>>
      BY <1>8 DEF SkipChunk
    <2> QED
      BY <1>1, <1>2, <1>3, <2>1, <2>2, OnlineControl
  <1>9. CASE ChannelSettled
    <2>1. Taken \/ UNCHANGED s2c
      BY <1>4, <1>9 DEF ChannelSettled
    <2>2. cpc' = "pump" /\ UNCHANGED <<slotVars, serverVars, up, c2s, conn, token, highest_applied, last_acked, got>>
      BY <1>9 DEF ChannelSettled
    <2> QED
      BY <1>1, <1>2, <1>3, <2>1, <2>2, OnlineControl
  <1>10. CASE RecvChunk
    <2>1. Taken /\ got' \in [Conns -> Nat]
      BY <1>1, <1>4, <1>10, ClientRead, ReceivedFacts DEF RecvChunk
    <2>2. highest_applied' \in Nat
      BY <1>2, <1>10 DEF RecvChunk
    <2>3. cpc' = "pump" /\ UNCHANGED <<slotVars, serverVars, up, c2s, conn, token, last_acked>>
      BY <1>10 DEF RecvChunk
    <2> QED
      BY <1>1, <1>2, <1>3, <2>1, <2>2, <2>3, OnlineControl
  <1>11. CASE RecvClose \/ ClientDrops \/ UserQuits
    <2>1. PICK l \in {"idle", "ended", "quit"} :
             /\ ClientLeaves(l)
             /\ UNCHANGED <<slotVars, serverVars, c2s, conn, token, highest_applied, last_acked, got>>
      BY <1>11 DEF RecvClose, ClientDrops, UserQuits
    <2> QED
      BY <1>1, <1>2, <2>1, LeavesControl
  <1>12. CASE AckTick
    <2>1. ClientWrites(AckMsg(highest_applied)) /\ AckMsg(highest_applied) \in Frames
      BY <1>2, <1>12, Messages DEF AckTick
    <2>2. /\ c2s' \in [Conns -> Seq(Frames)] /\ \A d \in Conns : d # conn => c2s'[d] = c2s[d]
      BY <1>1, <2>1, ClientWritten
    <2>3. /\ cpc' = "pump" /\ last_acked' = highest_applied
          /\ UNCHANGED <<slotVars, serverVars, up, s2c, conn, token, highest_applied, got>>
      BY <1>12 DEF AckTick
    <2> QED
      BY <1>1, <1>2, <1>3, <2>2, <2>3, OnlineControl
  <1> QED
    BY <1>5, <1>6, <1>7, <1>8, <1>9, <1>10, <1>11, <1>12 DEF ClientStep

(* The next connection.                                                    *)
LEMMA ConnectFacts ==
  ASSUME Control, Connect
  PROVE  /\ conn' = conn + 1 /\ conn' \in Conns /\ cpc = "idle" /\ cpc' = "awaiting"
         /\ up' = up \cup {conn'}
         /\ c2s' \in [Conns -> Seq(Frames)] /\ \A d \in Conns : d # conn' => c2s'[d] = c2s[d]
         /\ c2s'[conn'] = << IF token = NoToken THEN SessionOpen
                             ELSE ReattachMsg(token, highest_applied) >>
         /\ UNCHANGED <<slotVars, serverVars, s2c, token, highest_applied, last_acked, got>>
  <1>1. conn' = conn + 1 /\ conn' \in Conns
    BY OwnTypes, ReattachAssumption DEF Control, Connect, Conns
  <1> DEFINE m == IF token = NoToken THEN SessionOpen ELSE ReattachMsg(token, highest_applied)
  <1>2. m \in Frames /\ c2s \in [Conns -> Seq(Frames)]
    BY Messages DEF Control, TypeOK
  <1>3. c2s' = [c2s EXCEPT ![conn'] = << m >>]
    BY DEF Connect
  <1> HIDE DEF m
  <1>4. << m >> \in Seq(Frames)
    BY <1>2
  <1>5. /\ c2s' \in [Conns -> Seq(Frames)] /\ \A d \in Conns : d # conn' => c2s'[d] = c2s[d]
        /\ c2s'[conn'] = << m >>
    BY <1>1, <1>2, <1>3, <1>4
  <1> QED
    BY <1>1, <1>5 DEF Connect, m

(* The next connection starts without frames and without a handler.        *)
LEMMA ConnectControl ==
  ASSUME Control, Connect
  PROVE  Control'
  <1> USE DEF Control
  <1>1. TypeOK'
    BY ConnectFacts DEF TypeOK, slotVars, outVars, serverVars, tokenVars
  <1>2. NetInv'
    <2>1. /\ spc' = spc /\ s2c' = s2c /\ conn' = conn + 1 /\ conn' \in Conns
          /\ up' = up \cup {conn'} /\ cpc' = "awaiting"
      BY ConnectFacts DEF serverVars
    <2>2. \A c \in Conns : s2c[c] = << >> /\ c \notin up
      BY ConnectFacts DEF NetInv, Attaching
    <2>3. \A c \in Conns : c > conn' => c > conn /\ c # conn'
      <3>1. \A c \in Conns : c \in Nat /\ conn \in Nat
        BY OwnTypes
      <3> QED
        BY <2>1, <3>1
    <2>4. \A c \in Conns : c > conn' => c2s'[c] = << >> /\ spc[c] = "accepting"
      BY <2>3, ConnectFacts DEF NetInv
    <2> QED
      BY <2>1, <2>2, <2>4 DEF NetInv, Attaching
  <1>3. OwnInv'
    BY ConnectFacts DEF OwnInv, slotVars, outVars, serverVars
  <1> QED
    BY <1>1, <1>2, <1>3

(* A connection is lost, an orphan ends.                                   *)
LEMMA WorldControl ==
  ASSUME Control, NEW c \in Conns, ConnectionLost(c) \/ OrphanEnds(c)
  PROVE  Control'
  <1> USE DEF Control
  <1>1. CASE ConnectionLost(c)
    <2>1. TypeOK'
      BY <1>1 DEF ConnectionLost, TypeOK, slotVars, outVars, serverVars, tokenVars, clientVars
    <2>2. NetInv' /\ OwnInv'
      BY <1>1 DEF ConnectionLost, NetInv, OwnInv, slotVars, outVars, serverVars, clientVars
    <2> QED
      BY <2>1, <2>2
  <1>2. CASE OrphanEnds(c)
    <2>1. TypeOK'
      BY <1>2 DEF OrphanEnds, TypeOK, outVars, serverVars, tokenVars, clientVars
    <2>2. NetInv' /\ OwnInv'
      BY <1>2, OwnTypes DEF OrphanEnds, NetInv, OwnInv, outVars, serverVars, clientVars
    <2> QED
      BY <2>1, <2>2
  <1> QED
    BY <1>1, <1>2

(* Nobody owns anything at first.                                          *)
LEMMA InitControl == Init => Control
  <1> SUFFICES ASSUME Init PROVE Control
    OBVIOUS
  <1>1. << >> \in Seq(Frames) /\ NoConn \notin Conns
    BY EmptySeq DEF Conns, NoConn
  <1>2. TypeOK
    BY <1>1 DEF Init, TypeOK, NoConn, NoToken
  <1> QED
    BY <1>1, <1>2 DEF Init, Control, NetInv, OwnInv, Attaching, Serving, Writing

(* Every step preserves the ownership.                                     *)
LEMMA NextControl == Control /\ [Next]_vars => Control'
  <1> SUFFICES ASSUME Control, [Next]_vars PROVE Control'
    OBVIOUS
  <1>1. CASE UNCHANGED vars
    <2>1. TypeOK'
      BY <1>1 DEF vars, slotVars, outVars, serverVars, tokenVars, clientVars, Control, TypeOK
    <2>2. NetInv' /\ OwnInv'
      BY <1>1 DEF vars, slotVars, outVars, serverVars, clientVars, Control, NetInv, OwnInv
    <2> QED
      BY <2>1, <2>2 DEF Control
  <1>2. ASSUME NEW c \in Conns,
               HandlerStep(c) \/ PtyRead(c) \/ ShellExits(c) \/ ConnectionLost(c) \/ OrphanEnds(c)
        PROVE  Control'
    BY <1>2, OpenSessionControl, SendOpenedControl, EndsSilentlyControl, AcceptReattachControl,
       RejectReattachControl, SendReattachOkControl, ServingControl, ShellExitsControl,
       WorldControl DEF HandlerStep
  <1>3. CASE ClientStep \/ AckTick \/ Connect \/ UserQuits
    BY <1>3, ClientControl, ConnectControl
  <1> QED
    BY <1>1, <1>2, <1>3 DEF Next
-----------------------------------------------------------------------------
(* Which session a token stands for.                                       *)

(* What a step may do to tokens: mint new ones, commit a candidate, drop   *)
(* one; a handler that has a candidate keeps its session.                  *)
TokenMoves ==
  /\ minted' \in Nat /\ minted <= minted'
  /\ \A r \in Conns : \/ live'[r] = live[r] \/ live'[r] > minted
                      \/ \E c \in Conns : live'[r] = cand[c] /\ r = sess[c]
  /\ \A c \in Conns : \/ cand'[c] = cand[c] /\ sess'[c] = sess[c]
                      \/ cand'[c] = NoToken
                      \/ cand'[c] > minted

(* Every step does only that.                                              *)
LEMMA EveryStepMovesTokens ==
  ASSUME Control, TokenInv, [Next]_vars
  PROVE  TokenMoves
  <1>1. /\ minted \in Nat /\ live \in [Conns -> Nat] /\ cand \in [Conns -> Nat]
        /\ sess \in [Conns -> Conns \cup {NoConn}] /\ minted + 1 \in Nat
        /\ minted <= minted + 1 /\ minted + 1 > minted /\ minted <= minted
    BY DEF Control, TypeOK
  <1>2. CASE UNCHANGED <<minted, live, cand, sess>>
    BY <1>1, <1>2 DEF TokenMoves
  <1>3. ASSUME NEW c \in Conns, HandlerReturns(c), UNCHANGED <<minted, live, sess>>
        PROVE  TokenMoves
    BY <1>1, <1>3, Returned DEF TokenMoves
  <1>4. ASSUME NEW c \in Conns, OpenSession(c) PROVE TokenMoves
    <2>1. cand[c] = NoToken
      BY <1>4 DEF OpenSession, TokenInv, Fresh
    <2>2. /\ minted' = minted + 1 /\ live' = [live EXCEPT ![c] = minted'] /\ cand' = cand
          /\ sess' = [sess EXCEPT ![c] = c]
      BY <1>4 DEF OpenSession
    <2>3. \A d \in Conns : sess'[d] = sess[d] \/ d = c
      BY <1>1, <2>2
    <2>4. \A d \in Conns : live'[d] = live[d] \/ live'[d] = minted + 1
      BY <1>1, <2>2
    <2> QED
      BY <1>1, <2>1, <2>2, <2>3, <2>4 DEF TokenMoves
  <1>5. ASSUME NEW c \in Conns, AcceptReattach(c) PROVE TokenMoves
    <2>1. cand[c] = NoToken /\ minted' = minted /\ live' = live /\ cand' = cand
      BY <1>5 DEF AcceptReattach, TokenInv, Fresh, tokenVars
    <2>2. PICK s : sess' = [sess EXCEPT ![c] = s]
      BY <1>5 DEF AcceptReattach
    <2>3. \A d \in Conns : sess'[d] = sess[d] \/ d = c
      BY <1>1, <2>2
    <2> QED
      BY <1>1, <2>1, <2>3 DEF TokenMoves
  <1>6. ASSUME NEW c \in Conns, SendReattachOk(c) PROVE TokenMoves
    <2>1. /\ minted' = minted + 1 /\ cand' = [cand EXCEPT ![c] = minted'] /\ live' = live
          /\ sess' = sess
      BY <1>6 DEF SendReattachOk, slotVars
    <2>2. \A d \in Conns : cand'[d] = cand[d] \/ cand'[d] = minted + 1
      BY <1>1, <2>1
    <2> QED
      BY <1>1, <2>1, <2>2 DEF TokenMoves
  <1>7. ASSUME NEW c \in Conns, CommitToken(c) PROVE TokenMoves
    <2>1. /\ live' = [live EXCEPT ![sess[c]] = cand[c]] /\ UNCHANGED <<minted, cand, sess>>
      BY <1>7 DEF CommitToken, tokenVars
    <2>2. \A r \in Conns : live'[r] = live[r] \/ (live'[r] = cand[c] /\ r = sess[c])
      BY <1>1, <2>1
    <2> QED
      BY <1>1, <2>1, <2>2 DEF TokenMoves
  <1>8. ASSUME NEW c \in Conns, HandlerStep(c) PROVE TokenMoves
    <2>1. CASE OpenedFails(c) \/ RejectReattach(c) \/ ReOrphan(c) \/ Orphan(c)
      BY <1>3, <2>1 DEF OpenedFails, RejectReattach, ReOrphan, Orphan, tokenVars, slotVars
    <2>2. CASE SendOpened(c) \/ ReplayChunk(c) \/ Rebind(c) \/ PumpOutput(c) \/ PumpAck(c)
               \/ PumpChannelOpen(c) \/ PumpFails(c)
      BY <1>2, <2>2 DEF SendOpened, ReplayChunk, Rebind, PumpOutput, PumpAck, PumpChannelOpen,
                        PumpFails, slotVars, serverVars, tokenVars
    <2> QED
      BY <1>4, <1>5, <1>6, <1>7, <1>8, <2>1, <2>2 DEF HandlerStep
  <1>9. ASSUME NEW c \in Conns,
               PtyRead(c) \/ ShellExits(c) \/ ConnectionLost(c) \/ OrphanEnds(c)
        PROVE  TokenMoves
    <2>1. CASE ShellExits(c)
      BY <1>3, <2>1 DEF ShellExits, tokenVars
    <2>2. CASE PtyRead(c) \/ ConnectionLost(c) \/ OrphanEnds(c)
      BY <1>2, <2>2 DEF PtyRead, ConnectionLost, OrphanEnds, slotVars, serverVars, tokenVars
    <2> QED
      BY <1>9, <2>1, <2>2
  <1>10. CASE ClientStep \/ AckTick \/ Connect \/ UserQuits
    BY <1>2, <1>10
      DEF ClientStep, AckTick, Connect, UserQuits, RecvOpened, RecvReattachOk, RecvReattachErr,
          SkipChunk, ChannelSettled, RecvChunk, RecvClose, ClientDrops, slotVars, serverVars,
          tokenVars
  <1>11. CASE UNCHANGED vars
    BY <1>2, <1>11 DEF vars, slotVars, serverVars, tokenVars
  <1> QED
    BY <1>8, <1>9, <1>10, <1>11 DEF Next

(* The same of the next state, for a token and a session that are fixed.   *)
BoundNext(t, s) ==
  /\ t # NoToken /\ t <= minted'
  /\ \A r \in Conns : live'[r] = t => r = s
  /\ \A c \in Conns : cand'[c] = t => sess'[c] = s

(* So a token that stands for a session goes on standing for it.           *)
LEMMA BoundKept ==
  ASSUME Control, TokenMoves, NEW t \in Nat, NEW s, Bound(t, s)
  PROVE  BoundNext(t, s)
  <1>1. minted \in Nat /\ minted' \in Nat /\ minted <= minted' /\ t # NoToken /\ t <= minted
    BY DEF Bound, TokenMoves, Control, TypeOK
  <1>2. t <= minted' /\ ~(t > minted)
    BY <1>1
  <1>3. ASSUME NEW r \in Conns, live'[r] = t PROVE r = s
    BY <1>2, <1>3 DEF Bound, TokenMoves
  <1>4. ASSUME NEW c \in Conns, cand'[c] = t PROVE sess'[c] = s
    BY <1>1, <1>2, <1>4 DEF Bound, TokenMoves
  <1> QED
    BY <1>1, <1>2, <1>3, <1>4 DEF BoundNext

(* No session and no handler has a token that was not minted.              *)
LEMMA TokensMinted ==
  ASSUME Control, TokenInv
  PROVE  \A c \in Conns : /\ live[c] \in Nat /\ live[c] <= minted /\ ~(live[c] > minted)
                          /\ cand[c] \in Nat /\ cand[c] <= minted /\ ~(cand[c] > minted)
  <1>1. /\ minted \in Nat /\ live \in [Conns -> Nat] /\ cand \in [Conns -> Nat] /\ NoToken = 0
    BY DEF Control, TypeOK, NoToken
  <1> QED
    BY <1>1 DEF TokenInv, Bound

(* Tokens keep standing for one session each when the new ones do.         *)
LEMMA BindingsKept ==
  ASSUME Control, TokenInv, TokenMoves,
         \A r \in Conns : live'[r] > minted => BoundNext(live'[r], r),
         \A c \in Conns : cand'[c] > minted => BoundNext(cand'[c], sess'[c])
  PROVE  /\ \A s \in Conns : live'[s] # NoToken => BoundNext(live'[s], s)
         /\ \A c \in Conns : cand'[c] # NoToken => BoundNext(cand'[c], sess'[c])
  <1>1. ASSUME NEW t \in Nat, NEW s, t # NoToken, Bound(t, s) PROVE BoundNext(t, s)
    BY <1>1, BoundKept
  <1>2. ASSUME NEW s \in Conns, live'[s] # NoToken PROVE BoundNext(live'[s], s)
    <2>1. CASE live'[s] = live[s]
      <3>1. live[s] \in Nat /\ Bound(live[s], s)
        BY <1>2, <2>1, TokensMinted DEF TokenInv
      <3> QED
        BY <1>1, <1>2, <2>1, <3>1
    <2>2. CASE \E c \in Conns : live'[s] = cand[c] /\ s = sess[c]
      <3>1. PICK c \in Conns : live'[s] = cand[c] /\ s = sess[c]
        BY <2>2
      <3>2. cand[c] \in Nat /\ Bound(cand[c], sess[c])
        BY <1>2, <3>1, TokensMinted DEF TokenInv
      <3> QED
        BY <1>1, <1>2, <3>1, <3>2
    <2> QED
      BY <2>1, <2>2 DEF TokenMoves
  <1>3. ASSUME NEW c \in Conns, cand'[c] # NoToken PROVE BoundNext(cand'[c], sess'[c])
    <2>1. CASE cand'[c] = cand[c] /\ sess'[c] = sess[c]
      <3>1. cand[c] \in Nat /\ Bound(cand[c], sess[c])
        BY <1>3, <2>1, TokensMinted DEF TokenInv
      <3> QED
        BY <1>1, <1>3, <2>1, <3>1
    <2> QED
      BY <1>3, <2>1 DEF TokenMoves
  <1> QED
    BY <1>2, <1>3

(* TokenInv of the next state, in those terms.                             *)
LEMMA TokenInvNext ==
  ASSUME \A c \in Conns : spc'[c] \in Fresh => cand'[c] = NoToken,
         \A c \in Conns : spc'[c] = "opening" => live'[c] # NoToken,
         \A s \in Conns : live'[s] # NoToken => BoundNext(live'[s], s),
         \A c \in Conns : cand'[c] # NoToken => BoundNext(cand'[c], sess'[c])
  PROVE  TokenInv'
BY DEF TokenInv, Bound, BoundNext

Tokens == TokenInv /\ SentInv
Settled == Serving \ {"opening"}

(* A step that neither mints nor commits preserves the token invariants:   *)
(* an orphan and a handler past its opening have a token that was sent.    *)
LEMMA TokensKept ==
  ASSUME Control, Tokens, TokenMoves, UNCHANGED <<live, sess>>, offered \subseteq offered',
         \A c \in Conns : cand'[c] = cand[c] \/ cand'[c] = NoToken,
         \A c \in Conns : spc'[c] \in Fresh => spc'[c] = spc[c],
         \A c \in Conns : spc'[c] \in Settled => spc[c] \in Settled \/ live[sess[c]] \in offered',
         \A c \in Conns : spc'[c] = "committing" => spc[c] = "committing" /\ cand'[c] = cand[c],
         \A s \in Conns : state'[s] = "Orphaned" => live[s] \in offered
  PROVE  Tokens'
  <1>1. \A c \in Conns : ~(live'[c] > minted) /\ ~(cand'[c] > minted)
    <2>1. ~(NoToken > minted)
      BY DEF Control, TypeOK, NoToken
    <2> QED
      BY <2>1, TokensMinted DEF Tokens
  <1>2. TokenInv'
    <2>1. \A c \in Conns : spc'[c] \in Fresh => cand'[c] = NoToken
      BY DEF Tokens, TokenInv
    <2>2. \A c \in Conns : spc'[c] = "opening" => live'[c] # NoToken
      BY DEF Tokens, TokenInv, Fresh
    <2> QED
      BY <1>1, <2>1, <2>2, BindingsKept, TokenInvNext DEF Tokens
  <1>3. SentInv'
    BY DEF Tokens, SentInv, Settled
  <1> QED
    BY <1>2, <1>3 DEF Tokens

(* The end of a service leaves an orphan only of a settled session.        *)
LEMMA EndsTokens ==
  ASSUME Control, Tokens, TokenMoves, NEW c \in Conns, HandlerReturns(c),
         state' = state \/ state' = [state EXCEPT ![sess[c]] = "Gone"]
           \/ (spc[c] \in Settled /\ state' = [state EXCEPT ![sess[c]] = "Orphaned"]),
         UNCHANGED <<live, sess, offered>>
  PROVE  Tokens'
  <1>1. \A d \in Conns : IF d = c THEN spc'[d] = "done" /\ cand'[d] = NoToken
                         ELSE spc'[d] = spc[d] /\ cand'[d] = cand[d]
    BY Returned, OwnTypes DEF Control
  <1>2. \A s \in Conns : \/ state'[s] = state[s] \/ state'[s] = "Gone"
                         \/ s = sess[c] /\ spc[c] \in Settled
    BY OwnTypes DEF Control
  <1>3. \A s \in Conns : state'[s] = "Orphaned" => live[s] \in offered
    BY <1>2 DEF Tokens, SentInv, Settled
  <1>4. \A d \in Conns : /\ cand'[d] = cand[d] \/ cand'[d] = NoToken
                         /\ spc'[d] \in Fresh => spc'[d] = spc[d]
                         /\ spc'[d] \in Settled => spc[d] \in Settled
                         /\ spc'[d] = "committing" => spc[d] = "committing" /\ cand'[d] = cand[d]
    BY <1>1 DEF Fresh, Settled, Serving, Writing
  <1> QED
    BY <1>3, <1>4, TokensKept

(* A new session gets a new token; nobody had one there before.            *)
LEMMA OpenSessionTokens ==
  ASSUME Control, Tokens, TokenMoves, NEW c \in Conns, OpenSession(c)
  PROVE  Tokens'
  <1>1. /\ minted \in Nat /\ live \in [Conns -> Nat] /\ cand \in [Conns -> Nat]
        /\ sess \in [Conns -> Conns \cup {NoConn}] /\ NoToken = 0
    BY DEF Control, TypeOK, NoToken
  <1>2. /\ minted' = minted + 1 /\ live' = [live EXCEPT ![c] = minted'] /\ cand' = cand
        /\ sess' = [sess EXCEPT ![c] = c] /\ offered' = offered /\ spc[c] = "accepting"
    BY DEF OpenSession
  <1>3. /\ spc' = [spc EXCEPT ![c] = "opening"] /\ state' = [state EXCEPT ![c] = "Active"]
    BY DEF OpenSession, Goto
  <1>4. \A d \in Conns : /\ spc'[d] = IF d = c THEN "opening" ELSE spc[d]
                         /\ sess'[d] = IF d = c THEN c ELSE sess[d]
                         /\ state'[d] = IF d = c THEN "Active" ELSE state[d]
    BY <1>2, <1>3, OwnTypes DEF Control
  <1>5. \A s \in Conns : live'[s] = IF s = c THEN minted + 1 ELSE live[s]
    BY <1>1, <1>2
  <1>6. cand[c] = NoToken /\ \A d \in Conns : cand[d] # minted + 1 /\ live[d] # minted + 1
    BY <1>1, <1>2, TokensMinted DEF Tokens, TokenInv, Fresh
  <1>7. BoundNext(minted + 1, c)
    BY <1>1, <1>2, <1>5, <1>6 DEF BoundNext
  <1>8. TokenInv'
    <2>1. \A d \in Conns : spc'[d] \in Fresh => cand'[d] = NoToken
      BY <1>2, <1>4, <1>6 DEF Tokens, TokenInv
    <2>2. \A d \in Conns : spc'[d] = "opening" => live'[d] # NoToken
      BY <1>1, <1>4, <1>5 DEF Tokens, TokenInv
    <2>3. \A s \in Conns : live'[s] > minted => BoundNext(live'[s], s)
      BY <1>5, <1>7, TokensMinted DEF Tokens
    <2>4. \A d \in Conns : ~(cand'[d] > minted)
      BY <1>2, TokensMinted DEF Tokens
    <2> QED
      BY <2>1, <2>2, <2>3, <2>4, BindingsKept, TokenInvNext DEF Tokens
  <1>9. SentInv'
    <2>1. \A d \in Conns : spc[d] \in Settled => d # c /\ sess[d] # c
      BY <1>2 DEF Control, OwnInv, Settled, Serving, Writing
    <2>2. \A s \in Conns : state'[s] = "Orphaned" => live'[s] \in offered'
      BY <1>2, <1>4, <1>5 DEF Tokens, SentInv
    <2>3. \A d \in Conns : spc'[d] \in Settled => live'[sess'[d]] \in offered'
      <3> SUFFICES ASSUME NEW d \in Conns, spc'[d] \in Settled
                   PROVE  live'[sess'[d]] \in offered'
        OBVIOUS
      <3>1. d # c /\ spc[d] \in Settled /\ sess'[d] = sess[d]
        BY <1>4 DEF Settled
      <3>2. sess[d] # c /\ sess[d] \in Conns /\ live[sess[d]] \in offered
        BY <2>1, <3>1 DEF Tokens, SentInv, Settled, Control, OwnInv
      <3> QED
        BY <1>2, <1>5, <3>1, <3>2
    <2>4. \A d \in Conns : spc'[d] = "committing" => cand'[d] \in offered'
      BY <1>2, <1>4 DEF Tokens, SentInv
    <2> QED
      BY <2>2, <2>3, <2>4 DEF SentInv, Settled
  <1> QED
    BY <1>8, <1>9 DEF Tokens

(* A handler that takes over an orphan has no candidate yet.               *)
LEMMA AcceptReattachTokens ==
  ASSUME Control, Tokens, TokenMoves, NEW c \in Conns, AcceptReattach(c)
  PROVE  Tokens'
  <1>2. PICK s \in Conns : /\ state[s] = "Orphaned" /\ sess' = [sess EXCEPT ![c] = s]
                           /\ state' = [state EXCEPT ![s] = "Reconnecting"]
    BY DEF AcceptReattach, Matches
  <1>3. /\ spc[c] = "accepting" /\ spc' = [spc EXCEPT ![c] = "granting"]
        /\ UNCHANGED <<live, cand, minted, offered>>
    BY DEF AcceptReattach, Goto, tokenVars
  <1>4. \A d \in Conns : /\ spc'[d] = IF d = c THEN "granting" ELSE spc[d]
                         /\ sess'[d] = IF d = c THEN s ELSE sess[d]
                         /\ state'[d] = IF d = s THEN "Reconnecting" ELSE state[d]
    BY <1>2, <1>3, OwnTypes DEF Control
  <1>5. cand[c] = NoToken /\ live[s] \in offered
    BY <1>2, <1>3 DEF Tokens, TokenInv, SentInv, Fresh
  <1>6. TokenInv'
    <2>1. \A d \in Conns : spc'[d] \in Fresh => cand'[d] = NoToken
      BY <1>3, <1>4, <1>5 DEF Tokens, TokenInv
    <2>2. \A d \in Conns : spc'[d] = "opening" => live'[d] # NoToken
      BY <1>3, <1>4 DEF Tokens, TokenInv
    <2>3. \A d \in Conns : ~(live'[d] > minted) /\ ~(cand'[d] > minted)
      BY <1>3, TokensMinted DEF Tokens
    <2> QED
      BY <2>1, <2>2, <2>3, BindingsKept, TokenInvNext DEF Tokens
  <1>7. SentInv'
    BY <1>2, <1>3, <1>4, <1>5 DEF Tokens, SentInv, Serving, Writing
  <1> QED
    BY <1>6, <1>7 DEF Tokens

(* The candidate of a ReattachOk is new, and sent before it is committed.  *)
LEMMA SendReattachOkTokens ==
  ASSUME Control, Tokens, TokenMoves, NEW c \in Conns, SendReattachOk(c)
  PROVE  Tokens' /\ BoundNext(minted + 1, sess[c])
  <1>1. /\ minted \in Nat /\ live \in [Conns -> Nat] /\ cand \in [Conns -> Nat] /\ NoToken = 0
    BY DEF Control, TypeOK, NoToken
  <1>2. /\ spc[c] = "granting" /\ spc' = [spc EXCEPT ![c] = "committing"]
        /\ minted' = minted + 1 /\ cand' = [cand EXCEPT ![c] = minted']
        /\ offered' = offered \cup {minted'} /\ UNCHANGED <<state, live, sess>>
    BY DEF SendReattachOk, Goto, slotVars
  <1>3. \A d \in Conns : /\ spc'[d] = IF d = c THEN "committing" ELSE spc[d]
                         /\ cand'[d] = IF d = c THEN minted + 1 ELSE cand[d]
    BY <1>1, <1>2, OwnTypes DEF Control
  <1>4. \A d \in Conns : cand[d] # minted + 1 /\ live[d] # minted + 1
    BY <1>1, TokensMinted DEF Tokens
  <1>5. BoundNext(minted + 1, sess[c])
    BY <1>1, <1>2, <1>3, <1>4 DEF BoundNext
  <1>6. TokenInv'
    <2>1. \A d \in Conns : spc'[d] \in Fresh => cand'[d] = NoToken
      BY <1>3 DEF Tokens, TokenInv, Fresh
    <2>2. \A d \in Conns : spc'[d] = "opening" => live'[d] # NoToken
      BY <1>2, <1>3 DEF Tokens, TokenInv
    <2>3. \A d \in Conns : cand'[d] > minted => BoundNext(cand'[d], sess'[d])
      BY <1>2, <1>3, <1>5, TokensMinted DEF Tokens
    <2>4. \A r \in Conns : ~(live'[r] > minted)
      BY <1>2, TokensMinted DEF Tokens
    <2> QED
      BY <2>1, <2>2, <2>3, <2>4, BindingsKept, TokenInvNext DEF Tokens
  <1>7. SentInv'
    BY <1>2, <1>3 DEF Tokens, SentInv, Serving, Writing
  <1> QED
    BY <1>5, <1>6, <1>7 DEF Tokens

(* The committed token was a candidate for the same session.               *)
LEMMA CommitTokens ==
  ASSUME Control, Tokens, TokenMoves, NEW c \in Conns, CommitToken(c)
  PROVE  Tokens'
  <1>1. live \in [Conns -> Nat] /\ cand \in [Conns -> Nat]
    BY DEF Control, TypeOK
  <1>2. /\ spc[c] = "committing" /\ spc' = [spc EXCEPT ![c] = "replaying"]
        /\ live' = [live EXCEPT ![sess[c]] = cand[c]]
        /\ UNCHANGED <<state, cand, sess, minted, offered>>
    BY DEF CommitToken, Goto, tokenVars
  <1>3. \A d \in Conns : /\ spc'[d] = IF d = c THEN "replaying" ELSE spc[d]
                         /\ live'[d] = IF d = sess[c] THEN cand[c] ELSE live[d]
    BY <1>1, <1>2, OwnTypes DEF Control
  <1>4. cand[c] \in offered
    BY <1>2 DEF Tokens, SentInv
  <1>5. TokenInv'
    <2>1. \A d \in Conns : spc'[d] \in Fresh => cand'[d] = NoToken
      BY <1>2, <1>3 DEF Tokens, TokenInv, Fresh
    <2>2. \A d \in Conns : spc'[d] = "opening" => live'[d] # NoToken
      <3> SUFFICES ASSUME NEW d \in Conns, spc'[d] = "opening" PROVE live'[d] # NoToken
        OBVIOUS
      <3>1. spc[d] = "opening" /\ d # c
        BY <1>3
      <3>2. d # sess[c]
        BY <1>2, <3>1 DEF Control, OwnInv, Serving, Writing
      <3> QED
        BY <1>3, <3>1, <3>2 DEF Tokens, TokenInv
    <2>3. \A d \in Conns : ~(live'[d] > minted) /\ ~(cand'[d] > minted)
      BY <1>2, <1>3, TokensMinted DEF Tokens
    <2> QED
      BY <2>1, <2>2, <2>3, BindingsKept, TokenInvNext DEF Tokens
  <1>6. SentInv'
    <2>1. \A s \in Conns : live[s] \in offered => live'[s] \in offered'
      BY <1>2, <1>3, <1>4
    <2>2. \A d \in Conns : spc'[d] \in Settled => spc[d] \in Settled /\ sess[d] \in Conns
      BY <1>2, <1>3 DEF Settled, Serving, Writing, Control, OwnInv
    <2>3. \A d \in Conns : spc'[d] = "committing" => spc[d] = "committing"
      BY <1>3
    <2> QED
      BY <1>2, <2>1, <2>2, <2>3 DEF Tokens, SentInv, Settled
  <1> QED
    BY <1>5, <1>6 DEF Tokens

(* SessionOpened sends the session's token.                                *)
LEMMA SendOpenedTokens ==
  ASSUME Control, Tokens, TokenMoves, NEW c \in Conns, SendOpened(c)
  PROVE  Tokens'
  <1>1. /\ spc[c] = "opening" /\ spc' = [spc EXCEPT ![c] = "pump"]
        /\ offered' = offered \cup {live[c]} /\ UNCHANGED <<state, live, sess, cand>>
    BY DEF SendOpened, Goto, slotVars
  <1>2. sess[c] = c
    BY <1>1 DEF Control, OwnInv
  <1>3. \A d \in Conns : spc'[d] = IF d = c THEN "pump" ELSE spc[d]
    BY <1>1, OwnTypes DEF Control
  <1>4. \A s \in Conns : state'[s] = "Orphaned" => live[s] \in offered
    BY <1>1 DEF Tokens, SentInv
  <1>5. \A d \in Conns : /\ spc'[d] \in Fresh => spc'[d] = spc[d]
                         /\ spc'[d] \in Settled => spc[d] \in Settled \/ live[sess[d]] \in offered'
                         /\ spc'[d] = "committing" => spc[d] = "committing"
    BY <1>1, <1>2, <1>3 DEF Fresh
  <1> QED
    BY <1>1, <1>4, <1>5, TokensKept

(* The steps of a handler that touch neither tokens nor sessions.          *)
LEMMA ServingTokens ==
  ASSUME Control, Tokens, TokenMoves, NEW c \in Conns,
         \/ ReplayChunk(c) \/ Rebind(c) \/ PumpOutput(c) \/ PumpAck(c) \/ PumpChannelOpen(c)
         \/ PumpFails(c) \/ PtyRead(c)
  PROVE  Tokens'
  <1>1. UNCHANGED <<live, sess, cand, offered>>
    BY DEF ReplayChunk, Rebind, PumpOutput, PumpAck, PumpChannelOpen, PumpFails, PtyRead,
           slotVars, serverVars, tokenVars
  <1>2. \/ spc' = spc
        \/ spc[c] \in Settled /\ \E x \in {"pump", "stopping"} : spc' = [spc EXCEPT ![c] = x]
    BY DEF ReplayChunk, Rebind, PumpOutput, PumpAck, PumpChannelOpen, PumpFails, PtyRead,
           serverVars, Goto, Settled, Serving, Writing
  <1>3. \A d \in Conns : spc'[d] = spc[d] \/ (spc[d] \in Settled /\ spc'[d] \in {"pump", "stopping"})
    BY <1>2, OwnTypes DEF Control
  <1>4. state' = state \/ state' = [state EXCEPT ![sess[c]] = "Active"]
    BY DEF ReplayChunk, Rebind, PumpOutput, PumpAck, PumpChannelOpen, PumpFails, PtyRead,
           slotVars
  <1>5. \A s \in Conns : state'[s] = "Orphaned" => live[s] \in offered
    BY <1>4, OwnTypes DEF Control, Tokens, SentInv
  <1>6. \A d \in Conns : /\ spc'[d] \in Fresh => spc'[d] = spc[d]
                         /\ spc'[d] \in Settled => spc[d] \in Settled
                         /\ spc'[d] = "committing" => spc[d] = "committing"
    BY <1>3 DEF Fresh
  <1> QED
    BY <1>1, <1>5, <1>6, TokensKept

(* Steps of the client and of the world leave the server's tokens alone.   *)
LEMMA OthersTokens ==
  ASSUME Control, Tokens, TokenMoves, UNCHANGED serverVars, live' = live,
         \A s \in Conns : state'[s] = "Orphaned" => state[s] = "Orphaned"
  PROVE  Tokens'
  <1>1. UNCHANGED <<spc, sess, cand, offered>>
    BY DEF serverVars, tokenVars
  <1>2. \A s \in Conns : state'[s] = "Orphaned" => live[s] \in offered
    BY DEF Tokens, SentInv
  <1> QED
    BY <1>1, <1>2, TokensKept

(* Every step preserves the token invariants.                              *)
LEMMA NextTokens == Control /\ Tokens /\ [Next]_vars => Tokens'
  <1> SUFFICES ASSUME Control, Tokens, [Next]_vars PROVE Tokens'
    OBVIOUS
  <1>1. TokenMoves
    BY EveryStepMovesTokens DEF Tokens
  <1>2. CASE UNCHANGED vars
    BY <1>1, <1>2, OthersTokens DEF vars, slotVars
  <1>3. CASE ClientStep \/ AckTick \/ Connect \/ UserQuits
    <2>1. UNCHANGED <<serverVars, slotVars>>
      BY <1>3 DEF ClientStep, AckTick, Connect, UserQuits, RecvOpened, RecvReattachOk,
                  RecvReattachErr, SkipChunk, ChannelSettled, RecvChunk, RecvClose, ClientDrops
    <2> QED
      BY <1>1, <2>1, OthersTokens DEF slotVars
  <1>4. ASSUME NEW c \in Conns, ConnectionLost(c) \/ OrphanEnds(c) PROVE Tokens'
    <2>1. UNCHANGED serverVars /\ live' = live
      BY <1>4 DEF ConnectionLost, OrphanEnds, slotVars
    <2>2. state' = state \/ state' = [state EXCEPT ![c] = "Gone"]
      BY <1>4 DEF ConnectionLost, OrphanEnds, slotVars
    <2>3. \A s \in Conns : state'[s] = "Orphaned" => state[s] = "Orphaned"
      BY <2>2, OwnTypes DEF Control
    <2> QED
      BY <1>1, <2>1, <2>3, OthersTokens
  <1>5. ASSUME NEW c \in Conns,
               OpenedFails(c) \/ RejectReattach(c) \/ ReOrphan(c) \/ Orphan(c) \/ ShellExits(c)
        PROVE  Tokens'
    <2>1. HandlerReturns(c) /\ UNCHANGED <<live, sess, offered>>
      BY <1>5 DEF OpenedFails, RejectReattach, ReOrphan, Orphan, ShellExits, slotVars, tokenVars
    <2>2. \/ state' = state \/ state' = [state EXCEPT ![sess[c]] = "Gone"]
          \/ (spc[c] \in Settled /\ state' = [state EXCEPT ![sess[c]] = "Orphaned"])
      BY <1>5 DEF OpenedFails, RejectReattach, ReOrphan, Orphan, ShellExits, slotVars, Settled,
                  Serving, Writing, Control, OwnInv
    <2> QED
      BY <1>1, <2>1, <2>2, EndsTokens
  <1>6. ASSUME NEW c \in Conns,
               \/ OpenSession(c) \/ SendOpened(c) \/ AcceptReattach(c) \/ SendReattachOk(c)
               \/ CommitToken(c) \/ ReplayChunk(c) \/ Rebind(c) \/ PumpOutput(c) \/ PumpAck(c)
               \/ PumpChannelOpen(c) \/ PumpFails(c) \/ PtyRead(c)
        PROVE  Tokens'
    BY <1>1, <1>6, OpenSessionTokens, SendOpenedTokens, AcceptReattachTokens,
       SendReattachOkTokens, CommitTokens, ServingTokens
  <1> QED
    BY <1>2, <1>3, <1>4, <1>5, <1>6 DEF Next, HandlerStep

(* In the initial state nobody has a token.                                *)
LEMMA InitTokens == Init => Tokens
BY DEF Init, Tokens, TokenInv, SentInv, Serving, Writing

(* W1, in every behaviour: the token that reattaches an orphan is one the  *)
(* server wrote to a connection (SendOpened, SendReattachOk before          *)
(* CommitToken), whatever was lost or failed in between.                   *)
THEOREM SentTokens == Spec => []OrphanTokenWasSent
  <1>1. Init => Control /\ Tokens
    BY InitControl, InitTokens
  <1>2. Control /\ Tokens /\ [Next]_vars => (Control /\ Tokens)'
    BY NextControl, NextTokens
  <1>3. Tokens => OrphanTokenWasSent
    BY DEF Tokens, SentInv, OrphanTokenWasSent
  <1> QED
    BY <1>1, <1>2, <1>3, PTL DEF Spec
-----------------------------------------------------------------------------
(* The numbers on the wire.                                                *)

(* What a number on the wire is.                                           *)
LEMMA WireTypes ==
  ASSUME TypeOK, NEW c \in Conns
  PROVE  /\ \A i \in Data(c) : i \in Nat /\ i \in DOMAIN s2c[c] /\ Number(c, i) \in Nat
         /\ \A i \in Oks(c) : i \in Nat /\ i \in DOMAIN s2c[c] /\ Number(c, i) \in Nat
  <1>1. s2c[c] \in Seq(Frames)
    BY DEF TypeOK
  <1>2. \A i \in DOMAIN s2c[c] : i \in Nat /\ s2c[c][i] \in Frames
    BY <1>1
  <1> QED
    BY <1>2, Fields DEF Data, Oks, Sent, Number

(* What a counter is.                                                      *)
LEMMA NumberTypes ==
  ASSUME TypeOK
  PROVE  /\ \A s \in Conns : next[s] \in Nat /\ got[s] \in Nat
         /\ \A c \in Conns : cursor[c] \in Nat /\ (sess[c] \in Conns => Position(c) \in Nat)
         /\ highest_applied \in Nat
BY DEF TypeOK, Position

(* The chunks and the announcements on the wire of c stay as they are.     *)
SameNumbers(c) ==
  /\ Data(c)' = Data(c) /\ Oks(c)' = Oks(c)
  /\ \A i \in Data(c) \cup Oks(c) : s2c'[c][i] = s2c[c][i]

(* A wire that stays carries the same numbers.                             *)
LEMMA SameWire ==
  ASSUME NEW c \in Conns, s2c'[c] = s2c[c]
  PROVE  SameNumbers(c)
BY DEF SameNumbers, Data, Oks, Sent

(* So they do when another frame is written.                               *)
LEMMA NoiseWritten ==
  ASSUME TypeOK, NEW c \in Conns, NEW m \in Frames, ServerWrites(c, m),
         m.type \notin {"PtyData", "ReattachOk"}
  PROVE  SameNumbers(c)
  <1>1. CASE c \notin up
    BY <1>1, ServerWritten, SameWire
  <1>2. CASE c \in up
    BY <1>2, ServerWritten DEF SameNumbers, Data, Oks, Sent
  <1> QED
    BY <1>1, <1>2

(* What the next state inherits on a connection: numbers only grow.        *)
Grows(c) ==
  /\ sess'[c] = sess[c] /\ up' \subseteq up
  /\ \A s \in Conns : next[s] <= next'[s] /\ got[s] <= got'[s]
  /\ spc'[c] \in Writing => spc[c] \in Writing /\ sess[c] \in Conns /\ Position(c) <= Position(c)'

(* A number that was covered stays covered.                                *)
LEMMA CoveredKept ==
  ASSUME TypeOK, TypeOK', NEW c \in Conns, sess[c] \in Conns, Grows(c), SameNumbers(c),
         NEW n \in Nat, Covered(c, n)
  PROVE  Covered(c, n)'
  <1>1. CASE n <= got[sess[c]]
    <2>1. got[sess[c]] \in Nat /\ got'[sess[c]] \in Nat /\ got[sess[c]] <= got'[sess[c]]
      BY NumberTypes DEF TypeOK, Grows
    <2> QED
      BY <1>1, <2>1 DEF Covered, Grows
  <1>2. CASE \E i \in Data(c) : Number(c, i) + 1 = n
    BY <1>2 DEF Covered, SameNumbers, Number
  <1>3. CASE \E i \in Oks(c) : s2c[c][i].truncated /\ n <= Number(c, i)
    BY <1>3 DEF Covered, SameNumbers, Number
  <1> QED
    BY <1>1, <1>2, <1>3 DEF Covered

(* A connection on which nothing is written or read.                       *)
LEMMA WireStays ==
  ASSUME TypeOK, TypeOK', NEW c \in Conns, Wire(c), Grows(c), SameNumbers(c),
         c \in up' /\ spc'[c] \in Writing => Position(c)' = Position(c)
  PROVE  Wire(c)' /\ (Behind(c) /\ highest_applied' = highest_applied => Behind(c)')
  <1>1. /\ \A s \in Conns : /\ next[s] \in Nat /\ next'[s] \in Nat /\ next[s] <= next'[s]
                            /\ got[s] \in Nat /\ got'[s] \in Nat /\ got[s] <= got'[s]
        /\ sess'[c] = sess[c] /\ highest_applied \in Nat
    BY NumberTypes DEF TypeOK, Grows
  <1>2. /\ \A i \in Data(c) : Number(c, i) \in Nat /\ Number(c, i)' = Number(c, i)
        /\ \A i \in Oks(c) : /\ Number(c, i) \in Nat /\ Number(c, i)' = Number(c, i)
                             /\ s2c'[c][i].truncated = s2c[c][i].truncated
        /\ Data(c)' = Data(c) /\ Oks(c)' = Oks(c)
        /\ \A i \in Data(c) : s2c'[c][i].sess = s2c[c][i].sess
    BY WireTypes DEF SameNumbers, Number
  <1>3. spc'[c] \in Writing => /\ spc[c] \in Writing /\ sess[c] \in Conns
                               /\ Position(c) \in Nat /\ Position(c)' \in Nat
                               /\ Position(c) <= Position(c)'
    <2>1. ASSUME spc'[c] \in Writing PROVE Position(c)' \in Nat
      <3>1. sess'[c] \in Conns
        BY <2>1 DEF Grows
      <3> QED
        BY <3>1 DEF TypeOK, Position
    <2> QED
      BY <2>1, NumberTypes DEF Grows
  <1>4. OkNumbers(c)'
    <2> SUFFICES ASSUME NEW i \in Oks(c)
                 PROVE  /\ sess'[c] \in Conns /\ Number(c, i) <= next'[sess'[c]]
                        /\ s2c'[c][i].truncated \/ Number(c, i) <= got'[sess'[c]]
                        /\ spc'[c] \in Writing => Number(c, i) <= Position(c)'
                        /\ \A j \in Data(c) : i < j /\ Number(c, i) <= Number(c, j)
      BY <1>2 DEF OkNumbers
    <2>1. /\ sess[c] \in Conns /\ Number(c, i) <= next[sess[c]]
          /\ s2c[c][i].truncated \/ Number(c, i) <= got[sess[c]]
          /\ spc[c] \in Writing => Number(c, i) <= Position(c)
          /\ \A j \in Data(c) : i < j /\ Number(c, i) <= Number(c, j)
      BY DEF Wire, OkNumbers
    <2>2. Number(c, i) \in Nat /\ s2c'[c][i].truncated = s2c[c][i].truncated
      BY <1>2
    <2> QED
      BY <1>1, <1>3, <2>1, <2>2
  <1>5. DataNumbers(c)'
    <2> SUFFICES ASSUME NEW i \in Data(c)
                 PROVE  /\ sess'[c] \in Conns /\ s2c'[c][i].sess = sess'[c]
                        /\ Number(c, i) < next'[sess'[c]]
                        /\ spc'[c] \in Writing => Number(c, i) < Position(c)'
                        /\ Covered(c, Number(c, i))'
                        /\ \A j \in Data(c) : i < j => Number(c, i) < Number(c, j)
      BY <1>2 DEF DataNumbers
    <2>1. /\ sess[c] \in Conns /\ s2c[c][i].sess = sess[c]
          /\ Number(c, i) < next[sess[c]]
          /\ spc[c] \in Writing => Number(c, i) < Position(c)
          /\ Covered(c, Number(c, i))
          /\ \A j \in Data(c) : i < j => Number(c, i) < Number(c, j)
      BY DEF Wire, DataNumbers
    <2>2. PICK n \in Nat : n = Number(c, i)
      BY <1>2
    <2>3. Covered(c, n)'
      BY <2>1, <2>2, CoveredKept
    <2>4. Covered(c, Number(c, i))'
      BY <1>2, <2>2, <2>3 DEF Covered
    <2> QED
      BY <1>1, <1>2, <1>3, <2>1, <2>4
  <1>6. c \in up' /\ spc'[c] \in Writing => Covered(c, Position(c))'
    <2> SUFFICES ASSUME c \in up', spc'[c] \in Writing PROVE Covered(c, Position(c))'
      OBVIOUS
    <2>1. PICK n \in Nat : n = Position(c) /\ n = Position(c)'
      BY <1>3
    <2>2. Covered(c, n)
      BY <1>3, <2>1 DEF Wire, Grows
    <2>3. Covered(c, n)'
      BY <1>3, <2>2, CoveredKept
    <2> QED
      BY <2>1, <2>3 DEF Covered
  <1>7. Behind(c) /\ highest_applied' = highest_applied => Behind(c)'
    BY <1>1, <1>2, <1>3 DEF Behind
  <1> QED
    BY <1>4, <1>5, <1>6, <1>7 DEF Wire

(* A connection that carries nothing.                                      *)
LEMMA WireEmpty ==
  ASSUME NEW c \in Conns, s2c'[c] = << >>, c \notin up' \/ spc'[c] \notin Writing
  PROVE  Wire(c)'
BY DEF Wire, OkNumbers, DataNumbers, Data, Oks, Sent

(* A handler writes its next chunk.                                        *)
LEMMA WireGains ==
  ASSUME TypeOK, TypeOK', NEW c \in Conns, Wire(c), Grows(c),
         spc[c] \in Writing, spc'[c] \in Writing, sess[c] \in Conns,
         ServerWrites(c, PtyData(sess[c], Position(c))),
         Position(c)' = Position(c) + 1, Position(c) < next'[sess[c]]
  PROVE  Wire(c)' /\ (Behind(c) /\ highest_applied' = highest_applied => Behind(c)')
  <1>0. PICK p \in Nat : p = Position(c)
    BY NumberTypes
  <1>1. p \in Nat /\ sess'[c] = sess[c] /\ up' \subseteq up
    BY DEF Grows
  <1>2. CASE c \notin up
    BY <1>0, <1>1, <1>2, Messages, ServerWritten, SameWire, WireStays
  <1>3. CASE c \in up
    <2>0. s2c[c] \in Seq(Frames)
      BY DEF TypeOK
    <2>2. PICK k \in Nat : k = Len(s2c[c]) + 1 /\ \A i \in DOMAIN s2c[c] : i \in Nat /\ i < k
      BY <2>0
    <2>1. /\ DOMAIN s2c'[c] = DOMAIN s2c[c] \cup {k} /\ s2c'[c][k] = PtyData(sess[c], p)
          /\ \A i \in DOMAIN s2c[c] : s2c'[c][i] = s2c[c][i]
      BY <1>0, <1>3, <2>2, Messages, ServerWritten
    <2>3. /\ Data(c)' = Data(c) \cup {k} /\ Oks(c)' = Oks(c)
          /\ Number(c, k)' = p /\ s2c'[c][k].sess = sess[c]
      BY <2>1, <2>2 DEF Data, Oks, Sent, Number, PtyData
    <2>4. /\ \A i \in Data(c) : /\ Number(c, i)' = Number(c, i) /\ i \in Nat /\ i < k
                                /\ s2c'[c][i].sess = s2c[c][i].sess /\ Number(c, i) \in Nat
          /\ \A i \in Oks(c) : /\ Number(c, i)' = Number(c, i) /\ i \in Nat /\ i < k
                               /\ s2c'[c][i].truncated = s2c[c][i].truncated
                               /\ Number(c, i) \in Nat
      BY <2>1, <2>2, WireTypes DEF Data, Oks, Sent, Number
    <2>5. ASSUME NEW n \in Nat, Covered(c, n) PROVE Covered(c, n)'
      <3>1. CASE n <= got[sess[c]]
        <4>1. got[sess[c]] \in Nat /\ got'[sess[c]] \in Nat /\ got[sess[c]] <= got'[sess[c]]
          BY NumberTypes DEF TypeOK, Grows
        <4> QED
          BY <1>1, <3>1, <4>1 DEF Covered
      <3>2. CASE \E i \in Data(c) : Number(c, i) + 1 = n
        BY <2>3, <2>4, <3>2 DEF Covered
      <3>3. CASE \E i \in Oks(c) : s2c[c][i].truncated /\ n <= Number(c, i)
        BY <2>3, <2>4, <3>3 DEF Covered
      <3> QED
        BY <2>5, <3>1, <3>2, <3>3 DEF Covered
    <2>6. /\ \A s \in Conns : /\ next[s] \in Nat /\ next'[s] \in Nat /\ next[s] <= next'[s]
                              /\ got[s] \in Nat /\ got'[s] \in Nat /\ got[s] <= got'[s]
          /\ highest_applied \in Nat /\ Position(c)' = p + 1 /\ p < next'[sess[c]]
      BY <1>0, NumberTypes DEF TypeOK, Grows
    <2>7. OkNumbers(c)'
      <3> SUFFICES ASSUME NEW i \in Oks(c)
                   PROVE  /\ Number(c, i) <= next'[sess[c]]
                          /\ s2c[c][i].truncated \/ Number(c, i) <= got'[sess[c]]
                          /\ Number(c, i) <= p + 1
                          /\ \A j \in Data(c) : i < j /\ Number(c, i) <= Number(c, j)
                          /\ i < k /\ Number(c, i) <= p
        BY <1>1, <2>3, <2>4, <2>6 DEF OkNumbers
      <3>1. /\ Number(c, i) <= next[sess[c]]
            /\ s2c[c][i].truncated \/ Number(c, i) <= got[sess[c]]
            /\ Number(c, i) <= p
            /\ \A j \in Data(c) : i < j /\ Number(c, i) <= Number(c, j)
        BY <1>0 DEF Wire, OkNumbers
      <3> QED
        BY <1>1, <2>4, <2>6, <3>1
    <2>8. DataNumbers(c)'
      <3>1. ASSUME NEW i \in Data(c)
            PROVE  /\ s2c'[c][i].sess = sess[c] /\ Number(c, i) < next'[sess[c]]
                   /\ Number(c, i) < p /\ Covered(c, Number(c, i))'
                   /\ \A j \in Data(c) : i < j => Number(c, i) < Number(c, j)
        <4>1. /\ s2c[c][i].sess = sess[c] /\ Number(c, i) < next[sess[c]]
              /\ Number(c, i) < p /\ Covered(c, Number(c, i))
              /\ \A j \in Data(c) : i < j => Number(c, i) < Number(c, j)
          BY <1>0 DEF Wire, DataNumbers
        <4>2. PICK n \in Nat : n = Number(c, i)
          BY <2>4
        <4>3. Covered(c, n)'
          BY <2>5, <4>1, <4>2
        <4>4. Covered(c, Number(c, i))'
          BY <2>4, <4>2, <4>3 DEF Covered
        <4> QED
          BY <2>4, <2>6, <4>1, <4>4
      <3>2. Covered(c, Number(c, k))'
        <4>1. Covered(c, p)
          BY <1>0, <1>3 DEF Wire
        <4>2. PICK n \in Nat : n = p
          BY <1>1
        <4>3. Covered(c, n)'
          BY <2>5, <4>1, <4>2
        <4> QED
          BY <2>3, <4>2, <4>3 DEF Covered
      <3>3. \A i \in Data(c) : ~(k < i)
        BY <2>2, <2>4
      <3>4. ASSUME NEW i \in Data(c)'
            PROVE  /\ sess'[c] \in Conns /\ s2c'[c][i].sess = sess'[c]
                   /\ Number(c, i)' < next'[sess'[c]] /\ Number(c, i)' < Position(c)'
                   /\ Covered(c, Number(c, i))'
                   /\ \A j \in Data(c)' : i < j => Number(c, i)' < Number(c, j)'
        <4>1. CASE i \in Data(c)
          BY <1>1, <2>3, <2>4, <2>6, <3>1, <4>1
        <4>2. CASE i = k
          <5>1. Covered(c, Number(c, i))'
            BY <3>2, <4>2
          <5>2. ~(k < k)
            BY <2>2
          <5> QED
            BY <1>1, <2>3, <2>4, <2>6, <3>3, <4>2, <5>1, <5>2
        <4> QED
          BY <2>3, <4>1, <4>2
      <3> QED
        BY <3>4 DEF DataNumbers
    <2>9. Covered(c, Position(c))'
      BY <2>3, <2>6 DEF Covered
    <2>10. Behind(c) /\ highest_applied' = highest_applied => Behind(c)'
      <3> SUFFICES ASSUME Behind(c), highest_applied' = highest_applied PROVE Behind(c)'
        OBVIOUS
      <3>1. highest_applied <= p /\ \A i \in Data(c) : highest_applied <= Number(c, i)
        BY <1>0 DEF Behind
      <3>2. \A i \in Data(c)' : highest_applied <= Number(c, i)'
        BY <2>3, <2>4, <3>1
      <3>3. highest_applied <= p + 1
        BY <1>1, <2>6, <3>1
      <3> QED
        BY <2>6, <3>2, <3>3 DEF Behind
    <2> QED
      BY <2>7, <2>8, <2>9, <2>10 DEF Wire
  <1> QED
    BY <1>2, <1>3

(* The client reads a frame: the others move up.                           *)
LEMMA PoppedNumbers ==
  ASSUME TypeOK, NEW c \in Conns, c = conn, NEW kind, ClientReads(kind)
  PROVE  /\ \A i \in Data(c)' : /\ i + 1 \in Data(c) /\ Number(c, i)' = Number(c, i + 1)
                                /\ s2c'[c][i].sess = s2c[c][i + 1].sess
         /\ \A i \in Oks(c)' : /\ i + 1 \in Oks(c) /\ Number(c, i)' = Number(c, i + 1)
                               /\ s2c'[c][i].truncated = s2c[c][i + 1].truncated
         /\ \A i \in Data(c) : i # 1 => i - 1 \in Data(c)' /\ Number(c, i - 1)' = Number(c, i)
         /\ \A i \in Oks(c) : i # 1 => /\ i - 1 \in Oks(c)' /\ Number(c, i - 1)' = Number(c, i)
                                       /\ s2c'[c][i - 1].truncated = s2c[c][i].truncated
         /\ \A i \in Data(c)' \cup Oks(c)' : i \in Nat
         /\ 1 \in DOMAIN s2c[c] /\ s2c[c][1] = Head(s2c[c]) /\ s2c[c][1].type = kind
  <1>1. /\ \A i \in DOMAIN s2c'[c] : i + 1 \in DOMAIN s2c[c] /\ s2c'[c][i] = s2c[c][i + 1]
        /\ \A i \in DOMAIN s2c[c] : i # 1 =>
              i - 1 \in DOMAIN s2c'[c] /\ s2c'[c][i - 1] = s2c[c][i]
        /\ Head(s2c[c]) = s2c[c][1] /\ 1 \in DOMAIN s2c[c] /\ Head(s2c[c]).type = kind
        /\ s2c'[c] \in Seq(Frames)
    BY ClientRead
  <1>2. \A i \in DOMAIN s2c'[c] : i \in Nat
    BY <1>1
  <1> QED
    BY <1>1, <1>2 DEF Data, Oks, Sent, Number

(* What covered a number still does, if the client took note of the frame. *)
TakesNote(c) ==
  /\ s2c[c][1].type = "PtyData" => Number(c, 1) + 1 <= got'[sess[c]]
  /\ s2c[c][1].type = "ReattachOk" /\ s2c[c][1].truncated => Number(c, 1) <= got'[sess[c]]

(* A frame the client took note of is no loss.                             *)
LEMMA CoveredPopped ==
  ASSUME TypeOK, TypeOK', NEW c \in Conns, c = conn, NEW kind, ClientReads(kind),
         sess[c] \in Conns, Grows(c), TakesNote(c), NEW n \in Nat, Covered(c, n)
  PROVE  Covered(c, n)'
  <1>1. got[sess[c]] \in Nat /\ got'[sess[c]] \in Nat /\ got[sess[c]] <= got'[sess[c]]
    BY NumberTypes DEF TypeOK, Grows
  <1>2. CASE n <= got[sess[c]]
    BY <1>1, <1>2 DEF Covered, Grows
  <1>3. ASSUME NEW i \in Data(c), Number(c, i) + 1 = n PROVE Covered(c, n)'
    <2>1. CASE i = 1
      <3>1. n <= got'[sess[c]]
        BY <1>3, <2>1 DEF TakesNote, Data, Sent
      <3> QED
        BY <3>1 DEF Covered, Grows
    <2>2. CASE i # 1
      BY <1>3, <2>2, PoppedNumbers DEF Covered
    <2> QED
      BY <2>1, <2>2
  <1>4. ASSUME NEW i \in Oks(c), s2c[c][i].truncated, n <= Number(c, i) PROVE Covered(c, n)'
    <2>1. CASE i = 1
      <3>1. Number(c, 1) <= got'[sess[c]] /\ Number(c, 1) \in Nat
        BY <1>4, <2>1, WireTypes DEF TakesNote, Oks, Sent
      <3>2. n <= got'[sess[c]]
        BY <1>1, <1>4, <2>1, <3>1
      <3> QED
        BY <3>2 DEF Covered, Grows
    <2>2. CASE i # 1
      BY <1>4, <2>2, PoppedNumbers DEF Covered
    <2> QED
      BY <2>1, <2>2
  <1> QED
    BY <1>2, <1>3, <1>4 DEF Covered

(* So reading keeps the wire in order.                                     *)
LEMMA WirePopped ==
  ASSUME TypeOK, TypeOK', NEW c \in Conns, c = conn, NEW kind, ClientReads(kind), Wire(c),
         UNCHANGED <<sess, spc, cursor, next, up>>, spc[c] \in Writing => sess[c] \in Conns,
         \A s \in Conns : got[s] <= got'[s], TakesNote(c)
  PROVE  Wire(c)'
  <1>1. /\ \A s \in Conns : /\ next[s] \in Nat /\ got[s] \in Nat /\ got'[s] \in Nat
                            /\ got[s] <= got'[s]
        /\ sess'[c] = sess[c] /\ Position(c)' = Position(c) /\ spc'[c] = spc[c]
    BY NumberTypes DEF TypeOK, Position
  <1>2. Grows(c)
    <2>1. spc[c] \in Writing => Position(c) \in Nat
      BY NumberTypes
    <2> QED
      BY <1>1, <2>1 DEF Grows
  <1>3. ASSUME NEW n \in Nat, sess[c] \in Conns, Covered(c, n) PROVE Covered(c, n)'
    BY <1>2, <1>3, CoveredPopped
  <1>4. OkNumbers(c)'
    <2> SUFFICES ASSUME NEW i \in Oks(c)'
                 PROVE  /\ sess[c] \in Conns /\ Number(c, i)' <= next[sess[c]]
                        /\ s2c'[c][i].truncated \/ Number(c, i)' <= got'[sess[c]]
                        /\ spc[c] \in Writing => Number(c, i)' <= Position(c)
                        /\ \A j \in Data(c)' : i < j /\ Number(c, i)' <= Number(c, j)'
      BY <1>1 DEF OkNumbers
    <2>1. /\ i + 1 \in Oks(c) /\ Number(c, i)' = Number(c, i + 1)
          /\ s2c'[c][i].truncated = s2c[c][i + 1].truncated /\ Number(c, i + 1) \in Nat
      BY PoppedNumbers, WireTypes
    <2>2. /\ sess[c] \in Conns /\ Number(c, i + 1) <= next[sess[c]]
          /\ s2c[c][i + 1].truncated \/ Number(c, i + 1) <= got[sess[c]]
          /\ spc[c] \in Writing => Number(c, i + 1) <= Position(c)
          /\ \A j \in Data(c) : i + 1 < j /\ Number(c, i + 1) <= Number(c, j)
      BY <2>1 DEF Wire, OkNumbers
    <2>3. \A j \in Data(c)' : i < j /\ Number(c, i)' <= Number(c, j)'
      <3> TAKE j \in Data(c)'
      <3>1. /\ j + 1 \in Data(c) /\ Number(c, j)' = Number(c, j + 1) /\ i \in Nat /\ j \in Nat
        BY PoppedNumbers
      <3>2. i + 1 < j + 1 /\ Number(c, i + 1) <= Number(c, j + 1)
        BY <2>2, <3>1
      <3> QED
        BY <2>1, <3>1, <3>2
    <2> QED
      BY <1>1, <2>1, <2>2, <2>3
  <1>5. DataNumbers(c)'
    <2> SUFFICES ASSUME NEW i \in Data(c)'
                 PROVE  /\ sess[c] \in Conns /\ s2c'[c][i].sess = sess[c]
                        /\ Number(c, i)' < next[sess[c]]
                        /\ spc[c] \in Writing => Number(c, i)' < Position(c)
                        /\ Covered(c, Number(c, i))'
                        /\ \A j \in Data(c)' : i < j => Number(c, i)' < Number(c, j)'
      BY <1>1 DEF DataNumbers
    <2>1. /\ i + 1 \in Data(c) /\ Number(c, i)' = Number(c, i + 1)
          /\ s2c'[c][i].sess = s2c[c][i + 1].sess /\ Number(c, i + 1) \in Nat
      BY PoppedNumbers, WireTypes
    <2>2. /\ sess[c] \in Conns /\ s2c[c][i + 1].sess = sess[c]
          /\ Number(c, i + 1) < next[sess[c]]
          /\ spc[c] \in Writing => Number(c, i + 1) < Position(c)
          /\ Covered(c, Number(c, i + 1))
          /\ \A j \in Data(c) : i + 1 < j => Number(c, i + 1) < Number(c, j)
      BY <2>1 DEF Wire, DataNumbers
    <2>3. \A j \in Data(c)' : i < j => Number(c, i)' < Number(c, j)'
      <3> SUFFICES ASSUME NEW j \in Data(c)', i < j PROVE Number(c, i)' < Number(c, j)'
        OBVIOUS
      <3>1. /\ j + 1 \in Data(c) /\ Number(c, j)' = Number(c, j + 1) /\ i \in Nat /\ j \in Nat
        BY PoppedNumbers
      <3>2. i + 1 < j + 1
        BY <3>1
      <3> QED
        BY <2>1, <2>2, <3>1, <3>2
    <2>4. PICK n \in Nat : n = Number(c, i + 1)
      BY <2>1
    <2>5. Covered(c, n)'
      BY <1>3, <2>2, <2>4
    <2>6. Covered(c, Number(c, i))'
      BY <2>1, <2>4, <2>5 DEF Covered
    <2> QED
      BY <1>1, <2>1, <2>2, <2>3, <2>6
  <1>6. c \in up' /\ spc'[c] \in Writing => Covered(c, Position(c))'
    <2> SUFFICES ASSUME c \in up, spc[c] \in Writing PROVE Covered(c, Position(c))'
      BY <1>1
    <2>1. PICK n \in Nat : n = Position(c) /\ n = Position(c)'
      BY <1>1, NumberTypes
    <2>2. Covered(c, n)'
      BY <1>3, <2>1 DEF Wire
    <2> QED
      BY <2>1, <2>2 DEF Covered
  <1> QED
    BY <1>4, <1>5, <1>6 DEF Wire
-----------------------------------------------------------------------------
(* The counters in the client, and in what it has sent and will read.      *)

(* A handler never leaves its session for another.                         *)
SessKept == \A c \in Conns : sess[c] \in Conns => sess'[c] = sess[c]
GotGrows == \A s \in Conns : got[s] \in Nat /\ got'[s] \in Nat /\ got[s] <= got'[s]

(* What the next state asks of a frame the client, or the server, wrote.   *)
ReportOk(c, m) ==
  /\ m.type = "Ack" => sess'[c] \in Conns /\ m.seq <= got'[sess'[c]]
  /\ m.type = "Reattach" => \E s \in Conns : BoundNext(m.token, s) /\ m.seq <= got'[s]

AnswerOk(c, m) ==
  m.type \in {"SessionOpened", "ReattachOk"} => sess'[c] \in Conns /\ BoundNext(m.token, sess'[c])

(* Frames that were on the wire keep their meaning.                        *)
LEMMA ReportKept ==
  ASSUME Control, TokenMoves, ReportInv, SessKept, GotGrows,
         \A c \in Conns : \A i \in DOMAIN c2s'[c] :
           \/ \E j \in DOMAIN c2s[c] : c2s'[c][i] = c2s[c][j]
           \/ ReportOk(c, c2s'[c][i])
  PROVE  ReportInv'
  <1>1. ASSUME NEW c \in Conns, NEW j \in DOMAIN c2s[c] PROVE ReportOk(c, c2s[c][j])
    <2>1. c2s[c][j] \in Frames
      <3>1. c2s[c] \in Seq(Frames)
        BY DEF Control, TypeOK
      <3> QED
        BY <3>1
    <2>2. PICK m \in Frames : m = c2s[c][j]
      BY <2>1
    <2>3. m.type = "Ack" => sess'[c] \in Conns /\ m.seq <= got'[sess'[c]]
      <3> SUFFICES ASSUME m.type = "Ack" PROVE sess'[c] \in Conns /\ m.seq <= got'[sess'[c]]
        OBVIOUS
      <3>1. sess[c] \in Conns /\ m.seq <= got[sess[c]] /\ m.seq \in Nat
        BY <2>2, Fields DEF ReportInv
      <3> QED
        BY <3>1 DEF SessKept, GotGrows
    <2>4. m.type = "Reattach" => \E s \in Conns : BoundNext(m.token, s) /\ m.seq <= got'[s]
      <3> SUFFICES ASSUME m.type = "Reattach"
                   PROVE  \E s \in Conns : BoundNext(m.token, s) /\ m.seq <= got'[s]
        OBVIOUS
      <3>1. PICK s \in Conns : Bound(m.token, s) /\ m.seq <= got[s]
        BY <2>2 DEF ReportInv
      <3>2. m.token \in Nat /\ m.seq \in Nat
        BY Fields
      <3>3. BoundNext(m.token, s)
        BY <3>1, <3>2, BoundKept
      <3>4. m.seq <= got'[s]
        BY <3>1, <3>2 DEF GotGrows
      <3> QED
        BY <3>3, <3>4
    <2> QED
      BY <2>2, <2>3, <2>4 DEF ReportOk
  <1>2. \A c \in Conns : \A i \in DOMAIN c2s'[c] : ReportOk(c, c2s'[c][i])
    BY <1>1
  <1> QED
    BY <1>2 DEF ReportInv, ReportOk, Bound, BoundNext

(* So do the answers.                                                      *)
LEMMA AnswerKept ==
  ASSUME Control, TokenMoves, AnswerInv, SessKept,
         \A c \in Conns : \A i \in DOMAIN s2c'[c] :
           \/ \E j \in DOMAIN s2c[c] : s2c'[c][i] = s2c[c][j]
           \/ AnswerOk(c, s2c'[c][i])
  PROVE  AnswerInv'
  <1>1. ASSUME NEW c \in Conns, NEW j \in DOMAIN s2c[c] PROVE AnswerOk(c, s2c[c][j])
    <2>1. s2c[c][j] \in Frames
      <3>1. s2c[c] \in Seq(Frames)
        BY DEF Control, TypeOK
      <3> QED
        BY <3>1
    <2>2. PICK m \in Frames : m = s2c[c][j]
      BY <2>1
    <2> SUFFICES ASSUME m.type \in {"SessionOpened", "ReattachOk"}
                 PROVE  sess'[c] \in Conns /\ BoundNext(m.token, sess'[c])
      BY <2>2 DEF AnswerOk
    <2>3. sess[c] \in Conns /\ Bound(m.token, sess[c]) /\ m.token \in Nat
      BY <2>2, Fields DEF AnswerInv
    <2>4. BoundNext(m.token, sess[c])
      BY <2>3, BoundKept
    <2> QED
      BY <2>3, <2>4 DEF SessKept
  <1>2. \A c \in Conns : \A i \in DOMAIN s2c'[c] : AnswerOk(c, s2c'[c][i])
    BY <1>1
  <1> QED
    BY <1>2 DEF AnswerInv, AnswerOk, Bound, BoundNext

(* HoldInv of the next state.                                              *)
LEMMA HoldNext ==
  ASSUME token' # NoToken =>
           \E s \in Conns : /\ BoundNext(token', s) /\ highest_applied' <= got'[s]
                            /\ cpc' \in Pumping => s = sess'[conn'],
         cpc' \in Pumping => token' # NoToken
  PROVE  HoldInv'
BY DEF HoldInv, Bound, BoundNext

(* The client goes on holding what it holds while it waits.                *)
LEMMA HoldKept ==
  ASSUME Control, TokenMoves, HoldInv, GotGrows, UNCHANGED <<token, highest_applied>>,
         cpc' \in Pumping => cpc \in Pumping /\ sess'[conn'] = sess[conn]
  PROVE  HoldInv'
  <1>1. ASSUME token # NoToken
        PROVE  \E s \in Conns : /\ BoundNext(token, s) /\ highest_applied <= got'[s]
                                /\ cpc' \in Pumping => s = sess'[conn']
    <2>1. PICK s \in Conns : /\ Bound(token, s) /\ highest_applied <= got[s]
                             /\ cpc \in Pumping => s = sess[conn]
      BY <1>1 DEF HoldInv
    <2>2. token \in Nat /\ highest_applied \in Nat
      BY DEF Control, TypeOK
    <2>3. BoundNext(token, s)
      BY <2>1, <2>2, BoundKept
    <2>4. highest_applied <= got'[s]
      BY <2>1, <2>2 DEF GotGrows
    <2> QED
      BY <2>1, <2>3, <2>4
  <1>2. cpc' \in Pumping => token # NoToken
    BY DEF HoldInv
  <1> QED
    BY <1>1, <1>2, HoldNext

Counters ==
  /\ StreamInv /\ CountInv /\ HoldInv /\ ReportInv /\ AnswerInv /\ ReplayInv
  /\ TrimmedWasReceived

(* A step of handler c disturbs no other handler.                          *)
Alone(c) ==
  /\ \A d \in Conns : d # c => /\ s2c'[d] = s2c[d] /\ spc'[d] = spc[d]
                               /\ sess'[d] = sess[d] /\ cursor'[d] = cursor[d]
  /\ \A s \in Conns : next[s] <= next'[s]
  /\ \A s \in Conns : next'[s] = next[s] \/ (s = sess[c] /\ spc[c] \in Serving)
  /\ up' \subseteq up
  /\ \A d \in Conns : \A i \in DOMAIN c2s'[d] : \E j \in DOMAIN c2s[d] : c2s'[d][i] = c2s[d][j]
  /\ UNCHANGED clientVars

(* What it has to show of its own connection.                              *)
OwnWork(c) ==
  /\ sess[c] \in Conns => sess'[c] = sess[c]
  /\ Wire(c)'
  /\ spc[c] \notin Fresh => spc'[c] \notin Fresh /\ (Behind(c) => Behind(c)')
  /\ \A i \in DOMAIN s2c'[c] : \/ \E j \in DOMAIN s2c[c] : s2c'[c][i] = s2c[c][j]
                               \/ AnswerOk(c, s2c'[c][i])
  /\ spc'[c] = "granting" => cursor'[c] <= got[sess'[c]]
  /\ spc'[c] \in {"committing", "replaying"} => cursor'[c] <= next'[sess'[c]]

(* A handler that keeps its own connection in order keeps them all.        *)
LEMMA HandlerCounters ==
  ASSUME Control, Control', TokenMoves, Counters, NEW c \in Conns, Alone(c), OwnWork(c),
         TrimmedWasReceived'
  PROVE  Counters'
  <1>1. /\ SessKept /\ GotGrows
        /\ UNCHANGED <<cpc, conn, token, highest_applied, got>>
    <2>1. UNCHANGED <<cpc, conn, token, highest_applied, got>>
      BY DEF Alone, clientVars
    <2>2. \A s \in Conns : got[s] \in Nat /\ got[s] <= got[s]
      BY NumberTypes DEF Control
    <2> QED
      BY <2>1, <2>2 DEF SessKept, GotGrows, Alone, OwnWork
  <1>2. ASSUME NEW d \in Conns, d # c
        PROVE  Wire(d)' /\ (Behind(d) => Behind(d)') /\ spc'[d] = spc[d] /\ cursor'[d] = cursor[d]
               /\ sess'[d] = sess[d] /\ (spc[d] \in Serving => next'[sess[d]] = next[sess[d]])
    <2>1. /\ s2c'[d] = s2c[d] /\ spc'[d] = spc[d] /\ sess'[d] = sess[d] /\ cursor'[d] = cursor[d]
      BY <1>2 DEF Alone
    <2>2. spc[d] \in Serving => sess[d] \in Conns /\ next'[sess[d]] = next[sess[d]]
      BY <1>2 DEF Alone, Control, OwnInv
    <2>3. spc[d] \in Writing => /\ sess[d] \in Conns /\ Position(d) \in Nat
                                /\ Position(d)' = Position(d)
      BY <2>1, <2>2, NumberTypes DEF Serving, Position, Control
    <2>4. Grows(d)
      BY <1>1, <2>1, <2>3 DEF Grows, GotGrows, Alone
    <2> QED
      BY <1>1, <2>1, <2>2, <2>3, <2>4, SameWire, WireStays DEF Counters, StreamInv, Control
  <1>3. StreamInv'
    BY <1>2 DEF StreamInv, OwnWork
  <1>4. CountInv'
    <2> SUFFICES ASSUME cpc \in Pumping
                 PROVE  sess'[conn] \in Conns /\ spc'[conn] \notin Fresh /\ Behind(conn)'
      BY <1>1 DEF CountInv
    <2>1. sess[conn] \in Conns /\ spc[conn] \notin Fresh /\ Behind(conn) /\ conn \in Conns
      BY DEF Counters, CountInv, Control, NetInv, Pumping, Attaching
    <2>2. PICK d \in Conns : d = conn /\ d = conn'
      BY <1>1, <2>1
    <2>3. sess'[d] \in Conns /\ spc'[d] \notin Fresh /\ Behind(d)'
      BY <1>1, <1>2, <2>1, <2>2 DEF SessKept, OwnWork
    <2> QED
      BY <2>2, <2>3 DEF Behind, Data, Sent, Number, Position
  <1>5. HoldInv'
    <2>1. cpc \in Pumping => conn \in Conns /\ sess[conn] \in Conns
      BY DEF Counters, CountInv, Control, NetInv, Pumping, Attaching
    <2> QED
      BY <1>1, <2>1, HoldKept DEF Counters, SessKept
  <1>6. ReportInv'
    BY <1>1, ReportKept DEF Counters, Alone
  <1>7. AnswerInv'
    <2>1. \A d \in Conns : \A i \in DOMAIN s2c'[d] :
             \/ \E j \in DOMAIN s2c[d] : s2c'[d][i] = s2c[d][j]
             \/ AnswerOk(d, s2c'[d][i])
      BY DEF Alone, OwnWork
    <2> QED
      BY <1>1, <2>1, AnswerKept DEF Counters
  <1>8. ReplayInv'
    <2>1. \A s \in Conns : got'[s] <= next'[s]
      <3>1. \A s \in Conns : /\ got[s] \in Nat /\ next[s] \in Nat /\ next'[s] \in Nat
                             /\ got[s] <= next[s] /\ next[s] <= next'[s] /\ got'[s] = got[s]
        BY <1>1, NumberTypes DEF Control, TypeOK, Counters, ReplayInv, Alone
      <3> QED
        BY <3>1
    <2>2. \A d \in Conns : spc'[d] = "granting" => cursor'[d] <= got'[sess'[d]]
      BY <1>1, <1>2 DEF OwnWork, Counters, ReplayInv
    <2>3. \A d \in Conns : spc'[d] \in {"committing", "replaying"} => cursor'[d] <= next'[sess'[d]]
      BY <1>2 DEF OwnWork, Counters, ReplayInv, Serving, Writing
    <2> QED
      BY <2>1, <2>2, <2>3 DEF ReplayInv
  <1> QED
    BY <1>3, <1>4, <1>5, <1>6, <1>7, <1>8 DEF Counters

(* Steps that write neither output nor an answer.                          *)
LEMMA QuietCounters ==
  ASSUME Control, Control', TokenMoves, Counters, NEW c \in Conns, Alone(c),
         sess'[c] = sess[c], SameNumbers(c),
         spc'[c] \in Writing => spc[c] \in Writing /\ Position(c)' = Position(c),
         spc'[c] \in Fresh => spc'[c] = spc[c] /\ cursor'[c] = cursor[c],
         spc'[c] \in {"committing", "replaying"} =>
           spc[c] \in {"committing", "replaying"} /\ cursor'[c] = cursor[c],
         \A i \in DOMAIN s2c'[c] :
           \/ \E j \in DOMAIN s2c[c] : s2c'[c][i] = s2c[c][j]
           \/ s2c'[c][i].type \notin {"SessionOpened", "ReattachOk"},
         TrimmedWasReceived'
  PROVE  Counters'
  <1>1. highest_applied' = highest_applied /\ \A s \in Conns : got[s] <= got'[s]
    <2>1. UNCHANGED <<highest_applied, got>> /\ \A s \in Conns : got[s] <= got[s]
      BY NumberTypes DEF Alone, clientVars, Control
    <2> QED
      BY <2>1
  <1>2. spc[c] \in Serving => sess[c] \in Conns
    BY DEF Control, OwnInv
  <1>3. Grows(c)
    <2>1. spc'[c] \in Writing => /\ spc[c] \in Writing /\ sess[c] \in Conns
                                 /\ Position(c) <= Position(c)'
      <3>1. spc[c] \in Writing => sess[c] \in Conns /\ Position(c) \in Nat
        BY <1>2, NumberTypes DEF Serving, Control
      <3>2. spc[c] \in Writing => Position(c) <= Position(c)
        BY <3>1
      <3> QED
        BY <3>1, <3>2
    <2> QED
      BY <1>1, <2>1 DEF Grows, Alone
  <1>4. Wire(c)' /\ (Behind(c) => Behind(c)')
    BY <1>1, <1>3, WireStays DEF Counters, StreamInv, Control
  <1>5. spc'[c] = "granting" => cursor'[c] <= got[sess'[c]]
    BY DEF Counters, ReplayInv, Fresh
  <1>6. spc'[c] \in {"committing", "replaying"} => cursor'[c] <= next'[sess'[c]]
    <2> SUFFICES ASSUME spc'[c] \in {"committing", "replaying"}
                 PROVE  cursor[c] <= next'[sess[c]]
      OBVIOUS
    <2>1. sess[c] \in Conns /\ cursor[c] <= next[sess[c]]
      BY <1>2 DEF Counters, ReplayInv, Serving, Writing
    <2>2. /\ cursor[c] \in Nat /\ next[sess[c]] \in Nat /\ next'[sess[c]] \in Nat
          /\ next[sess[c]] <= next'[sess[c]]
      BY <2>1, NumberTypes DEF Control, TypeOK, Alone
    <2> QED
      BY <2>1, <2>2
  <1>7. OwnWork(c)
    <2>1. spc[c] \notin Fresh => spc'[c] \notin Fresh
      OBVIOUS
    <2>2. \A i \in DOMAIN s2c'[c] : \/ \E j \in DOMAIN s2c[c] : s2c'[c][i] = s2c[c][j]
                                    \/ AnswerOk(c, s2c'[c][i])
      BY DEF AnswerOk
    <2> QED
      BY <1>4, <1>5, <1>6, <2>1, <2>2 DEF OwnWork
  <1> QED
    BY <1>7, HandlerCounters

(* A step that trims nothing and receives nothing.                         *)
LEMMA TrimmedKept ==
  ASSUME TrimmedWasReceived, UNCHANGED <<low, overflowed, got>>
  PROVE  TrimmedWasReceived'
BY DEF TrimmedWasReceived

(* Frames the server has read or dropped were on the wire.                 *)
LEMMA FramesRead ==
  ASSUME Control, NEW c \in Conns,
         c2s' = c2s \/ HandlerReturns(c) \/ \E kind : ServerReads(c, kind)
  PROVE  \A d \in Conns : \A i \in DOMAIN c2s'[d] : \E j \in DOMAIN c2s[d] : c2s'[d][i] = c2s[d][j]
  <1>1. CASE c2s' = c2s
    BY <1>1
  <1>2. CASE HandlerReturns(c)
    <2>1. c2s'[c] = << >> /\ \A d \in Conns : d # c => c2s'[d] = c2s[d]
      BY <1>2, Returned
    <2>2. DOMAIN c2s'[c] = {}
      BY <2>1
    <2> QED
      BY <2>1, <2>2
  <1>3. ASSUME NEW kind, ServerReads(c, kind)
        PROVE  \A d \in Conns : \A i \in DOMAIN c2s'[d] :
                 \E j \in DOMAIN c2s[d] : c2s'[d][i] = c2s[d][j]
    BY <1>3, ServerRead DEF Control
  <1> QED
    BY <1>1, <1>2, <1>3

(* Next numbers that stay.                                                 *)
LEMMA NextStays ==
  ASSUME Control, next' = next
  PROVE  \A s \in Conns : next[s] <= next'[s] /\ next'[s] = next[s]
  <1>1. \A s \in Conns : next[s] \in Nat
    BY NumberTypes DEF Control
  <1> QED
    BY <1>1

(* A frame written by a handler is the last on its wire.                   *)
LEMMA FramesWritten ==
  ASSUME Control, NEW c \in Conns, NEW m \in Frames, ServerWrites(c, m)
  PROVE  \A i \in DOMAIN s2c'[c] : \/ \E j \in DOMAIN s2c[c] : s2c'[c][i] = s2c[c][j]
                                   \/ s2c'[c][i] = m
BY ServerWritten DEF Control

(* The end of a handler.                                                   *)
LEMMA EndsCounters ==
  ASSUME Control, Control', TokenMoves, Counters, NEW c \in Conns,
         OpenedFails(c) \/ RejectReattach(c) \/ ReOrphan(c) \/ Orphan(c) \/ ShellExits(c)
  PROVE  Counters'
  <1>1. /\ HandlerReturns(c)
        /\ UNCHANGED <<low, next, overflowed, sess, clientVars>>
    BY DEF OpenedFails, RejectReattach, ReOrphan, Orphan, ShellExits, slotVars, outVars
  <1>2. PICK m \in {ReattachErr, SessionClose} : s2c' = s2c \/ ServerWrites(c, m)
    BY DEF OpenedFails, RejectReattach, ReOrphan, Orphan, ShellExits
  <1>3. m \in Frames /\ m.type \notin {"PtyData", "SessionOpened", "ReattachOk"}
    BY Messages DEF ReattachErr, SessionClose
  <1>4. /\ spc' = [spc EXCEPT ![c] = "done"] /\ up' = up \ {c}
        /\ \A d \in Conns : d # c => cursor'[d] = cursor[d]
    BY <1>1, Returned
  <1>5. spc'[c] = "done" /\ \A d \in Conns : d # c => spc'[d] = spc[d]
    BY <1>4, OwnTypes DEF Control
  <1>6. \A d \in Conns : d # c => s2c'[d] = s2c[d]
    BY <1>2, <1>3, ServerWritten DEF Control
  <1>7. Alone(c)
    BY <1>1, <1>4, <1>5, <1>6, FramesRead, NextStays DEF Alone
  <1>8. SameNumbers(c)
    BY <1>2, <1>3, SameWire, NoiseWritten DEF Control
  <1>9. \A i \in DOMAIN s2c'[c] : \/ \E j \in DOMAIN s2c[c] : s2c'[c][i] = s2c[c][j]
                                  \/ s2c'[c][i].type \notin {"SessionOpened", "ReattachOk"}
    BY <1>2, <1>3, FramesWritten
  <1>10. TrimmedWasReceived'
    BY <1>1, TrimmedKept DEF Counters, clientVars
  <1> QED
    BY <1>1, <1>5, <1>7, <1>8, <1>9, <1>10, QuietCounters DEF Writing, Fresh

(* The steps of a handler that neither answer, write output nor end it.    *)
LEMMA PausesCounters ==
  ASSUME Control, Control', TokenMoves, Counters, NEW c \in Conns,
         \/ CommitToken(c) \/ Rebind(c) \/ PumpFails(c) \/ PtyRead(c) \/ PumpChannelOpen(c)
         \/ PumpAck(c) \/ ConnectionLost(c) \/ OrphanEnds(c)
  PROVE  Counters'
  <1>1. /\ UNCHANGED <<next, overflowed, sess, cursor, clientVars>> /\ up' \subseteq up
        /\ c2s' = c2s \/ \E kind : ServerReads(c, kind)
    BY DEF CommitToken, Rebind, PumpFails, PtyRead, PumpChannelOpen, PumpAck, ConnectionLost,
           OrphanEnds, slotVars, outVars, serverVars
  <1>2. s2c' = s2c \/ ServerWrites(c, ChannelAccept)
    BY DEF CommitToken, Rebind, PumpFails, PtyRead, PumpChannelOpen, PumpAck, ConnectionLost,
           OrphanEnds
  <1>3. ChannelAccept \in Frames /\ ChannelAccept.type \notin {"PtyData", "SessionOpened", "ReattachOk"}
    BY Messages DEF ChannelAccept
  <1>4. \/ spc' = spc
        \/ spc[c] = "committing" /\ spc' = [spc EXCEPT ![c] = "replaying"]
        \/ spc[c] = "replaying" /\ cursor[c] >= next[sess[c]] /\ spc' = [spc EXCEPT ![c] = "pump"]
        \/ spc' = [spc EXCEPT ![c] = "stopping"]
    BY DEF CommitToken, Rebind, PumpFails, PtyRead, PumpChannelOpen, PumpAck, ConnectionLost,
           OrphanEnds, serverVars, Goto
  <1>5. /\ \A d \in Conns : d # c => spc'[d] = spc[d]
        /\ \/ spc'[c] = spc[c]
           \/ spc[c] = "committing" /\ spc'[c] = "replaying"
           \/ spc[c] = "replaying" /\ cursor[c] >= next[sess[c]] /\ spc'[c] = "pump"
           \/ spc'[c] = "stopping"
    BY <1>4, OwnTypes DEF Control
  <1>6. \A d \in Conns : d # c => s2c'[d] = s2c[d]
    BY <1>2, <1>3, ServerWritten DEF Control
  <1>7. Alone(c)
    BY <1>1, <1>5, <1>6, FramesRead, NextStays DEF Alone
  <1>8. SameNumbers(c)
    BY <1>2, <1>3, SameWire, NoiseWritten DEF Control
  <1>9. \A i \in DOMAIN s2c'[c] : \/ \E j \in DOMAIN s2c[c] : s2c'[c][i] = s2c[c][j]
                                  \/ s2c'[c][i].type \notin {"SessionOpened", "ReattachOk"}
    BY <1>2, <1>3, FramesWritten
  <1>10. TrimmedWasReceived'
    <2>1. CASE low' = low
      BY <1>1, <2>1, TrimmedKept DEF Counters, clientVars
    <2>2. CASE PumpAck(c)
      <3>1. /\ low' = [low EXCEPT ![sess[c]] = IF Head(c2s[c]).seq > @ THEN Head(c2s[c]).seq ELSE @]
            /\ ServerReads(c, "Ack") /\ spc[c] = "pump"
        BY <2>2 DEF PumpAck
      <3>2. Head(c2s[c]).seq <= got[sess[c]] /\ sess[c] \in Conns
        BY <3>1, ServerRead DEF Counters, ReportInv, Control
      <3>3. \A s \in Conns : low'[s] = low[s] \/ low'[s] <= got[s]
        BY <3>1, <3>2 DEF Control, TypeOK
      <3> QED
        BY <1>1, <3>3 DEF Counters, TrimmedWasReceived, clientVars
    <2> QED
      BY <2>1, <2>2 DEF CommitToken, Rebind, PumpFails, PtyRead, PumpChannelOpen,
                        ConnectionLost, OrphanEnds, slotVars, outVars
  <1>11. spc'[c] \in Writing => spc[c] \in Writing /\ Position(c)' = Position(c)
    <2>1. CASE spc[c] = "replaying" /\ cursor[c] >= next[sess[c]] /\ spc'[c] = "pump"
      <3>1. sess[c] \in Conns /\ cursor[c] <= next[sess[c]]
        BY <2>1 DEF Control, OwnInv, Serving, Writing, Counters, ReplayInv
      <3>2. cursor[c] \in Nat /\ next[sess[c]] \in Nat
        BY <3>1, NumberTypes DEF Control
      <3>3. cursor[c] = next[sess[c]]
        BY <2>1, <3>1, <3>2
      <3> QED
        BY <1>1, <2>1, <3>3 DEF Position, Writing
    <2> QED
      BY <1>1, <1>5, <2>1 DEF Position, Writing
  <1> QED
    BY <1>1, <1>5, <1>7, <1>8, <1>9, <1>10, <1>11, QuietCounters DEF Fresh

(* The steps that write the next chunk: the replay and the pump.           *)
LEMMA ChunkCounters ==
  ASSUME Control, Control', TokenMoves, Counters, NEW c \in Conns, Alone(c), TrimmedWasReceived',
         spc[c] \in {"replaying", "pump"}, spc' = spc, sess' = sess,
         ServerWrites(c, PtyData(sess[c], Position(c))),
         Position(c)' = Position(c) + 1, Position(c) < next'[sess[c]]
  PROVE  Counters'
  <1>1. UNCHANGED <<highest_applied, got>> /\ \A s \in Conns : got[s] <= got'[s]
    <2>1. UNCHANGED <<highest_applied, got>> /\ \A s \in Conns : got[s] <= got[s]
      BY NumberTypes DEF Alone, clientVars, Control
    <2> QED
      BY <2>1
  <1>2. sess[c] \in Conns /\ Position(c) \in Nat /\ next'[sess[c]] \in Nat
    <2>1. sess[c] \in Conns
      BY DEF Control, OwnInv, Serving, Writing
    <2> QED
      BY <2>1, NumberTypes DEF Control, TypeOK
  <1>3. Position(c) <= Position(c)' /\ Position(c)' <= next'[sess[c]]
    BY <1>2
  <1>4. Grows(c)
    BY <1>1, <1>2, <1>3 DEF Grows, Alone, Writing
  <1>5. Wire(c)' /\ (Behind(c) => Behind(c)')
    BY <1>1, <1>2, <1>4, WireGains DEF Counters, StreamInv, Control, Writing
  <1>6. PtyData(sess[c], Position(c)) \in Frames
    BY <1>2, Messages
  <1>7. PtyData(sess[c], Position(c)).type = "PtyData"
    BY DEF PtyData
  <1>8. OwnWork(c)
    <2>1. \A i \in DOMAIN s2c'[c] : \/ \E j \in DOMAIN s2c[c] : s2c'[c][i] = s2c[c][j]
                                    \/ AnswerOk(c, s2c'[c][i])
      BY <1>6, <1>7, FramesWritten DEF AnswerOk
    <2>2. spc'[c] \notin Fresh /\ spc'[c] # "granting"
      BY DEF Fresh
    <2>3. spc'[c] \in {"committing", "replaying"} => cursor'[c] <= next'[sess'[c]]
      BY <1>3 DEF Position
    <2> QED
      BY <1>5, <2>1, <2>2, <2>3 DEF OwnWork
  <1> QED
    BY <1>8, HandlerCounters

(* Replaying writes chunk cursor and moves on.                             *)
LEMMA ReplayCounters ==
  ASSUME Control, Control', TokenMoves, Counters, NEW c \in Conns, ReplayChunk(c)
  PROVE  Counters'
  <1>1. /\ spc[c] = "replaying" /\ cursor[c] < next[sess[c]]
        /\ ServerWrites(c, PtyData(sess[c], cursor[c]))
        /\ cursor' = [cursor EXCEPT ![c] = @ + 1]
        /\ UNCHANGED <<low, next, overflowed, spc, sess, up, c2s, clientVars>>
    BY DEF ReplayChunk, slotVars, outVars
  <1>2. cursor \in [Conns -> Nat] /\ sess[c] \in Conns
    BY <1>1 DEF Control, TypeOK, OwnInv, Serving, Writing
  <1>3. /\ cursor'[c] = cursor[c] + 1 /\ \A d \in Conns : d # c => cursor'[d] = cursor[d]
    BY <1>1, <1>2
  <1>4. PtyData(sess[c], cursor[c]) \in Frames
    BY <1>2, Messages
  <1>5. Alone(c)
    BY <1>1, <1>3, <1>4, ServerWritten, FramesRead, NextStays DEF Alone, Control
  <1>6. Position(c) = cursor[c] /\ Position(c)' = cursor[c] + 1
    BY <1>1, <1>3 DEF Position
  <1>7. TrimmedWasReceived'
    BY <1>1, TrimmedKept DEF Counters, clientVars
  <1> QED
    BY <1>1, <1>5, <1>6, <1>7, ChunkCounters

(* The pump writes chunk next, which the slot has retained first.          *)
LEMMA PumpCounters ==
  ASSUME Control, Control', TokenMoves, Counters, NEW c \in Conns, PumpOutput(c)
  PROVE  Counters'
  <1>1. /\ spc[c] = "pump" /\ next' = [next EXCEPT ![sess[c]] = @ + 1]
        /\ UNCHANGED <<sess, cursor, up, c2s, clientVars>>
    BY DEF PumpOutput
  <1>2. sess[c] \in Conns /\ next \in [Conns -> Nat]
    BY <1>1 DEF Control, TypeOK, OwnInv, Serving, Writing
  <1>3. \A s \in Conns : /\ next[s] <= next'[s] /\ (next'[s] = next[s] \/ s = sess[c])
                         /\ next[s] \in Nat
    BY <1>1, <1>2
  <1>4. next'[sess[c]] = next[sess[c]] + 1 /\ next[sess[c]] < next[sess[c]] + 1
    BY <1>1, <1>2
  <1>5. TrimmedWasReceived'
    <2>1. PICK l \in low[sess[c]] .. next[sess[c]] :
             /\ low' = [low EXCEPT ![sess[c]] = l]
             /\ overflowed' = [overflowed EXCEPT ![sess[c]] = @ \/ l # low[sess[c]]]
      BY DEF PumpOutput
    <2>2. \A s \in Conns : \/ low'[s] = low[s] /\ (overflowed[s] => overflowed'[s])
                           \/ overflowed'[s]
      BY <1>2, <2>1 DEF Control, TypeOK
    <2> QED
      BY <1>1, <2>2 DEF Counters, TrimmedWasReceived, clientVars
  <1>6. CASE ServerWrites(c, PtyData(sess[c], next[sess[c]])) /\ spc' = spc
    <2>1. PtyData(sess[c], next[sess[c]]) \in Frames
      BY <1>2, <1>3, Messages
    <2>2. Alone(c)
      BY <1>1, <1>3, <1>6, <2>1, ServerWritten, FramesRead DEF Alone, Control, Serving, Writing
    <2>3. Position(c) = next[sess[c]] /\ Position(c)' = next[sess[c]] + 1
      BY <1>1, <1>4, <1>6 DEF Position
    <2> QED
      BY <1>1, <1>4, <1>5, <1>6, <2>2, <2>3, ChunkCounters
  <1>7. CASE c \notin up /\ spc' = [spc EXCEPT ![c] = "stopping"] /\ s2c' = s2c
    <2>1. spc'[c] = "stopping" /\ \A d \in Conns : d # c => spc'[d] = spc[d]
      BY <1>7, OwnTypes DEF Control
    <2>2. Alone(c)
      BY <1>1, <1>3, <1>7, <2>1, FramesRead DEF Alone, Serving, Writing
    <2> QED
      BY <1>1, <1>5, <1>7, <2>1, <2>2, SameWire, QuietCounters DEF Writing, Fresh
  <1> QED
    BY <1>6, <1>7 DEF PumpOutput, Goto

(* A handler takes its session; it has written nothing yet.                *)
LEMMA OpenSessionCounters ==
  ASSUME Control, Control', TokenMoves, Counters, NEW c \in Conns, OpenSession(c)
  PROVE  Counters'
  <1>1. /\ spc[c] = "accepting" /\ spc' = [spc EXCEPT ![c] = "opening"]
        /\ sess' = [sess EXCEPT ![c] = c] /\ ServerReads(c, "SessionOpen")
        /\ UNCHANGED <<low, next, overflowed, cursor, up, s2c, clientVars>>
    BY DEF OpenSession, Goto, outVars
  <1>2. sess[c] \notin Conns /\ s2c[c] = << >>
    BY <1>1, OwnTypes DEF Control, OwnInv, NetInv, Fresh
  <1>3. /\ spc'[c] = "opening" /\ sess'[c] = c
        /\ \A d \in Conns : d # c => spc'[d] = spc[d] /\ sess'[d] = sess[d]
    BY <1>1, OwnTypes DEF Control
  <1>4. Alone(c)
    BY <1>1, <1>3, FramesRead, NextStays DEF Alone
  <1>5. Wire(c)'
    BY <1>1, <1>2, <1>3, WireEmpty DEF Writing
  <1>6. OwnWork(c)
    BY <1>1, <1>2, <1>3, <1>5 DEF OwnWork, Fresh
  <1>7. TrimmedWasReceived'
    BY <1>1, TrimmedKept DEF Counters, clientVars
  <1> QED
    BY <1>4, <1>6, <1>7, HandlerCounters

(* The number in a Reattach was received from the session its token names. *)
LEMMA AcceptReattachCounters ==
  ASSUME Control, Control', TokenMoves, Counters, NEW c \in Conns, AcceptReattach(c)
  PROVE  Counters'
  <1>1. /\ spc[c] = "accepting" /\ spc' = [spc EXCEPT ![c] = "granting"]
        /\ cursor' = [cursor EXCEPT ![c] = Head(c2s[c]).seq] /\ ServerReads(c, "Reattach")
        /\ UNCHANGED <<low, next, overflowed, up, s2c, clientVars>>
    BY DEF AcceptReattach, Goto, outVars
  <1>2. PICK s \in Conns : live[s] = Head(c2s[c]).token /\ sess' = [sess EXCEPT ![c] = s]
    BY DEF AcceptReattach, Matches
  <1>3. sess[c] \notin Conns /\ s2c[c] = << >>
    BY <1>1, OwnTypes DEF Control, OwnInv, NetInv, Fresh
  <1>4. /\ spc'[c] = "granting" /\ sess'[c] = s
        /\ \A d \in Conns : d # c => spc'[d] = spc[d] /\ sess'[d] = sess[d]
    BY <1>1, <1>2, OwnTypes DEF Control
  <1>5. /\ cursor'[c] = Head(c2s[c]).seq /\ \A d \in Conns : d # c => cursor'[d] = cursor[d]
    <2>1. cursor \in [Conns -> Nat]
      BY DEF Control, TypeOK
    <2> QED
      BY <1>1, <2>1
  <1>6. Head(c2s[c]).seq <= got[s]
    <2>1. /\ Head(c2s[c]) = c2s[c][1] /\ 1 \in DOMAIN c2s[c] /\ c2s[c][1].type = "Reattach"
      BY <1>1, ServerRead DEF Control
    <2>2. PICK r \in Conns : Bound(c2s[c][1].token, r) /\ c2s[c][1].seq <= got[r]
      BY <2>1 DEF Counters, ReportInv
    <2>3. r = s
      BY <1>2, <2>1, <2>2 DEF Bound
    <2> QED
      BY <2>1, <2>2, <2>3
  <1>7. Alone(c)
    BY <1>1, <1>4, <1>5, FramesRead, NextStays DEF Alone
  <1>8. Wire(c)'
    BY <1>1, <1>3, <1>4, WireEmpty DEF Writing
  <1>9. OwnWork(c)
    BY <1>1, <1>3, <1>4, <1>5, <1>6, <1>8 DEF OwnWork, Fresh
  <1>10. TrimmedWasReceived'
    BY <1>1, TrimmedKept DEF Counters, clientVars
  <1> QED
    BY <1>7, <1>9, <1>10, HandlerCounters

(* The first answer on a wire that carried nothing.                        *)
LEMMA FirstAnswer ==
  ASSUME Control, NEW c \in Conns, NEW m \in Frames, ServerWrites(c, m), s2c[c] = << >>
  PROVE  /\ \A d \in Conns : d # c => s2c'[d] = s2c[d]
         /\ c \notin up => s2c'[c] = << >>
         /\ c \in up => DOMAIN s2c'[c] = {1} /\ s2c'[c][1] = m
  <1>1. Len(s2c[c]) = 0 /\ DOMAIN s2c[c] = {}
    OBVIOUS
  <1> QED
    BY <1>1, ServerWritten DEF Control

(* SessionOpened: the session has no output yet.                           *)
LEMMA SendOpenedCounters ==
  ASSUME Control, Control', Tokens, TokenMoves, Counters, NEW c \in Conns, SendOpened(c)
  PROVE  Counters'
  <1>1. /\ spc[c] = "opening" /\ spc' = [spc EXCEPT ![c] = "pump"]
        /\ ServerWrites(c, SessionOpened(live[c]))
        /\ UNCHANGED <<live, low, next, overflowed, sess, cand, cursor, minted, up, c2s, clientVars>>
    BY DEF SendOpened, Goto, slotVars, outVars
  <1>2. sess[c] = c /\ next[c] = 0 /\ s2c[c] = << >>
    BY <1>1 DEF Control, OwnInv, NetInv, Fresh
  <1>3. spc'[c] = "pump" /\ \A d \in Conns : d # c => spc'[d] = spc[d]
    BY <1>1, OwnTypes DEF Control
  <1>4. live[c] \in Nat /\ Bound(live[c], c)
    <2>1. live[c] # NoToken /\ live[c] \in Nat
      BY <1>1 DEF Tokens, TokenInv, Control, TypeOK
    <2> QED
      BY <2>1 DEF Tokens, TokenInv
  <1>5. PICK t \in Nat : t = live[c] /\ BoundNext(t, c) /\ SessionOpened(t) \in Frames
    BY <1>4, BoundKept, Messages
  <1>6. /\ \A d \in Conns : d # c => s2c'[d] = s2c[d]
        /\ c \notin up => s2c'[c] = << >>
        /\ c \in up => DOMAIN s2c'[c] = {1} /\ s2c'[c][1] = SessionOpened(t)
    BY <1>1, <1>2, <1>5, FirstAnswer
  <1>7. Alone(c)
    BY <1>1, <1>3, <1>6, FramesRead, NextStays DEF Alone
  <1>8. Wire(c)'
    <2>1. Data(c)' = {} /\ Oks(c)' = {}
      BY <1>6 DEF Data, Oks, Sent, SessionOpened
    <2>2. Position(c)' = 0 /\ sess'[c] = c /\ got'[c] \in Nat
      BY <1>1, <1>2, <1>3, NumberTypes DEF Position, clientVars, Control
    <2>3. Covered(c, Position(c))'
      BY <2>2 DEF Covered
    <2> QED
      BY <2>1, <2>3 DEF Wire, OkNumbers, DataNumbers
  <1>9. \A i \in DOMAIN s2c'[c] : AnswerOk(c, s2c'[c][i])
    BY <1>1, <1>2, <1>5, <1>6 DEF AnswerOk, SessionOpened
  <1>10. OwnWork(c)
    BY <1>1, <1>3, <1>8, <1>9 DEF OwnWork, Fresh
  <1>11. TrimmedWasReceived'
    BY <1>1, TrimmedKept DEF Counters, clientVars
  <1> QED
    BY <1>7, <1>10, <1>11, HandlerCounters

(* ReattachOk announces where the replay starts, and whether something was *)
(* lost before it.                                                         *)
LEMMA SendReattachOkCounters ==
  ASSUME Control, Control', Tokens, TokenMoves, Counters, NEW c \in Conns, SendReattachOk(c)
  PROVE  Counters'
  <1> DEFINE below == low[sess[c]] < next[sess[c]] /\ low[sess[c]] > cursor[c]
             from  == IF below THEN low[sess[c]] ELSE cursor[c]
  <1>1. /\ spc[c] = "granting" /\ spc' = [spc EXCEPT ![c] = "committing"]
        /\ minted' = minted + 1 /\ cursor' = [cursor EXCEPT ![c] = from]
        /\ ServerWrites(c, ReattachOk(minted + 1, from, below))
        /\ UNCHANGED <<low, next, overflowed, sess, up, c2s, clientVars>>
    BY DEF SendReattachOk, Goto, slotVars, outVars
  <1>2. sess[c] \in Conns /\ s2c[c] = << >> /\ cursor[c] <= got[sess[c]] /\ got[sess[c]] <= next[sess[c]]
    BY <1>1 DEF Control, OwnInv, NetInv, Fresh, Serving, Counters, ReplayInv
  <1>3. /\ cursor \in [Conns -> Nat] /\ cursor[c] \in Nat /\ low[sess[c]] \in Nat
        /\ next[sess[c]] \in Nat /\ got[sess[c]] \in Nat /\ minted \in Nat /\ below \in BOOLEAN
    BY <1>2 DEF Control, TypeOK
  <1>4. PICK f \in Nat : f = from
    BY <1>3
  <1>5. PICK b \in BOOLEAN : b = below
    BY <1>3
  <1>6. f <= next[sess[c]] /\ (b \/ f <= got[sess[c]])
    <2>1. CASE below
      <3>1. b /\ f = low[sess[c]] /\ low[sess[c]] < next[sess[c]]
        BY <1>4, <1>5, <2>1
      <3> QED
        BY <1>3, <3>1
    <2>2. CASE ~below
      <3>1. f = cursor[c]
        BY <1>4, <2>2
      <3> QED
        BY <1>2, <1>3, <3>1
    <2> QED
      BY <2>1, <2>2
  <1>7. PICK t \in Nat : t = minted + 1 /\ BoundNext(t, sess[c])
    BY <1>3, SendReattachOkTokens
  <1> HIDE DEF below, from
  <1>8. ServerWrites(c, ReattachOk(t, f, b)) /\ ReattachOk(t, f, b) \in Frames
    BY <1>1, <1>4, <1>5, <1>7, Messages
  <1>9. /\ \A d \in Conns : d # c => s2c'[d] = s2c[d]
        /\ c \notin up => s2c'[c] = << >>
        /\ c \in up => DOMAIN s2c'[c] = {1} /\ s2c'[c][1] = ReattachOk(t, f, b)
    BY <1>2, <1>8, FirstAnswer
  <1>10. spc'[c] = "committing" /\ \A d \in Conns : d # c => spc'[d] = spc[d]
    BY <1>1, OwnTypes DEF Control
  <1>11. cursor'[c] = f /\ \A d \in Conns : d # c => cursor'[d] = cursor[d]
    BY <1>1, <1>3, <1>4
  <1>12. Alone(c)
    BY <1>1, <1>9, <1>10, <1>11, FramesRead, NextStays DEF Alone
  <1>13. Wire(c)'
    <2>1. Position(c)' = f /\ UNCHANGED <<sess, next, got, up>> /\ f <= f
      BY <1>1, <1>10, <1>11 DEF Position, clientVars
    <2>2. CASE c \notin up
      <3>1. Data(c)' = {} /\ Oks(c)' = {}
        BY <1>9, <2>2 DEF Data, Oks, Sent
      <3> QED
        BY <2>1, <2>2, <3>1 DEF Wire, OkNumbers, DataNumbers
    <2>3. CASE c \in up
      <3>1. /\ Data(c)' = {} /\ Oks(c)' = {1} /\ Number(c, 1)' = f
            /\ s2c'[c][1].truncated = b
        BY <1>9, <2>3 DEF Data, Oks, Sent, ReattachOk, Number
      <3>2. OkNumbers(c)'
        BY <1>2, <1>6, <2>1, <3>1 DEF OkNumbers
      <3>3. Covered(c, f)'
        BY <1>6, <2>1, <3>1 DEF Covered
      <3>4. Covered(c, Position(c))'
        BY <2>1, <3>3 DEF Covered
      <3> QED
        BY <3>1, <3>2, <3>4 DEF Wire, DataNumbers
    <2> QED
      BY <2>2, <2>3
  <1>14. \A i \in DOMAIN s2c'[c] : AnswerOk(c, s2c'[c][i])
    <2>1. CASE c \notin up
      <3>1. DOMAIN s2c'[c] = {}
        BY <1>9, <2>1
      <3> QED
        BY <3>1
    <2>2. CASE c \in up
      BY <1>1, <1>2, <1>7, <1>9, <2>2 DEF AnswerOk, ReattachOk
    <2> QED
      BY <2>1, <2>2
  <1>15. OwnWork(c)
    BY <1>1, <1>6, <1>10, <1>11, <1>13, <1>14 DEF OwnWork, Fresh
  <1>16. TrimmedWasReceived'
    BY <1>1, TrimmedKept DEF Counters, clientVars
  <1> QED
    BY <1>12, <1>15, <1>16, HandlerCounters

(* A step of the client on its connection disturbs neither the server nor  *)
(* the other connections.                                                  *)
LEMMA ClientCounters ==
  ASSUME Control, Control', TokenMoves, Counters, NEW c \in Conns, c = conn, conn' = conn,
         UNCHANGED <<slotVars, serverVars>>, up' \subseteq up,
         GotGrows, \A s \in Conns : got'[s] <= next[s],
         \A d \in Conns : d # c => s2c'[d] = s2c[d] /\ c2s'[d] = c2s[d],
         Wire(c)', HoldInv',
         cpc' \in Pumping => sess[c] \in Conns /\ spc[c] \notin Fresh /\ Behind(c)',
         \A i \in DOMAIN s2c'[c] : \E j \in DOMAIN s2c[c] : s2c'[c][i] = s2c[c][j],
         \A i \in DOMAIN c2s'[c] : \/ \E j \in DOMAIN c2s[c] : c2s'[c][i] = c2s[c][j]
                                   \/ ReportOk(c, c2s'[c][i])
  PROVE  Counters'
  <1>1. UNCHANGED <<low, next, overflowed, spc, sess, cursor>>
    BY DEF slotVars, outVars, serverVars
  <1>2. SessKept
    BY <1>1 DEF SessKept
  <1>3. StreamInv'
    <2> SUFFICES ASSUME NEW d \in Conns, d # c PROVE Wire(d)'
      BY DEF StreamInv
    <2>1. spc[d] \in Writing => sess[d] \in Conns /\ Position(d) \in Nat
      <3>1. spc[d] \in Writing => sess[d] \in Conns
        BY DEF Control, OwnInv, Serving
      <3> QED
        BY <3>1, NumberTypes DEF Control
    <2>2. Position(d)' = Position(d)
      BY <1>1 DEF Position
    <2>3. Grows(d)
      <3>1. \A s \in Conns : next[s] <= next'[s] /\ got[s] <= got'[s]
        BY <1>1, NextStays DEF GotGrows
      <3>2. spc[d] \in Writing => Position(d) <= Position(d)
        BY <2>1
      <3> QED
        BY <1>1, <2>1, <2>2, <3>1, <3>2 DEF Grows
    <2> QED
      BY <2>2, <2>3, SameWire, WireStays DEF Counters, StreamInv, Control
  <1>4. CountInv'
    BY <1>1 DEF CountInv, Behind, Data, Sent, Number, Position
  <1>5. ReportInv'
    BY <1>2, ReportKept DEF Counters
  <1>6. AnswerInv'
    BY <1>2, AnswerKept DEF Counters
  <1>7. ReplayInv'
    <2>1. \A d \in Conns : spc[d] = "granting" => cursor[d] <= got'[sess[d]]
      <3> SUFFICES ASSUME NEW d \in Conns, spc[d] = "granting" PROVE cursor[d] <= got'[sess[d]]
        OBVIOUS
      <3>1. sess[d] \in Conns /\ cursor[d] <= got[sess[d]] /\ cursor[d] \in Nat
        BY NumberTypes DEF Control, OwnInv, Serving, Counters, ReplayInv
      <3> QED
        BY <3>1 DEF GotGrows
    <2> QED
      BY <1>1, <2>1 DEF Counters, ReplayInv
  <1>8. TrimmedWasReceived'
    <2>1. \A s \in Conns : low[s] \in Nat
      BY DEF Control, TypeOK
    <2> QED
      BY <1>1, <2>1 DEF Counters, TrimmedWasReceived, GotGrows
  <1> QED
    BY <1>3, <1>4, <1>5, <1>6, <1>7, <1>8 DEF Counters

(* The client leaves: whatever its connection carried is gone.             *)
LEMMA LeavesCounters ==
  ASSUME Control, Control', TokenMoves, Counters, conn \in Conns,
         NEW l \in {"idle", "ended", "quit"}, ClientLeaves(l), token' \in {token, NoToken},
         UNCHANGED <<slotVars, serverVars, c2s, conn, highest_applied, last_acked, got>>
  PROVE  Counters'
  <1>1. PICK c \in Conns : c = conn
    OBVIOUS
  <1>2. /\ cpc' = l /\ up' = up \ {c} /\ s2c' = [s2c EXCEPT ![c] = << >>]
    BY <1>1 DEF ClientLeaves
  <1>3. s2c'[c] = << >> /\ \A d \in Conns : d # c => s2c'[d] = s2c[d]
    BY <1>2 DEF Control, TypeOK
  <1>4. GotGrows /\ \A s \in Conns : got'[s] <= next[s]
    <2>1. \A s \in Conns : got[s] \in Nat /\ got[s] <= got[s]
      BY NumberTypes DEF Control
    <2> QED
      BY <2>1 DEF GotGrows, Counters, ReplayInv
  <1>5. cpc' \notin Pumping
    BY <1>2 DEF Pumping
  <1>6. HoldInv'
    <2>1. CASE token' = token
      BY <1>4, <1>5, <2>1, HoldKept DEF Counters
    <2>2. CASE token' = NoToken
      BY <1>5, <2>2, HoldNext
    <2> QED
      BY <2>1, <2>2
  <1>7. Wire(c)'
    BY <1>2, <1>3, WireEmpty
  <1>8. DOMAIN s2c'[c] = {}
    BY <1>3
  <1> QED
    BY <1>1, <1>2, <1>3, <1>4, <1>5, <1>6, <1>7, <1>8, ClientCounters

(* The next connection: nothing is on its wire but the client's first frame. *)
LEMMA ConnectCounters ==
  ASSUME Control, Control', TokenMoves, Counters, Connect
  PROVE  Counters'
  <1>1. PICK c \in Conns : c = conn' /\ conn' = conn + 1
    BY ConnectFacts
  <1>2. /\ up' = up \cup {c} /\ cpc' = "awaiting" /\ cpc = "idle"
        /\ UNCHANGED <<low, next, overflowed, spc, sess, cursor, s2c, token, highest_applied, got>>
    BY <1>1, ConnectFacts DEF slotVars, outVars, serverVars
  <1>3. /\ \A d \in Conns : d # c => c2s'[d] = c2s[d]
        /\ c2s'[c] = << IF token = NoToken THEN SessionOpen ELSE ReattachMsg(token, highest_applied) >>
    BY <1>1, ConnectFacts
  <1>4. spc[c] = "accepting" /\ \A d \in Conns : s2c[d] = << >> /\ d \notin up
    <2>1. c > conn
      <3>1. conn \in Nat
        BY OwnTypes DEF Control
      <3> QED
        BY <1>1, <3>1
    <2> QED
      BY <1>2, <2>1 DEF Control, NetInv, Attaching
  <1>5. GotGrows /\ SessKept
    <2>1. \A s \in Conns : got[s] \in Nat /\ got[s] <= got[s]
      BY NumberTypes DEF Control
    <2> QED
      BY <1>2, <2>1 DEF GotGrows, SessKept
  <1>6. StreamInv'
    <2>1. \A d \in Conns : s2c'[d] = << >> /\ (d \notin up' \/ spc'[d] \notin Writing)
      BY <1>2, <1>4 DEF Writing
    <2> QED
      BY <2>1, WireEmpty DEF StreamInv
  <1>7. CountInv'
    BY <1>2 DEF CountInv, Pumping
  <1>8. HoldInv'
    BY <1>2, <1>5, HoldKept DEF Counters, Pumping
  <1>9. ReportInv'
    <2>1. ASSUME NEW i \in DOMAIN c2s'[c] PROVE ReportOk(c, c2s'[c][i])
      <3>1. c2s'[c][i] = IF token = NoToken THEN SessionOpen ELSE ReattachMsg(token, highest_applied)
        <4> DEFINE m == IF token = NoToken THEN SessionOpen ELSE ReattachMsg(token, highest_applied)
        <4>1. c2s'[c] = << m >>
          BY <1>3
        <4> HIDE DEF m
        <4>2. c2s'[c][i] = m
          BY <4>1
        <4> QED
          BY <4>2 DEF m
      <3>2. CASE token = NoToken
        BY <3>1, <3>2 DEF ReportOk, SessionOpen
      <3>3. CASE token # NoToken
        <4>1. PICK s \in Conns : Bound(token, s) /\ highest_applied <= got[s]
          BY <3>3 DEF Counters, HoldInv
        <4>2. token \in Nat
          BY DEF Control, TypeOK
        <4>3. BoundNext(token, s) /\ highest_applied <= got'[s]
          BY <1>2, <4>1, <4>2, BoundKept
        <4>4. c2s'[c][i] = ReattachMsg(token, highest_applied)
          BY <3>1, <3>3
        <4>5. /\ c2s'[c][i].type = "Reattach" /\ c2s'[c][i].token = token
              /\ c2s'[c][i].seq = highest_applied
          BY <4>4 DEF ReattachMsg
        <4> QED
          BY <4>3, <4>5 DEF ReportOk
      <3> QED
        BY <3>2, <3>3
    <2> QED
      BY <1>3, <1>5, <2>1, ReportKept DEF Counters
  <1>10. AnswerInv'
    BY <1>2, <1>5, AnswerKept DEF Counters
  <1>11. ReplayInv'
    BY <1>2 DEF Counters, ReplayInv
  <1>12. TrimmedWasReceived'
    BY <1>2, TrimmedKept DEF Counters
  <1> QED
    BY <1>6, <1>7, <1>8, <1>9, <1>10, <1>11, <1>12 DEF Counters

(* The client reads a frame and takes note of it.                          *)
LEMMA ReadCounters ==
  ASSUME Control, Control', TokenMoves, Counters, NEW c \in Conns, c = conn, NEW kind,
         ClientReads(kind), UNCHANGED <<slotVars, serverVars, up, conn>>,
         GotGrows, \A s \in Conns : got'[s] <= next[s], TakesNote(c), HoldInv',
         sess[c] \in Conns, Behind(c)',
         \A d \in Conns : d # c => c2s'[d] = c2s[d],
         \A i \in DOMAIN c2s'[c] : \/ \E j \in DOMAIN c2s[c] : c2s'[c][i] = c2s[c][j]
                                   \/ c2s'[c][i] = ChannelOpen
  PROVE  Counters'
  <1>1. /\ s2c[c] # << >> /\ \A d \in Conns : d # c => s2c'[d] = s2c[d]
        /\ \A i \in DOMAIN s2c'[c] : \E j \in DOMAIN s2c[c] : s2c'[c][i] = s2c[c][j]
    BY ClientRead DEF Control
  <1>2. spc[c] \notin Fresh
    BY <1>1 DEF Control, NetInv
  <1>3. Wire(c)'
    BY WirePopped DEF Counters, StreamInv, Control, GotGrows, slotVars, outVars, serverVars
  <1>4. \A i \in DOMAIN c2s'[c] : \/ \E j \in DOMAIN c2s[c] : c2s'[c][i] = c2s[c][j]
                                  \/ ReportOk(c, c2s'[c][i])
    BY DEF ReportOk, ChannelOpen
  <1> QED
    BY <1>1, <1>2, <1>3, <1>4, ClientCounters

(* The first chunk on the wire is one the client has, or the one after:    *)
(* what precedes it was received, for nothing before it can cover it.      *)
LEMMA FirstChunk ==
  ASSUME Control, Counters, NEW c \in Conns, c = conn, ClientReads("PtyData")
  PROVE  /\ Head(s2c[c]) \in Frames /\ Head(s2c[c]).type = "PtyData" /\ Head(s2c[c]) = s2c[c][1]
         /\ sess[c] \in Conns /\ Head(s2c[c]).sess = sess[c] /\ 1 \in Data(c)
         /\ Head(s2c[c]).seq \in Nat /\ Head(s2c[c]).seq < next[sess[c]]
         /\ Head(s2c[c]).seq <= got[sess[c]]
  <1>1. /\ Head(s2c[c]) \in Frames /\ Head(s2c[c]).type = "PtyData" /\ Head(s2c[c]) = s2c[c][1]
        /\ 1 \in DOMAIN s2c[c]
    BY ClientRead DEF Control
  <1>2. 1 \in Data(c) /\ Number(c, 1) = Head(s2c[c]).seq /\ Number(c, 1) \in Nat
    BY <1>1, Fields DEF Data, Sent, Number
  <1>3. /\ sess[c] \in Conns /\ s2c[c][1].sess = sess[c] /\ Number(c, 1) < next[sess[c]]
        /\ Covered(c, Number(c, 1))
        /\ \A j \in Data(c) : 1 < j => Number(c, 1) < Number(c, j)
    BY <1>2 DEF Counters, StreamInv, Wire, DataNumbers
  <1>4. \A i \in Data(c) : Number(c, i) + 1 # Number(c, 1)
    <2> TAKE i \in Data(c)
    <2>1. i \in Nat /\ i >= 1 /\ Number(c, i) \in Nat
      <3>1. s2c[c] \in Seq(Frames) /\ i \in DOMAIN s2c[c] /\ Number(c, i) \in Nat
        BY WireTypes DEF Control, TypeOK
      <3> QED
        BY <3>1
    <2>2. CASE i = 1
      BY <1>2, <2>2
    <2>3. CASE i # 1
      <3>1. 1 < i
        BY <2>1, <2>3
      <3>2. Number(c, 1) < Number(c, i)
        BY <1>3, <3>1
      <3> QED
        BY <1>2, <2>1, <3>2
    <2> QED
      BY <2>2, <2>3
  <1>5. Oks(c) = {}
    <2> SUFFICES ASSUME NEW i \in Oks(c) PROVE FALSE
      OBVIOUS
    <2>1. i < 1
      BY <1>2 DEF Counters, StreamInv, Wire, OkNumbers
    <2>2. i \in Nat /\ i >= 1
      <3>1. s2c[c] \in Seq(Frames) /\ i \in DOMAIN s2c[c]
        BY WireTypes DEF Control, TypeOK
      <3> QED
        BY <3>1
    <2> QED
      BY <2>1, <2>2
  <1>6. Number(c, 1) <= got[sess[c]]
    BY <1>3, <1>4, <1>5 DEF Covered
  <1> QED
    BY <1>1, <1>2, <1>3, <1>6

(* So reading a chunk moves what the client has by one, or not at all.     *)
LEMMA ChunkRead ==
  ASSUME Control, Counters, NEW c \in Conns, c = conn, ClientReads("PtyData"),
         got' = Received(Head(s2c[conn]))
  PROVE  /\ GotGrows /\ TakesNote(c) /\ \A s \in Conns : got'[s] <= next[s]
         /\ \A s \in Conns : got'[s] = got[s] \/ got'[s] = got[s] + 1
         /\ got'[sess[c]] >= Head(s2c[c]).seq + 1
  <1>1. PICK m \in Frames :
          /\ m = Head(s2c[c]) /\ m = s2c[c][1] /\ m.type = "PtyData" /\ m.sess = sess[c]
          /\ sess[c] \in Conns /\ m.seq \in Nat /\ m.seq < next[sess[c]] /\ m.seq <= got[sess[c]]
    BY FirstChunk
  <1>2. \A s \in Conns : got'[s] = IF s = sess[c] /\ m.seq >= got[s] THEN m.seq + 1 ELSE got[s]
    BY <1>1, ReceivedFacts DEF Control
  <1>3. \A s \in Conns : got[s] \in Nat /\ next[s] \in Nat /\ got[s] <= next[s]
    BY NumberTypes DEF Control, Counters, ReplayInv
  <1>4. \A s \in Conns : /\ got'[s] \in Nat /\ got[s] <= got'[s] /\ got'[s] <= next[s]
                         /\ got'[s] = got[s] \/ got'[s] = got[s] + 1
    <2> TAKE s \in Conns
    <2>1. CASE s = sess[c] /\ m.seq >= got[s]
      <3>1. got'[s] = m.seq + 1 /\ m.seq = got[s] /\ m.seq < next[s]
        BY <1>1, <1>2, <1>3, <2>1
      <3> QED
        BY <1>1, <1>3, <3>1
    <2>2. CASE ~(s = sess[c] /\ m.seq >= got[s])
      <3>1. got'[s] = got[s]
        BY <1>2, <2>2
      <3> QED
        BY <1>3, <3>1
    <2> QED
      BY <2>1, <2>2
  <1>5. got'[sess[c]] >= m.seq + 1
    BY <1>1, <1>2, <1>3
  <1>6. m.seq + 1 <= got'[sess[c]]
    BY <1>1, <1>4, <1>5
  <1>7. TakesNote(c)
    BY <1>1, <1>6 DEF TakesNote, Number
  <1> QED
    BY <1>1, <1>3, <1>4, <1>5, <1>7 DEF GotGrows

(* SkipChunk and RecvChunk.                                                *)
LEMMA ChunkReadCounters ==
  ASSUME Control, Control', TokenMoves, Counters, SkipChunk \/ RecvChunk
  PROVE  Counters'
  <1>1. PICK c \in Conns : c = conn
    BY DEF SkipChunk, RecvChunk, Control, NetInv, Attaching
  <1>2. /\ ClientReads("PtyData") /\ got' = Received(Head(s2c[conn])) /\ cpc \in Pumping
        /\ UNCHANGED <<slotVars, serverVars, up, c2s, cpc, conn, token>>
        /\ highest_applied' \in {highest_applied, highest_applied + 1}
    BY DEF SkipChunk, RecvChunk, Pumping
  <1>3. /\ GotGrows /\ TakesNote(c) /\ (\A s \in Conns : got'[s] <= next[s])
        /\ got'[sess[c]] >= Head(s2c[c]).seq + 1
    BY <1>1, <1>2, ChunkRead
  <1>4. /\ sess[c] \in Conns /\ Head(s2c[c]).seq \in Nat /\ 1 \in Data(c)
        /\ Number(c, 1) = Head(s2c[c]).seq
    BY <1>1, <1>2, FirstChunk DEF Number
  <1>5. Behind(c) /\ sess' = sess /\ spc' = spc /\ next' = next /\ cursor' = cursor
    BY <1>1, <1>2 DEF Counters, CountInv, serverVars, slotVars, outVars
  <1>6. highest_applied \in Nat /\ highest_applied <= Number(c, 1)
    BY <1>4, <1>5, NumberTypes DEF Behind, Control
  <1>7. highest_applied' \in Nat /\ highest_applied' <= Head(s2c[c]).seq + 1
    BY <1>2, <1>4, <1>6
  <1>8. Behind(c)'
    <2>1. ASSUME NEW i \in Data(c)' PROVE highest_applied' <= Number(c, i)'
      <3>1. i + 1 \in Data(c) /\ Number(c, i)' = Number(c, i + 1) /\ i \in Nat /\ i # 0
        <4>1. s2c'[c] \in Seq(Frames) /\ i \in DOMAIN s2c'[c]
          BY DEF Control, TypeOK, Data, Sent
        <4>2. i # 0
          BY <4>1
        <4> QED
          BY <1>1, <1>2, <4>2, PoppedNumbers DEF Control
      <3>2. 1 < i + 1 /\ Number(c, i + 1) \in Nat
        BY <3>1, WireTypes DEF Control
      <3>3. Number(c, 1) < Number(c, i + 1)
        BY <1>4, <3>1, <3>2 DEF Counters, StreamInv, Wire, DataNumbers
      <3> QED
        BY <1>4, <1>7, <3>1, <3>2, <3>3
    <2>2. spc'[c] \in Writing => highest_applied' <= Position(c)'
      <3> SUFFICES ASSUME spc[c] \in Writing PROVE highest_applied' <= Position(c)'
        BY <1>5
      <3>1. Position(c)' = Position(c) /\ Position(c) \in Nat
        BY <1>4, <1>5, NumberTypes DEF Position, Control
      <3>2. Number(c, 1) < Position(c)
        BY <1>4 DEF Counters, StreamInv, Wire, DataNumbers
      <3> QED
        BY <1>4, <1>7, <3>1, <3>2
    <2> QED
      BY <2>1, <2>2 DEF Behind
  <1>9. HoldInv'
    <2>1. PICK s \in Conns : Bound(token, s) /\ s = sess[conn] /\ token # NoToken
      BY <1>2 DEF Counters, HoldInv
    <2>2. BoundNext(token, s)
      BY <2>1, BoundKept DEF Control, TypeOK
    <2>3. highest_applied' <= got'[s]
      BY <1>1, <1>3, <1>4, <1>7, <2>1 DEF GotGrows
    <2> QED
      BY <1>2, <1>5, <2>1, <2>2, <2>3, HoldNext
  <1> QED
    BY <1>1, <1>2, <1>3, <1>4, <1>8, <1>9, ReadCounters

(* Nothing received: what the client has stays.                            *)
LEMMA GotStays ==
  ASSUME Control, Counters, got' = got
  PROVE  GotGrows /\ \A s \in Conns : got'[s] <= next[s]
  <1>1. \A s \in Conns : got[s] \in Nat /\ got[s] <= got[s]
    BY NumberTypes DEF Control
  <1> QED
    BY <1>1 DEF GotGrows, Counters, ReplayInv

(* SessionOpened: the client counts from zero.                             *)
LEMMA RecvOpenedCounters ==
  ASSUME Control, Control', TokenMoves, Counters, RecvOpened
  PROVE  Counters'
  <1>1. PICK c \in Conns : c = conn
    BY DEF RecvOpened, Control, NetInv, Attaching
  <1>2. /\ ClientReads("SessionOpened") /\ StartPump(0)
        /\ UNCHANGED <<slotVars, serverVars, up, conn, got>> /\ sess' = sess
    BY DEF RecvOpened, serverVars
  <1>3. /\ Head(s2c[c]) \in Frames /\ Head(s2c[c]).type = "SessionOpened"
        /\ Head(s2c[c]) = s2c[c][1] /\ 1 \in DOMAIN s2c[c]
    BY <1>1, <1>2, ClientRead DEF Control
  <1>4. /\ highest_applied' = 0 /\ cpc' = "channel" /\ token' = Head(s2c[c]).token
        /\ \A d \in Conns : d # c => c2s'[d] = c2s[d]
        /\ \A i \in DOMAIN c2s'[c] : \/ \E j \in DOMAIN c2s[c] : c2s'[c][i] = c2s[c][j]
                                     \/ c2s'[c][i] = ChannelOpen
    BY <1>1, <1>2, <1>3, StartPumpFacts DEF Control
  <1>5. PICK t \in Nat : t = Head(s2c[c]).token /\ sess[c] \in Conns /\ Bound(t, sess[c])
    BY <1>3, Fields DEF Counters, AnswerInv
  <1>6. BoundNext(t, sess[c]) /\ t # NoToken
    BY <1>5, BoundKept DEF Bound
  <1>7. HoldInv'
    <2>1. 0 <= got'[sess[c]]
      BY <1>2, <1>5, NumberTypes DEF Control
    <2> QED
      BY <1>1, <1>2, <1>4, <1>5, <1>6, <2>1, HoldNext
  <1>8. Behind(c)'
    <2>1. \A i \in Data(c)' : Number(c, i)' \in Nat
      <3>1. \A i \in Data(c)' : i + 1 \in Data(c) /\ Number(c, i)' = Number(c, i + 1)
        BY <1>1, <1>2, PoppedNumbers DEF Control
      <3> QED
        BY <3>1, WireTypes DEF Control
    <2>2. Position(c)' = Position(c) /\ Position(c) \in Nat
      BY <1>2, <1>5, NumberTypes DEF Position, serverVars, slotVars, outVars, Control
    <2> QED
      BY <1>4, <2>1, <2>2 DEF Behind
  <1>9. TakesNote(c)
    BY <1>3 DEF TakesNote
  <1> QED
    BY <1>1, <1>2, <1>4, <1>5, <1>7, <1>8, <1>9, GotStays, ReadCounters

(* ReattachOk: the client counts from the number announced, which it has   *)
(* reached or is told to jump to.                                          *)
LEMMA RecvReattachOkCounters ==
  ASSUME Control, Control', TokenMoves, Counters, RecvReattachOk
  PROVE  Counters'
  <1>1. PICK c \in Conns : c = conn
    BY DEF RecvReattachOk, Control, NetInv, Attaching
  <1>2. /\ ClientReads("ReattachOk") /\ StartPump(Head(s2c[c]).seq)
        /\ UNCHANGED <<slotVars, serverVars, up, conn>> /\ sess' = sess
    BY <1>1 DEF RecvReattachOk, serverVars
  <1>3. /\ Head(s2c[c]) \in Frames /\ Head(s2c[c]).type = "ReattachOk"
        /\ Head(s2c[c]) = s2c[c][1] /\ 1 \in DOMAIN s2c[c]
    BY <1>1, <1>2, ClientRead DEF Control
  <1>4. PICK m \in Frames : m = s2c[c][1] /\ m = Head(s2c[c]) /\ m.seq \in Nat
                            /\ m.token \in Nat /\ m.truncated \in BOOLEAN
    BY <1>3, Fields
  <1>5. /\ highest_applied' = m.seq /\ cpc' = "channel" /\ token' = m.token
        /\ \A d \in Conns : d # c => c2s'[d] = c2s[d]
        /\ \A i \in DOMAIN c2s'[c] : \/ \E j \in DOMAIN c2s[c] : c2s'[c][i] = c2s[c][j]
                                     \/ c2s'[c][i] = ChannelOpen
    BY <1>1, <1>2, <1>3, <1>4, StartPumpFacts DEF Control
  <1>6. sess[c] \in Conns /\ Bound(m.token, sess[c])
    BY <1>3, <1>4 DEF Counters, AnswerInv
  <1>7. BoundNext(m.token, sess[c]) /\ m.token # NoToken
    BY <1>4, <1>6, BoundKept DEF Bound
  <1>8. 1 \in Oks(c) /\ Number(c, 1) = m.seq
    BY <1>3, <1>4 DEF Oks, Sent, Number
  <1>9. /\ m.seq <= next[sess[c]] /\ (m.truncated \/ m.seq <= got[sess[c]])
        /\ spc[c] \in Writing => m.seq <= Position(c)
        /\ \A j \in Data(c) : m.seq <= Number(c, j)
    BY <1>4, <1>8 DEF Counters, StreamInv, Wire, OkNumbers
  <1>10. \A s \in Conns : got[s] \in Nat /\ next[s] \in Nat /\ got[s] <= next[s]
    BY NumberTypes DEF Control, Counters, ReplayInv
  <1>11. got' = IF m.truncated /\ m.seq > got[sess[c]] THEN [got EXCEPT ![sess[c]] = m.seq] ELSE got
    BY <1>1, <1>4 DEF RecvReattachOk
  <1>12. \A s \in Conns : got'[s] = IF s = sess[c] /\ m.truncated /\ m.seq > got[s]
                                   THEN m.seq ELSE got[s]
    <2>1. got \in [Conns -> Nat]
      BY DEF Control, TypeOK
    <2> QED
      BY <1>6, <1>11, <2>1
  <1>13. \A s \in Conns : got'[s] \in Nat /\ got[s] <= got'[s] /\ got'[s] <= next[s]
    BY <1>4, <1>9, <1>10, <1>12
  <1>14. m.seq <= got'[sess[c]]
    BY <1>4, <1>6, <1>9, <1>10, <1>12
  <1>15. GotGrows /\ TakesNote(c)
    BY <1>3, <1>4, <1>10, <1>13, <1>14 DEF GotGrows, TakesNote, Number
  <1>16. HoldInv'
    BY <1>1, <1>2, <1>5, <1>6, <1>7, <1>14, HoldNext
  <1>17. Behind(c)'
    <2>1. \A i \in Data(c)' : m.seq <= Number(c, i)'
      <3>1. \A i \in Data(c)' : i + 1 \in Data(c) /\ Number(c, i)' = Number(c, i + 1)
        BY <1>1, <1>2, PoppedNumbers DEF Control
      <3> QED
        BY <1>9, <3>1
    <2>2. Position(c)' = Position(c) /\ spc' = spc
      BY <1>2 DEF Position, serverVars, slotVars, outVars
    <2> QED
      BY <1>5, <1>9, <2>1, <2>2 DEF Behind
  <1> QED
    BY <1>1, <1>2, <1>5, <1>6, <1>13, <1>15, <1>16, <1>17, ReadCounters

(* The scrollback channel is open, or will not be: the pump runs.          *)
LEMMA ChannelSettledCounters ==
  ASSUME Control, Control', TokenMoves, Counters, ChannelSettled
  PROVE  Counters'
  <1>1. PICK c \in Conns : c = conn
    BY DEF ChannelSettled, Control, NetInv, Attaching
  <1>2. /\ cpc \in Pumping /\ cpc' \in Pumping
        /\ UNCHANGED <<slotVars, serverVars, up, c2s, conn, token, highest_applied, got>>
    BY DEF ChannelSettled, Pumping
  <1>3. UNCHANGED <<spc, sess, cursor, next>>
    BY <1>2 DEF serverVars, slotVars, outVars
  <1>4. sess[c] \in Conns /\ spc[c] \notin Fresh /\ Behind(c)
    BY <1>1, <1>2 DEF Counters, CountInv
  <1>5. HoldInv'
    BY <1>2, <1>3, GotStays, HoldKept DEF Counters
  <1>6. ASSUME NEW kind \in {"ChannelAccept", "SessionClose"}, ClientReads(kind)
        PROVE  Counters'
    <2>1. s2c[c][1].type = kind
      BY <1>1, <1>6, ClientRead DEF Control
    <2>2. TakesNote(c)
      BY <2>1 DEF TakesNote
    <2>3. Behind(c)'
      <3>1. \A i \in Data(c)' : i + 1 \in Data(c) /\ Number(c, i)' = Number(c, i + 1)
        BY <1>1, <1>6, PoppedNumbers DEF Control
      <3>2. Position(c)' = Position(c)
        BY <1>3 DEF Position
      <3> QED
        BY <1>2, <1>3, <1>4, <3>1, <3>2 DEF Behind
    <2> QED
      BY <1>1, <1>2, <1>4, <1>5, <1>6, <2>2, <2>3, GotStays, ReadCounters
  <1>7. CASE s2c' = s2c
    <2>1. Wire(c)' /\ Behind(c)'
      BY <1>2, <1>3, <1>4, <1>7
         DEF Counters, StreamInv, Wire, OkNumbers, DataNumbers, Covered, Behind, Data, Oks, Sent,
             Number, Position
    <2> QED
      BY <1>1, <1>2, <1>4, <1>5, <1>7, <2>1, GotStays, ClientCounters
  <1> QED
    BY <1>6, <1>7 DEF ChannelSettled

(* An Ack reports the counter.                                             *)
LEMMA AckCounters ==
  ASSUME Control, Control', TokenMoves, Counters, AckTick
  PROVE  Counters'
  <1>1. PICK c \in Conns : c = conn
    BY DEF AckTick, Control, NetInv, Attaching
  <1>2. /\ cpc \in Pumping /\ ClientWrites(AckMsg(highest_applied))
        /\ UNCHANGED <<slotVars, serverVars, up, s2c, cpc, conn, token, highest_applied, got>>
    BY DEF AckTick, Pumping
  <1>3. UNCHANGED <<spc, sess, cursor, next>>
    BY <1>2 DEF serverVars, slotVars, outVars
  <1>4. sess[c] \in Conns /\ spc[c] \notin Fresh /\ Behind(c) /\ highest_applied <= got[sess[c]]
    BY <1>1, <1>2 DEF Counters, CountInv, HoldInv
  <1>5. HoldInv'
    BY <1>2, <1>3, GotStays, HoldKept DEF Counters
  <1>6. AckMsg(highest_applied) \in Frames
    BY Messages, NumberTypes DEF Control
  <1>7. /\ \A d \in Conns : d # c => c2s'[d] = c2s[d]
        /\ \A i \in DOMAIN c2s'[c] : \/ \E j \in DOMAIN c2s[c] : c2s'[c][i] = c2s[c][j]
                                     \/ c2s'[c][i] = AckMsg(highest_applied)
    BY <1>1, <1>2, <1>6, ClientWritten DEF Control
  <1>8. ReportOk(c, AckMsg(highest_applied))
    BY <1>2, <1>3, <1>4 DEF ReportOk, AckMsg
  <1>9. Wire(c)' /\ Behind(c)'
    BY <1>2, <1>3, <1>4
       DEF Counters, StreamInv, Wire, OkNumbers, DataNumbers, Covered, Behind, Data, Oks, Sent,
           Number, Position
  <1> QED
    BY <1>1, <1>2, <1>4, <1>5, <1>7, <1>8, <1>9, GotStays, ClientCounters

(* Every step preserves the numbers.                                       *)
LEMMA NextCounters == Control /\ Control' /\ Tokens /\ Counters /\ [Next]_vars => Counters'
  <1> SUFFICES ASSUME Control, Control', Tokens, Counters, [Next]_vars PROVE Counters'
    OBVIOUS
  <1>1. TokenMoves
    BY EveryStepMovesTokens DEF Tokens
  <1>2. CASE UNCHANGED vars
    BY <1>2 DEF vars, slotVars, outVars, serverVars, tokenVars, clientVars, Counters, StreamInv,
                Wire, OkNumbers, DataNumbers, Covered, Behind, Data, Oks, Sent, Number, Position,
                CountInv, HoldInv, ReportInv, AnswerInv, ReplayInv, TrimmedWasReceived, Bound
  <1>3. ASSUME NEW c \in Conns,
               HandlerStep(c) \/ PtyRead(c) \/ ShellExits(c) \/ ConnectionLost(c) \/ OrphanEnds(c)
        PROVE  Counters'
    BY <1>1, <1>3, OpenSessionCounters, SendOpenedCounters, EndsCounters, AcceptReattachCounters,
       SendReattachOkCounters, PausesCounters, ReplayCounters, PumpCounters DEF HandlerStep
  <1>4. CASE RecvReattachErr \/ RecvClose \/ ClientDrops \/ UserQuits
    <2>1. conn \in Conns
      BY <1>4 DEF RecvReattachErr, RecvClose, ClientDrops, UserQuits, Control, NetInv, Attaching
    <2>2. PICK l \in {"idle", "ended", "quit"} :
             /\ ClientLeaves(l) /\ token' \in {token, NoToken}
             /\ UNCHANGED <<slotVars, serverVars, c2s, conn, highest_applied, last_acked, got>>
      BY <1>4 DEF RecvReattachErr, RecvClose, ClientDrops, UserQuits
    <2> QED
      BY <1>1, <2>1, <2>2, LeavesCounters
  <1>5. CASE RecvOpened \/ RecvReattachOk \/ SkipChunk \/ RecvChunk \/ ChannelSettled
             \/ AckTick \/ Connect
    BY <1>1, <1>5, RecvOpenedCounters, RecvReattachOkCounters, ChunkReadCounters,
       ChannelSettledCounters, AckCounters, ConnectCounters
  <1> QED
    BY <1>2, <1>3, <1>4, <1>5 DEF Next, ClientStep

(* In the initial state nothing is sent or counted.                        *)
LEMMA InitCounters == Init => Counters
  <1> SUFFICES ASSUME Init PROVE Counters
    OBVIOUS
  <1>1. \A c \in Conns : Data(c) = {} /\ Oks(c) = {} /\ spc[c] \notin Writing
    BY DEF Init, Data, Oks, Sent, Writing
  <1>2. StreamInv
    BY <1>1 DEF StreamInv, Wire, OkNumbers, DataNumbers
  <1>3. CountInv /\ HoldInv /\ ReplayInv /\ TrimmedWasReceived
    BY DEF Init, CountInv, HoldInv, ReplayInv, TrimmedWasReceived, Pumping
  <1>4. ReportInv /\ AnswerInv
    BY DEF Init, ReportInv, AnswerInv
  <1> QED
    BY <1>2, <1>3, <1>4 DEF Counters
-----------------------------------------------------------------------------
(* The inductive invariant holds in every reachable state, for any number  *)
(* of connections, chunks and pending chunks.                              *)
THEOREM Invariance == Spec => []IInv
  <1>1. IInv <=> Control /\ Tokens /\ Counters
    BY DEF IInv, Control, Tokens, Counters
  <1>2. Init => Control /\ Tokens /\ Counters
    BY InitControl, InitTokens, InitCounters
  <1>3. Control /\ Tokens /\ Counters /\ [Next]_vars => (Control /\ Tokens /\ Counters)'
    BY NextControl, NextTokens, NextCounters
  <1>4. Spec => [](Control /\ Tokens /\ Counters)
    BY <1>2, <1>3, PTL DEF Spec
  <1> QED
    BY <1>1, <1>4, PTL

(* The counter the client reports never runs ahead of the output that      *)
(* reached it: StartPump takes it from an answer, RecvChunk adds one per   *)
(* chunk, SkipChunk drops chunks uncounted, and every connection may be    *)
(* lost on the way.                                                        *)
THEOREM Counter == Spec => []CounterNeverAhead
  <1>1. IInv => CounterNeverAhead
    <2> SUFFICES ASSUME IInv, cpc \in Pumping PROVE highest_applied <= got[Attached]
      BY DEF CounterNeverAhead, Pumping
    <2>1. highest_applied <= got[sess[conn]]
      BY DEF IInv, HoldInv
    <2>2. conn \in Conns /\ NoConn \notin Conns
      BY DEF IInv, NetInv, Pumping, Attaching, Conns, NoConn
    <2> QED
      BY <2>1, <2>2 DEF Attached
  <1> QED
    BY <1>1, Invariance, PTL

(* Output a slot no longer holds has reached the client, unless the byte   *)
(* cap dropped it: PumpAck trims only what an Ack reports.                 *)
THEOREM Trimmed == Spec => []TrimmedWasReceived
  <1>1. IInv => TrimmedWasReceived
    BY DEF IInv
  <1> QED
    BY <1>1, Invariance, PTL

(* D-09: no step skips a chunk in silence.  What the client has of a       *)
(* session grows by one chunk at a time, except when a ReattachOk says     *)
(* what was lost (SkipChunk, RecvChunk, RecvReattachOk).                   *)
THEOREM NoGap == Spec => NoSilentGap
  <1> DEFINE Gapless == \A s \in Conns :
                          got'[s] # got[s] =>
                            \/ got'[s] = got[s] + 1
                            \/ Head(s2c[conn]).type = "ReattachOk"
  <1>1. IInv /\ [Next]_vars => [Gapless]_vars
    <2> SUFFICES ASSUME IInv, Next PROVE Gapless
      OBVIOUS
    <2>1. Control /\ Counters
      BY DEF IInv, Control, Counters
    <2>2. CASE UNCHANGED got
      BY <2>2
    <2>3. CASE SkipChunk \/ RecvChunk
      <3>1. PICK c \in Conns : c = conn
        BY <2>1, <2>3 DEF SkipChunk, RecvChunk, Control, NetInv, Attaching
      <3>2. ClientReads("PtyData") /\ got' = Received(Head(s2c[conn]))
        BY <2>3 DEF SkipChunk, RecvChunk
      <3> QED
        BY <2>1, <3>1, <3>2, ChunkRead
    <2>4. CASE RecvReattachOk
      BY <2>4 DEF RecvReattachOk, ClientReads, ClientSees
    <2>5. ASSUME NEW c \in Conns,
                 HandlerStep(c) \/ PtyRead(c) \/ ShellExits(c) \/ ConnectionLost(c) \/ OrphanEnds(c)
          PROVE  UNCHANGED got
      BY <2>5 DEF HandlerStep, OpenSession, SendOpened, OpenedFails, AcceptReattach,
                  RejectReattach, SendReattachOk, CommitToken, ReplayChunk, Rebind, ReOrphan,
                  PumpOutput, PumpAck, PumpChannelOpen, PumpFails, Orphan, PtyRead, ShellExits,
                  ConnectionLost, OrphanEnds, clientVars
    <2>6. CASE RecvOpened \/ RecvReattachErr \/ ChannelSettled \/ RecvClose \/ ClientDrops
               \/ AckTick \/ Connect \/ UserQuits
      BY <2>2, <2>6 DEF RecvOpened, RecvReattachErr, ChannelSettled, RecvClose, ClientDrops,
                        AckTick, Connect, UserQuits
    <2> QED
      BY <2>2, <2>3, <2>4, <2>5, <2>6 DEF Next, ClientStep
  <1>2. NoSilentGap <=> [][Gapless]_vars
    BY DEF NoSilentGap
  <1> HIDE DEF Gapless
  <1> QED
    BY <1>1, <1>2, Invariance, PTL DEF Spec
=============================================================================
