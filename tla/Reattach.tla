------------------------------ MODULE Reattach ------------------------------
(***************************************************************************)
(* Cold reattach end to end: the client's reconnect supervisor (main.rs    *)
(* and client.rs of nosh-client) against the handlers of nosh-server       *)
(* (server.rs), over connections that can be lost at any moment.           *)
(*                                                                         *)
(* Connections are numbered in the order the client makes them; a session  *)
(* carries the number of the connection that opened it.  A connection is   *)
(* one reliable stream in each direction.  When it is lost, what one side  *)
(* wrote and the other has not read may or may not still be read, what is  *)
(* written from then on never arrives, and each side notices in its own    *)
(* time: a write that only fills the local send buffer succeeds.           *)
(*                                                                         *)
(* The output a slot retains is the window low .. next - 1 of ReplayWindow *)
(* (which OutputBuffer implements); PtyData frames carry their session and *)
(* sequence number as auxiliary fields no step of the client looks at.     *)
(* Several clients, the cap and the reaper are in SessionRegistry: here an *)
(* orphaned session may end at any moment.                                 *)
(***************************************************************************)
EXTENDS Naturals, Sequences, Functions

CONSTANTS
  MaxConns,    \* bound: connections the client makes
  MaxChunks,   \* bound: chunks the shells write
  OutCap       \* chunks between the PTY and the pump: channel and reader

ASSUME ReattachAssumption ==
  /\ MaxConns \in Nat
  /\ MaxChunks \in Nat
  /\ OutCap \in Nat

Conns   == 1 .. MaxConns
NoToken == 0
NoConn  == 0

VARIABLES
  \* The slots of the server's sessions.
  state,       \* SlotState, "None" before and "Gone" after its life
  live,        \* the token that reattaches the session
  low, next,   \* the retained output is low .. next - 1
  overflowed,  \* whether the byte cap dropped output
  pending,     \* chunks read from the PTY and not yet pushed
  \* The server's connection handlers.
  spc,         \* where the handler of a connection is
  sess,        \* the session it serves
  cand,        \* the token candidate it minted
  cursor,      \* the next chunk it has to replay
  minted,      \* tokens minted so far, over all handlers
  \* The network.
  up,          \* connections that are not lost
  s2c, c2s,    \* frames written and not yet read
  \* The client.
  cpc,         \* where the client is
  conn,        \* its latest connection
  token,       \* its reattach token
  highest_applied,  \* its count of output chunks, sent with Reattach and Ack
  last_acked,  \* the count it last sent in an Ack
  \* Auxiliary.
  produced,    \* chunks the reader took from the PTY, towards MaxChunks
  offered,     \* tokens the server wrote to a connection
  got          \* chunks below this number have reached the client

outVars    == <<low, next, overflowed, pending, produced>>
slotVars   == <<state, live, outVars>>
tokenVars  == <<minted, offered>>
serverVars == <<spc, sess, cand, cursor, tokenVars>>
clientVars == <<cpc, conn, token, highest_applied, last_acked, got>>
vars == <<slotVars, serverVars, up, s2c, c2s, clientVars>>

SessionOpen         == [type |-> "SessionOpen"]
ReattachMsg(t, n)   == [type |-> "Reattach", token |-> t, seq |-> n]
AckMsg(n)           == [type |-> "Ack", seq |-> n]
ChannelOpen         == [type |-> "ChannelOpen"]
SessionOpened(t)    == [type |-> "SessionOpened", token |-> t]
ReattachOk(t, n, b) == [type |-> "ReattachOk", token |-> t, seq |-> n, truncated |-> b]
ReattachErr         == [type |-> "ReattachErr"]
PtyData(s, n)       == [type |-> "PtyData", sess |-> s, seq |-> n]
ChannelAccept       == [type |-> "ChannelAccept"]
SessionClose        == [type |-> "SessionClose"]

Init ==
  /\ state = [s \in Conns |-> "None"]
  /\ live = [s \in Conns |-> NoToken]
  /\ low = [s \in Conns |-> 0]
  /\ next = [s \in Conns |-> 0]
  /\ overflowed = [s \in Conns |-> FALSE]
  /\ pending = [s \in Conns |-> 0]
  /\ produced = [s \in Conns |-> 0]
  /\ spc = [c \in Conns |-> "accepting"]
  /\ sess = [c \in Conns |-> NoConn]
  /\ cand = [c \in Conns |-> NoToken]
  /\ cursor = [c \in Conns |-> 0]
  /\ minted = 0
  /\ offered = {}
  /\ up = {}
  /\ s2c = [c \in Conns |-> << >>]
  /\ c2s = [c \in Conns |-> << >>]
  /\ cpc = "idle"
  /\ conn = NoConn
  /\ token = NoToken
  /\ highest_applied = 0
  /\ last_acked = 0
  /\ got = [s \in Conns |-> 0]
-----------------------------------------------------------------------------
(* The network.  A write succeeds locally, whether the frame will arrive   *)
(* or not; a read or a write can fail only once the connection is lost.    *)
ServerWrites(c, m) == s2c' = IF c \in up THEN [s2c EXCEPT ![c] = Append(@, m)] ELSE s2c
ClientWrites(m) == c2s' = IF conn \in up THEN [c2s EXCEPT ![conn] = Append(@, m)] ELSE c2s

ServerSees(c, kind) == c2s[c] # << >> /\ Head(c2s[c]).type = kind
ServerReads(c, kind) == ServerSees(c, kind) /\ c2s' = [c2s EXCEPT ![c] = Tail(@)]

ClientSees(kind) == s2c[conn] # << >> /\ Head(s2c[conn]).type = kind
ClientReads(kind) == ClientSees(kind) /\ s2c' = [s2c EXCEPT ![conn] = Tail(@)]

ConnectionLost(c) ==
  /\ c \in up
  /\ up' = up \ {c}
  /\ UNCHANGED <<slotVars, serverVars, s2c, c2s, clientVars>>

Goto(c, label) == spc' = [spc EXCEPT ![c] = label]

(* The handler returns and drops the connection, unread frames included.   *)
HandlerReturns(c) ==
  /\ Goto(c, "done")
  /\ up' = up \ {c}
  /\ c2s' = [c2s EXCEPT ![c] = << >>]
  /\ cand' = [cand EXCEPT ![c] = NoToken]
  /\ cursor' = [cursor EXCEPT ![c] = 0]

(* The client closes its connection, unread frames included.               *)
ClientLeaves(label) ==
  /\ cpc' = label
  /\ up' = up \ {conn}
  /\ s2c' = [s2c EXCEPT ![conn] = << >>]
-----------------------------------------------------------------------------
(* handle_connection and run_session: spawn a shell, register its slot.    *)
OpenSession(c) ==
  /\ spc[c] = "accepting"
  /\ ServerReads(c, "SessionOpen")
  /\ minted' = minted + 1
  /\ state' = [state EXCEPT ![c] = "Active"]
  /\ live' = [live EXCEPT ![c] = minted']
  /\ sess' = [sess EXCEPT ![c] = c]
  /\ Goto(c, "opening")
  /\ UNCHANGED <<outVars, cand, cursor, offered, up, s2c, clientVars>>

SendOpenedUnwritten(c) ==
  /\ spc[c] = "opening"
  /\ offered' = offered \cup {live[c]}
  /\ Goto(c, "pump")
  /\ UNCHANGED <<slotVars, sess, cand, cursor, minted, up, s2c, c2s, clientVars>>

SendOpened(c) ==
  /\ spc[c] = "opening"
  /\ ServerWrites(c, SessionOpened(live[c]))
  /\ offered' = offered \cup {live[c]}
  /\ Goto(c, "pump")
  /\ UNCHANGED <<slotVars, sess, cand, cursor, minted, up, c2s, clientVars>>

(* SessionOpened could not be written: the slot is removed.                *)
OpenedFails(c) ==
  /\ spc[c] = "opening"
  /\ c \notin up
  /\ state' = [state EXCEPT ![c] = "Gone"]
  /\ HandlerReturns(c)
  /\ UNCHANGED <<live, outVars, sess, tokenVars, s2c, clientVars>>

Matches(t) == {s \in Conns : live[s] = t /\ state[s] = "Orphaned"}

(* Mutant: the token is rotated when the Reattach is accepted.             *)
AcceptAndRotate(c) ==
  /\ spc[c] = "accepting"
  /\ ServerReads(c, "Reattach")
  /\ minted' = minted + 1
  /\ \E s \in Matches(Head(c2s[c]).token) :
       /\ state' = [state EXCEPT ![s] = "Reconnecting"]
       /\ live' = [live EXCEPT ![s] = minted']
       /\ sess' = [sess EXCEPT ![c] = s]
  /\ cursor' = [cursor EXCEPT ![c] = Head(c2s[c]).seq]
  /\ Goto(c, "granting")
  /\ UNCHANGED <<outVars, cand, offered, up, s2c, clientVars>>

(* run_reattach_session, step 1: the token selects an Orphaned session.    *)
AcceptReattach(c) ==
  /\ spc[c] = "accepting"
  /\ ServerReads(c, "Reattach")
  /\ \E s \in Matches(Head(c2s[c]).token) :
       /\ state' = [state EXCEPT ![s] = "Reconnecting"]
       /\ sess' = [sess EXCEPT ![c] = s]
  /\ cursor' = [cursor EXCEPT ![c] = Head(c2s[c]).seq]
  /\ Goto(c, "granting")
  /\ UNCHANGED <<live, outVars, cand, tokenVars, up, s2c, clientVars>>

(* Every other Reattach gets the same ReattachErr and loses its connection. *)
RejectReattach(c) ==
  /\ spc[c] = "accepting"
  /\ ServerSees(c, "Reattach")
  /\ Matches(Head(c2s[c]).token) = {}
  /\ ServerWrites(c, ReattachErr)
  /\ HandlerReturns(c)
  /\ UNCHANGED <<slotVars, sess, tokenVars, clientVars>>

(* Step 2: replay_from, mint_token_candidate, and the write of ReattachOk. *)
(* An empty ring replays nothing, from wherever the client is.             *)
SendReattachOk(c) ==
  LET s     == sess[c]
      below == low[s] < next[s] /\ low[s] > cursor[c]
      from  == IF below THEN low[s] ELSE cursor[c]
  IN  /\ spc[c] = "granting"
      /\ minted' = minted + 1
      /\ cand' = [cand EXCEPT ![c] = minted']
      /\ cursor' = [cursor EXCEPT ![c] = from]
      /\ ServerWrites(c, ReattachOk(minted', from, below))
      /\ offered' = offered \cup {minted'}
      /\ Goto(c, "committing")
      /\ UNCHANGED <<slotVars, sess, up, c2s, clientVars>>

CommitToken(c) ==
  /\ spc[c] = "committing"
  /\ live' = [live EXCEPT ![sess[c]] = cand[c]]
  /\ Goto(c, "replaying")
  /\ UNCHANGED <<state, outVars, sess, cand, cursor, tokenVars, up, s2c, c2s, clientVars>>

(* Mutant: replay chunks above, not from, the number announced.            *)
ReplayAbove(c) ==
  /\ spc[c] = "replaying"
  /\ cursor[c] + 1 < next[sess[c]]
  /\ ServerWrites(c, PtyData(sess[c], cursor[c] + 1))
  /\ cursor' = [cursor EXCEPT ![c] = @ + 1]
  /\ UNCHANGED <<slotVars, spc, sess, cand, tokenVars, up, c2s, clientVars>>

(* Step 3: write the next retained chunk.                                  *)
ReplayChunk(c) ==
  /\ spc[c] = "replaying"
  /\ cursor[c] < next[sess[c]]
  /\ ServerWrites(c, PtyData(sess[c], cursor[c]))
  /\ cursor' = [cursor EXCEPT ![c] = @ + 1]
  /\ UNCHANGED <<slotVars, spc, sess, cand, tokenVars, up, c2s, clientVars>>

(* Steps 4 and 5: reader and writer are reclaimed, the pump starts.        *)
Rebind(c) ==
  /\ spc[c] = "replaying"
  /\ cursor[c] >= next[sess[c]]
  /\ state' = [state EXCEPT ![sess[c]] = "Active"]
  /\ Goto(c, "pump")
  /\ UNCHANGED <<live, outVars, sess, cand, cursor, tokenVars, up, s2c, c2s, clientVars>>

(* re_orphan: a write failed, or the writer or reader is not available.    *)
ReOrphan(c) ==
  /\ \/ spc[c] \in {"granting", "replaying"} /\ c \notin up
     \/ spc[c] = "replaying" /\ cursor[c] >= next[sess[c]]
  /\ state' = [state EXCEPT ![sess[c]] = "Orphaned"]
  /\ HandlerReturns(c)
  /\ UNCHANGED <<live, outVars, sess, tokenVars, s2c, clientVars>>
-----------------------------------------------------------------------------
(* The reader thread takes a chunk from the PTY.                           *)
PtyRead(c) ==
  LET s == sess[c] IN
  /\ spc[c] \in {"pump", "stopping"}
  /\ pending[s] < OutCap
  /\ FoldFunction(+, 0, produced) < MaxChunks
  /\ pending' = [pending EXCEPT ![s] = @ + 1]
  /\ produced' = [produced EXCEPT ![s] = @ + 1]
  /\ UNCHANGED <<state, live, low, next, overflowed, serverVars, up, s2c, c2s, clientVars>>

(* The out_rx arm of the pump: push the chunk, then write it.              *)
PumpOutput(c) ==
  LET s == sess[c] IN
  /\ spc[c] = "pump"
  /\ pending[s] > 0
  /\ pending' = [pending EXCEPT ![s] = @ - 1]
  /\ next' = [next EXCEPT ![s] = @ + 1]
  /\ \E l \in low[s] .. next[s] :
       /\ low' = [low EXCEPT ![s] = l]
       /\ overflowed' = [overflowed EXCEPT ![s] = @ \/ l # low[s]]
  /\ \/ ServerWrites(c, PtyData(s, next[s])) /\ UNCHANGED spc
     \/ c \notin up /\ Goto(c, "stopping") /\ UNCHANGED s2c
  /\ UNCHANGED <<state, live, produced, sess, cand, cursor, tokenVars, up, c2s, clientVars>>

(* Mutant: an Ack of n drops chunk n too.                                  *)
PumpAckInclusive(c) ==
  LET s == sess[c]
      n == Head(c2s[c]).seq
  IN  /\ spc[c] = "pump"
      /\ ServerReads(c, "Ack")
      /\ low' = [low EXCEPT ![s] = IF n >= @ THEN n + 1 ELSE @]
      /\ UNCHANGED <<state, live, next, overflowed, pending, produced, serverVars, up, s2c, clientVars>>

(* The client frames of the pump: Ack trims, ChannelOpen is answered.      *)
PumpAck(c) ==
  LET s == sess[c]
      n == Head(c2s[c]).seq
  IN  /\ spc[c] = "pump"
      /\ ServerReads(c, "Ack")
      /\ low' = [low EXCEPT ![s] = IF n > @ THEN n ELSE @]
      /\ UNCHANGED <<state, live, next, overflowed, pending, produced, serverVars, up, s2c, clientVars>>

PumpChannelOpen(c) ==
  /\ spc[c] = "pump"
  /\ ServerReads(c, "ChannelOpen")
  /\ ServerWrites(c, ChannelAccept)
  /\ UNCHANGED <<slotVars, serverVars, up, clientVars>>

(* The shell exits: its output is drained, SessionClose is written, the    *)
(* slot is removed.                                                        *)
ShellExits(c) ==
  /\ spc[c] = "pump"
  /\ pending[sess[c]] = 0
  /\ ServerWrites(c, SessionClose)
  /\ state' = [state EXCEPT ![sess[c]] = "Gone"]
  /\ HandlerReturns(c)
  /\ UNCHANGED <<live, outVars, sess, tokenVars, clientVars>>

PumpFails(c) ==
  /\ spc[c] = "pump"
  /\ c \notin up
  /\ Goto(c, "stopping")
  /\ UNCHANGED <<slotVars, sess, cand, cursor, tokenVars, up, s2c, c2s, clientVars>>

(* TransportLost: the reader is stopped and orphan() called; out_rx is     *)
(* dropped with what it holds.                                             *)
Orphan(c) ==
  /\ spc[c] = "stopping"
  /\ pending' = [pending EXCEPT ![sess[c]] = 0]
  /\ state' = [state EXCEPT ![sess[c]] = "Orphaned"]
  /\ HandlerReturns(c)
  /\ UNCHANGED <<live, low, next, overflowed, produced, sess, tokenVars, s2c, clientVars>>

(* An orphan ends: its shell exits, the cap evicts it or it idles out.     *)
OrphanEnds(s) ==
  /\ state[s] = "Orphaned"
  /\ state' = [state EXCEPT ![s] = "Gone"]
  /\ UNCHANGED <<live, outVars, serverVars, up, s2c, c2s, clientVars>>
-----------------------------------------------------------------------------
(* The supervisor loop makes its next connection and sends the first frame: *)
(* SessionOpen without a token, Reattach with one.                         *)
Connect ==
  /\ cpc = "idle"
  /\ conn < MaxConns
  /\ conn' = conn + 1
  /\ up' = up \cup {conn'}
  /\ c2s' = [c2s EXCEPT ![conn'] =
               << IF token = NoToken THEN SessionOpen ELSE ReattachMsg(token, highest_applied) >>]
  /\ cpc' = "awaiting"
  /\ UNCHANGED <<slotVars, serverVars, s2c, token, highest_applied, last_acked, got>>

(* Mutant: the client counts the announced chunk as applied.               *)
StartPumpAhead(n) ==
  /\ highest_applied' = n + 1
  /\ last_acked' = n + 1
  /\ token' = Head(s2c[conn]).token
  /\ ClientWrites(ChannelOpen)
  /\ cpc' = "channel"

(* The client attached: it counts from n and run_pump first opens the      *)
(* scrollback channel.                                                     *)
StartPump(n) ==
  /\ highest_applied' = n
  /\ last_acked' = n
  /\ token' = Head(s2c[conn]).token
  /\ ClientWrites(ChannelOpen)
  /\ cpc' = "channel"

RecvOpened ==
  /\ cpc = "awaiting"
  /\ ClientReads("SessionOpened")
  /\ StartPump(0)
  /\ UNCHANGED <<slotVars, serverVars, up, conn, got>>

(* A truncated reply tells the client that what is below is lost.          *)
RecvReattachOk ==
  LET m == Head(s2c[conn])
      s == sess[conn]
  IN  /\ cpc = "awaiting"
      /\ ClientReads("ReattachOk")
      /\ StartPump(m.seq)
      /\ got' = IF m.truncated /\ m.seq > got[s] THEN [got EXCEPT ![s] = m.seq] ELSE got
      /\ UNCHANGED <<slotVars, serverVars, up, conn>>

RecvReattachErr ==
  /\ cpc = "awaiting"
  /\ ClientSees("ReattachErr")
  /\ token' = NoToken
  /\ ClientLeaves("ended")
  /\ UNCHANGED <<slotVars, serverVars, c2s, conn, highest_applied, last_acked, got>>

Received(m) == [got EXCEPT ![m.sess] = IF m.seq >= @ THEN m.seq + 1 ELSE @]

(* await_channel_accept reads past output without counting it.             *)
SkipChunk ==
  /\ cpc = "channel"
  /\ ClientReads("PtyData")
  /\ got' = Received(Head(s2c[conn]))
  /\ UNCHANGED <<slotVars, serverVars, up, c2s, cpc, conn, token, highest_applied, last_acked>>

(* The channel is open, or opening it failed: either way the pump runs.    *)
ChannelSettled ==
  /\ cpc = "channel"
  /\ \/ ClientReads("ChannelAccept")
     \/ ClientReads("SessionClose")
     \/ conn \notin up /\ UNCHANGED s2c
  /\ cpc' = "pump"
  /\ UNCHANGED <<slotVars, serverVars, up, c2s, conn, token, highest_applied, last_acked, got>>

RecvChunk ==
  /\ cpc = "pump"
  /\ ClientReads("PtyData")
  /\ highest_applied' = highest_applied + 1
  /\ got' = Received(Head(s2c[conn]))
  /\ UNCHANGED <<slotVars, serverVars, up, c2s, cpc, conn, token, last_acked>>

AckTick ==
  /\ cpc = "pump"
  /\ highest_applied # last_acked
  /\ ClientWrites(AckMsg(highest_applied))
  /\ last_acked' = highest_applied
  /\ UNCHANGED <<slotVars, serverVars, up, s2c, cpc, conn, token, highest_applied, got>>

RecvClose ==
  /\ cpc = "pump"
  /\ ClientSees("SessionClose")
  /\ ClientLeaves("ended")
  /\ UNCHANGED <<slotVars, serverVars, c2s, conn, token, highest_applied, last_acked, got>>

(* TransportDrop: close, back off, connect again.                          *)
ClientDrops ==
  /\ cpc \in {"awaiting", "pump"}
  /\ conn \notin up
  /\ ClientLeaves("idle")
  /\ UNCHANGED <<slotVars, serverVars, c2s, conn, token, highest_applied, last_acked, got>>

(* UserQuit while attached only closes the connection.                     *)
UserQuits ==
  /\ cpc = "pump"
  /\ conn \in up
  /\ ClientLeaves("quit")
  /\ UNCHANGED <<slotVars, serverVars, c2s, conn, token, highest_applied, last_acked, got>>
-----------------------------------------------------------------------------
(* Steps of a handler that wait for nobody.                                *)
HandlerStep(c) ==
  \/ OpenSession(c) \/ SendOpened(c) \/ OpenedFails(c)
  \/ AcceptReattach(c) \/ RejectReattach(c)
  \/ SendReattachOk(c) \/ CommitToken(c) \/ ReplayChunk(c) \/ Rebind(c) \/ ReOrphan(c)
  \/ PumpOutput(c) \/ PumpAck(c) \/ PumpChannelOpen(c)
  \/ PumpFails(c) \/ Orphan(c)

ClientStep ==
  \/ RecvOpened \/ RecvReattachOk \/ RecvReattachErr
  \/ SkipChunk \/ ChannelSettled \/ RecvChunk \/ RecvClose \/ ClientDrops

Next ==
  \/ \E c \in Conns : HandlerStep(c) \/ PtyRead(c) \/ ShellExits(c) \/ ConnectionLost(c)
  \/ \E s \in Conns : OrphanEnds(s)
  \/ ClientStep \/ AckTick \/ Connect \/ UserQuits

Spec == Init /\ [][Next]_vars

(* Tasks that can go on do; the network, the shells and the user need not. *)
Fairness ==
  /\ \A c \in Conns : WF_vars(HandlerStep(c)) /\ WF_vars(PumpChannelOpen(c))
  /\ WF_vars(ClientStep)

FairSpec == Spec /\ Fairness
-----------------------------------------------------------------------------
Frames ==
  {SessionOpen, ChannelOpen, ReattachErr, ChannelAccept, SessionClose}
  \cup [type : {"Reattach"}, token : Nat, seq : Nat]
  \cup [type : {"Ack"}, seq : Nat]
  \cup [type : {"SessionOpened"}, token : Nat]
  \cup [type : {"ReattachOk"}, token : Nat, seq : Nat, truncated : BOOLEAN]
  \cup [type : {"PtyData"}, sess : Conns, seq : Nat]

TypeOK ==
  /\ state \in [Conns -> {"None", "Active", "Orphaned", "Reconnecting", "Gone"}]
  /\ live \in [Conns -> Nat]
  /\ low \in [Conns -> Nat]
  /\ next \in [Conns -> Nat]
  /\ overflowed \in [Conns -> BOOLEAN]
  /\ pending \in [Conns -> Nat]
  /\ produced \in [Conns -> Nat]
  /\ spc \in [Conns -> {"accepting", "opening", "granting", "committing", "replaying",
                        "pump", "stopping", "done"}]
  /\ sess \in [Conns -> Conns \cup {NoConn}]
  /\ cand \in [Conns -> Nat]
  /\ cursor \in [Conns -> Nat]
  /\ minted \in Nat
  /\ offered \subseteq Nat
  /\ up \subseteq Conns
  /\ s2c \in [Conns -> Seq(Frames)]
  /\ c2s \in [Conns -> Seq(Frames)]
  /\ cpc \in {"idle", "awaiting", "channel", "pump", "ended", "quit"}
  /\ conn \in Conns \cup {NoConn}
  /\ token \in Nat
  /\ highest_applied \in Nat
  /\ last_acked \in Nat
  /\ got \in [Conns -> Nat]

(* The client is attached to this session (NoConn: to none yet).           *)
Attached == IF conn = NoConn THEN NoConn ELSE sess[conn]

(* The counter the client reports never runs ahead of the output that      *)
(* reached it, through any sequence of replays, skipped frames, truncation *)
(* and lost connections; so neither Ack nor Reattach ever gives up a chunk *)
(* that was not delivered.                                                 *)
CounterNeverAhead ==
  cpc \in {"channel", "pump"} => highest_applied <= got[Attached]

(* Output a slot no longer holds has reached the client, unless the byte   *)
(* cap dropped it.                                                         *)
TrimmedWasReceived ==
  \A s \in Conns : low[s] <= got[s] \/ overflowed[s]

(* D-09: the client never misses a numbered chunk in silence.  When it     *)
(* reads output, everything before it has arrived, or a ReattachOk said    *)
(* that it is lost.                                                        *)
NoSilentGap ==
  [][\A s \in Conns :
       got'[s] # got[s] =>
         \/ got'[s] = got[s] + 1
         \/ Head(s2c[conn]).type = "ReattachOk"]_vars

(* W1: the token that reattaches an orphan is always one the server wrote  *)
(* to the client; a handler whose ReattachOk could not be written leaves   *)
(* the old token in force.                                                 *)
OrphanTokenWasSent ==
  \A s \in Conns : state[s] = "Orphaned" => live[s] \in offered

(* A client that waits for an answer to SessionOpen, Reattach or           *)
(* ChannelOpen gets one or sees its connection end.                        *)
ClientSettles ==
  cpc \in {"awaiting", "channel"} ~> cpc \in {"idle", "pump", "ended"}

(* W1: "Commit it now so the slot and client agree on the live token", "the *)
(* client (which still holds the prior token) can retry indefinitely       *)
(* (D-10)": a client about to reconnect holds the token of its orphan.     *)
TokenAgreement ==
  cpc = "idle" /\ Attached # NoConn /\ token # NoToken /\ state[Attached] = "Orphaned"
    => token = live[Attached]

(* D-01, "quitting the client cleanly must NOT leave a lingering session": *)
(* once an attached user has quit, the session ends.                       *)
QuitEndsSession ==
  \A s \in Conns : (cpc = "quit" /\ Attached = s) ~> state[s] = "Gone"
=============================================================================
