--------------------------- MODULE ConnectProofs ---------------------------
(***************************************************************************)
(* What Connect promises, for every number of clients, keys, servers,      *)
(* permits and connections: a session is mutual, no pre-auth permit is     *)
(* lost, and what known_hosts pins stays pinned.  And what Framing         *)
(* promises for every set of messages: only a dropped read loses sync.     *)
(***************************************************************************)
EXTENDS MCConnect, WellFoundedInduction, SequenceTheorems, FiniteSetTheorems, TLAPS

Link == [client : Clients, server : Servers, proxied : BOOLEAN, up : BOOLEAN]
Phases == {"idle", "opening", "session", "backoff"} \cup Connecting \cup Ended
Checks == {"none", "prompt", "passed", "mismatch", "declined"}
Early == {"incoming", "handshake", "stream"}
Handlers == Early \cup {"challenged", "first", "session", "rejected", "closed", "timedout"}

\* The four messages of the inner handshake of connection i.
Challenge(i) == [t |-> "InnerAuthChallenge", ekm |-> EkmServer(i)]
Response(i) ==
    [t |-> "InnerAuthResponse", spki |-> KeyOn(i),
     sig |-> Sign(KeyOn(i), client_transcript(i, EkmClient(i), net[i].server))]
Complete(i) ==
    [t |-> "InnerAuthComplete",
     sig |-> Sign(net[i].server, server_transcript(i, EkmServer(i), KeyOn(i)))]
Fail == [t |-> "InnerAuthFail"]

Ekm == Nat \X {"client leg", "server leg"}
Wires ==
    {None, Fail}
    \cup [t : {"InnerAuthChallenge"}, ekm : Ekm]
    \cup [t : {"InnerAuthResponse"}, spki : Keys,
          sig : [by : Keys, over : {"client"} \X Ekm \X Nat \X Servers]]
    \cup [t : {"InnerAuthComplete"},
          sig : [by : Servers, over : {"server"} \X Ekm \X Nat \X Keys]]

\* Every connection has an entry in each of the per-connection sequences.
TypeOK ==
    /\ known \in Seq(Servers)
    /\ permits \in [Servers -> Int]
    /\ phase \in [Clients -> Phases]
    /\ conn \in [Clients -> Nat]
    /\ net \in Seq(Link)
    /\ check \in Seq(Checks) /\ Len(check) = Len(net)
    /\ found \in Seq(Servers \cup {None}) /\ Len(found) = Len(net)
    /\ at \in Seq(Handlers) /\ Len(at) = Len(net)
    /\ id \in Seq(Keys \cup {None}) /\ Len(id) = Len(net)
    /\ wire \in Seq(Wires) /\ Len(wire) = Len(net)

\* Only a WebTransport connection runs through a proxy.
ProxyInv == \A i \in Dialled : net[i].proxied => mode = "wt"

\* What is on the wire of connection i was made for it by its two ends, the
\* challenge by its server, what follows it after the client's check passed.
WireInv ==
    \A i \in Dialled :
        /\ wire[i] \in {None, Challenge(i)} \/ check[i] = "passed"
        /\ at[i] = "challenged" =>
              wire[i] = Challenge(i) \/ (check[i] = "passed" /\ wire[i] = Response(i))
        /\ at[i] \in Early => wire[i] = None /\ (mode = "wt" => check[i] = "none")

\* A host key check that did not end in a mismatch was made at the end of the
\* server's own TLS session, on a key that is pinned or unknown.
CheckInv ==
    \A i \in Dialled : check[i] \in {"prompt", "passed", "declined"} =>
        ~net[i].proxied /\ found[i] \in {None, net[i].server}

IdentityInv ==
    \A i \in Dialled : at[i] \in {"first", "session"} =>
        id[i] = KeyOn(i) /\ id[i] \in Authorized /\ check[i] = "passed"

\* The client answers, opens a session and is in one after its check passed.
PhaseInv ==
    \A i \in Dialled :
        Mine(i) /\ phase[net[i].client] \in {"answered", "opening", "session"} =>
            check[i] = "passed"

IInv ==
    /\ TypeOK
    /\ ProxyInv /\ WireInv /\ CheckInv /\ IdentityInv /\ PhaseInv
    /\ PinHolds /\ PermitsConserved

---------------------------------------------------------------------------
(* What a step leaves alone. *)

\* The connections dialled, and all of them but whether they are up.
NetKept ==
    /\ net' \in Seq(Link) /\ Len(net') = Len(net) /\ Dialled' = Dialled
    /\ \A j \in Dialled :
          /\ net'[j].client = net[j].client
          /\ net'[j].server = net[j].server
          /\ net'[j].proxied = net[j].proxied

\* The index set is finite and every sequence has it as its domain.
LEMMA Indices ==
    ASSUME TypeOK
    PROVE  /\ Dialled = 1..Len(net) /\ IsFiniteSet(Dialled)
           /\ DOMAIN check = Dialled /\ DOMAIN found = Dialled /\ DOMAIN at = Dialled
           /\ DOMAIN id = Dialled /\ DOMAIN wire = Dialled
           /\ \A i \in Dialled : net[i] \in Link
  <1>1. Len(net) \in Nat /\ Dialled = 1..Len(net)
    BY DEF TypeOK, Dialled
  <1>2. IsFiniteSet(1..Len(net))
    BY <1>1, FS_Interval
  <1> QED
    BY <1>1, <1>2 DEF TypeOK, Dialled

\* A connection that is closed or lost keeps its ends.
LEMMA NetDown ==
    ASSUME TypeOK, NEW i \in Dialled, net' = [net EXCEPT ![i].up = FALSE]
    PROVE  NetKept
  <1> DEFINE e == [net[i] EXCEPT !.up = FALSE]
  <1>1. i \in 1..Len(net) /\ net[i] \in Link /\ net \in Seq(Link)
    BY Indices DEF TypeOK
  <1>2. e \in Link /\ e.client = net[i].client /\ e.server = net[i].server
           /\ e.proxied = net[i].proxied
    BY <1>1 DEF Link
  <1>3. net' = [net EXCEPT ![i] = e]
    BY Zenon
  <1> HIDE DEF e
  <1>4. /\ net' \in Seq(Link) /\ Len(net') = Len(net)
        /\ \A j \in 1..Len(net) : net'[j] = IF j = i THEN e ELSE net[j]
    <2>1. /\ [net EXCEPT ![i] = e] \in Seq(Link) /\ Len([net EXCEPT ![i] = e]) = Len(net)
          /\ \A j \in 1..Len(net) :
                [net EXCEPT ![i] = e][j] = IF j = i THEN e ELSE net[j]
      BY <1>1, <1>2, ExceptSeq
    <2> QED
      BY <1>3, <2>1, Zenon
  <1>5. Dialled' = 1..Len(net') /\ Dialled = 1..Len(net)
    BY <1>4, Indices DEF Dialled
  <1> QED
    BY <1>2, <1>4, <1>5 DEF NetKept

\* So does one that nothing happens to.
LEMMA NetSame ==
    ASSUME TypeOK, UNCHANGED net
    PROVE  NetKept
  BY DEF TypeOK, NetKept, Dialled

\* The messages of a connection depend on its ends only.
LEMMA MessagesKept ==
    ASSUME NetKept, NEW j \in Dialled
    PROVE  /\ Challenge(j)' = Challenge(j) /\ Response(j)' = Response(j)
           /\ KeyOn(j)' = KeyOn(j)
  BY DEF NetKept, Challenge, Response, EkmServer, EkmClient, KeyOn, client_transcript, Sign

\* Permits are conserved by a step that moves no handler.
LEMMA PermitsKept ==
    ASSUME NetKept, UNCHANGED <<at, permits>>, PermitsConserved
    PROVE  PermitsConserved'
  <1> SUFFICES ASSUME NEW s \in Servers
               PROVE  {i \in Dialled : net[i].server = s /\ at[i] = "handshake"}'
                        = {i \in Dialled : net[i].server = s /\ at[i] = "handshake"}
    BY DEF PermitsConserved
  <1> QED
    BY DEF NetKept

\* Pins hold over a step that looks nothing up and records nothing.
LEMMA PinKept ==
    ASSUME NetKept, UNCHANGED <<known, found>>, PinHolds
    PROVE  PinHolds'
  BY DEF PinHolds, NetKept, lookup_known_host

---------------------------------------------------------------------------
(* The client's steps. *)

\* A step that only moves the client's supervisor, and may close its connection:
\* the client gets past its answer on a passed check only.
LEMMA PhaseStep ==
    ASSUME IInv, NEW i \in Dialled, NEW p \in Phases,
           phase' = [phase EXCEPT ![net[i].client] = p],
           p \in {"answered", "opening", "session"} => Mine(i) /\ check[i] = "passed",
           NetKept, UNCHANGED <<mode, known, permits, conn, check, found, at, id, wire>>
    PROVE  IInv'
  <1> USE DEF IInv
  <1>1. TypeOK'
    BY DEF TypeOK, NetKept
  <1>2. ProxyInv' /\ CheckInv'
    BY DEF ProxyInv, CheckInv, NetKept
  <1>3. WireInv' /\ IdentityInv'
    BY MessagesKept DEF WireInv, IdentityInv, NetKept
  <1>4. PhaseInv'
    <2> SUFFICES ASSUME NEW j \in Dialled, Mine(j)',
                        phase'[net'[j].client] \in {"answered", "opening", "session"}
                 PROVE  check[j] = "passed"
      BY DEF PhaseInv, NetKept
    <2>1. net'[j].client = net[j].client /\ Mine(j) /\ net[j].client \in Clients
      BY Indices DEF NetKept, Mine, Link
    <2>2. CASE net[j].client = net[i].client
      BY <2>1, <2>2 DEF TypeOK, Mine
    <2>3. CASE net[j].client # net[i].client
      BY <2>1, <2>3 DEF PhaseInv, TypeOK
    <2> QED
      BY <2>2, <2>3
  <1>5. PinHolds' /\ PermitsConserved'
    BY PinKept, PermitsKept
  <1> QED
    BY <1>1, <1>2, <1>3, <1>4, <1>5

\* The supervisor's own steps preserve the invariant.
LEMMA SupervisorSteps ==
    ASSUME IInv, NEW i \in Dialled,
           \/ NativeConnected(i) \/ ConnectTimeout(i) \/ WtConnected(i)
           \/ RecvComplete(i) \/ RecvFail(i) \/ SessionStarts(i) \/ SessionEnds(i)
           \/ Noticed(i) \/ RejectedInHandshake(i)
    PROVE  IInv'
  <1>1. TypeOK /\ {"opening", "inner", "session", "backoff", "exited", "fatal"} \subseteq Phases
    BY DEF IInv, Phases, Connecting, Ended
  <1>2. CASE NativeConnected(i)
    BY <1>1, <1>2, NetSame, PhaseStep DEF NativeConnected
  <1>3. CASE ConnectTimeout(i)
    BY <1>1, <1>3, NetDown, PhaseStep DEF ConnectTimeout, Leave
  <1>4. CASE WtConnected(i)
    BY <1>1, <1>4, NetSame, PhaseStep DEF WtConnected
  <1>5. CASE RecvComplete(i)
    <2>1. check[i] = "passed"
      BY <1>5 DEF IInv, PhaseInv, RecvComplete
    <2> QED
      BY <1>1, <1>5, <2>1, NetSame, PhaseStep DEF RecvComplete
  <1>6. CASE RecvFail(i)
    BY <1>1, <1>6, NetDown, PhaseStep DEF RecvFail, Leave
  <1>7. CASE SessionStarts(i)
    <2>1. check[i] = "passed"
      BY <1>7 DEF IInv, PhaseInv, SessionStarts
    <2> QED
      BY <1>1, <1>7, <2>1, NetSame, PhaseStep DEF SessionStarts
  <1>8. CASE SessionEnds(i)
    BY <1>1, <1>8, NetDown, PhaseStep DEF SessionEnds, Leave
  <1>9. CASE Noticed(i)
    BY <1>1, <1>9, NetSame, PhaseStep DEF Noticed
  <1>10. CASE RejectedInHandshake(i)
    BY <1>1, <1>10, NetSame, PhaseStep DEF RejectedInHandshake
  <1> QED
    BY <1>2, <1>3, <1>4, <1>5, <1>6, <1>7, <1>8, <1>9, <1>10

\* Looking the host up: the pin decides, and a check that is not a mismatch is
\* made on a connection that the caller knows to end at the server.
LEMMA CheckHostStep ==
    ASSUME IInv, NEW i \in Dialled, CheckHost(i), check[i] = "none", ~net[i].proxied,
           at[i] \in Early => mode # "wt"
    PROVE  IInv'
  <1> USE DEF IInv
  <1>1. PICK v \in {"prompt", "passed", "mismatch"} : check' = [check EXCEPT ![i] = v]
    BY DEF CheckHost
  <1>2. v # "mismatch" => lookup_known_host \in {None, net[i].server}
    BY <1>1, Indices, ExceptSeq DEF CheckHost, TypeOK, Checks
  <1>3. NetKept
    BY NetDown, NetSame DEF CheckHost, Leave
  <1>4. /\ phase' \in [Clients -> Phases]
        /\ \A c \in Clients : phase'[c] \in {phase[c], "fatal"}
    BY Indices DEF CheckHost, Leave, TypeOK, Phases, Ended, Link
  <1>5. lookup_known_host \in Servers \cup {None}
    BY HeadTailProperties DEF lookup_known_host, TypeOK
  <1>6. /\ check' \in Seq(Checks) /\ Len(check') = Len(check)
        /\ \A j \in Dialled : check'[j] = IF j = i THEN v ELSE check[j]
    BY <1>1, Indices, ExceptSeq DEF TypeOK, Checks
  <1>7. /\ found' \in Seq(Servers \cup {None}) /\ Len(found') = Len(found)
        /\ \A j \in Dialled : found'[j] = IF j = i THEN lookup_known_host ELSE found[j]
    BY <1>5, Indices, ExceptSeq DEF TypeOK, CheckHost
  <1>8. UNCHANGED <<mode, known, permits, conn, at, id, wire>>
    BY DEF CheckHost
  <1>9. TypeOK'
    BY <1>3, <1>4, <1>6, <1>7, <1>8 DEF TypeOK, NetKept
  <1>10. ProxyInv' /\ CheckInv'
    <2>1. ProxyInv'
      BY <1>3, <1>8 DEF ProxyInv, NetKept
    <2>2. ASSUME NEW j \in Dialled, check'[j] \in {"prompt", "passed", "declined"}
          PROVE  ~net[j].proxied /\ found'[j] \in {None, net[j].server}
      BY <1>1, <1>2, <1>6, <1>7, <2>2 DEF CheckInv
    <2>3. CheckInv'
      BY <1>3, <2>2 DEF CheckInv, NetKept
    <2> QED
      BY <2>1, <2>3
  <1>11. WireInv' /\ IdentityInv'
    BY <1>3, <1>6, <1>8, MessagesKept DEF WireInv, IdentityInv, NetKept
  <1>12. PhaseInv'
    <2> SUFFICES ASSUME NEW j \in Dialled, Mine(j)',
                        phase'[net'[j].client] \in {"answered", "opening", "session"}
                 PROVE  check'[j] = "passed"
      BY <1>3 DEF PhaseInv, NetKept
    <2>1. net'[j].client = net[j].client /\ Mine(j) /\ net[j].client \in Clients
      BY <1>3, <1>8, Indices DEF NetKept, Mine, Link
    <2>2. check[j] = "passed"
      BY <1>4, <2>1 DEF PhaseInv
    <2> QED
      BY <1>6, <2>2
  <1>13. PinHolds'
    BY <1>3, <1>7, <1>8 DEF PinHolds, NetKept, lookup_known_host
  <1> QED
    BY <1>3, <1>8, <1>9, <1>10, <1>11, <1>12, <1>13, PermitsKept

\* verify_server_cert preserves the invariant: a native connection has no proxy.
LEMMA VerifyServerCertIInv ==
    ASSUME IInv, NEW i \in Dialled, VerifyServerCert(i)
    PROVE  IInv'
  BY CheckHostStep DEF VerifyServerCert, IInv, ProxyInv

\* So does the client's reading of the challenge: through a proxy, the server's
\* channel binding is not the client's, and the client gives up.
LEMMA RecvChallengeIInv ==
    ASSUME IInv, NEW i \in Dialled, RecvChallenge(i)
    PROVE  IInv'
  <1> USE DEF IInv
  <1>1. wire[i] = Challenge(i) /\ at[i] \notin Early
    BY DEF RecvChallenge, WireInv
  <1>2. CASE CheckEkm(i) /\ CheckHost(i)
    <2>1. EkmServer(i) = EkmClient(i)
      BY <1>1, <1>2 DEF CheckEkm, Challenge
    <2>2. ~net[i].proxied
      BY <2>1, Indices DEF EkmServer, EkmClient, Link
    <2> QED
      BY <1>1, <1>2, <2>2, CheckHostStep DEF RecvChallenge
  <1>3. CASE ~CheckEkm(i)
    <2>1. /\ check' = [check EXCEPT ![i] = "mismatch"] /\ check[i] = "none"
          /\ UNCHANGED <<mode, known, permits, conn, found, at, id, wire>>
          /\ phase' = [phase EXCEPT ![net[i].client] = "fatal"]
      BY <1>3 DEF RecvChallenge, Leave
    <2>2. NetKept
      BY <1>3, NetDown DEF RecvChallenge, Leave
    <2>3. /\ check' \in Seq(Checks) /\ Len(check') = Len(check)
          /\ \A j \in Dialled : check'[j] = IF j = i THEN "mismatch" ELSE check[j]
      BY <2>1, Indices, ExceptSeq DEF TypeOK, Checks
    <2>4. /\ phase' \in [Clients -> Phases]
          /\ \A c \in Clients : phase'[c] \in {phase[c], "fatal"}
      BY <2>1, Indices DEF TypeOK, Phases, Ended, Link
    <2>5. TypeOK'
      BY <2>1, <2>2, <2>3, <2>4 DEF TypeOK, NetKept
    <2>6. ProxyInv' /\ CheckInv'
      <3>1. ProxyInv'
        BY <2>1, <2>2 DEF ProxyInv, NetKept
      <3>2. CheckInv'
        BY <2>1, <2>2, <2>3 DEF CheckInv, NetKept
      <3> QED
        BY <3>1, <3>2
    <2>7. WireInv' /\ IdentityInv'
      BY <1>1, <2>1, <2>2, <2>3, MessagesKept DEF WireInv, IdentityInv, NetKept
    <2>8. PhaseInv'
      BY <2>1, <2>2, <2>3, <2>4, Indices DEF PhaseInv, NetKept, Mine, Link
    <2> QED
      BY <2>1, <2>2, <2>5, <2>6, <2>7, <2>8, PinKept, PermitsKept
  <1> QED
    BY <1>2, <1>3 DEF RecvChallenge

\* The user's "yes" preserves the invariant: the key is appended, so the first
\* key of the file, the one lookups find, is that of every earlier lookup.
LEMMA PromptAcceptIInv ==
    ASSUME IInv, NEW i \in Dialled, PromptAccept(i)
    PROVE  IInv'
  <1> USE DEF IInv
  <1>1. /\ known' = Append(known, net[i].server) /\ check[i] = "prompt"
        /\ UNCHANGED <<mode, permits, phase, conn, net, found, at, id, wire>>
    BY DEF PromptAccept, record_known_host
  <1>2. NetKept
    BY <1>1, NetSame
  <1>3. /\ check' \in Seq(Checks) /\ Len(check') = Len(check)
        /\ \A j \in Dialled : check'[j] = IF j = i THEN "passed" ELSE check[j]
    BY Indices, ExceptSeq DEF PromptAccept, TypeOK, Checks
  <1>4. net[i].server \in Servers
    BY Indices DEF Link
  <1>5. /\ known' \in Seq(Servers)
        /\ known' # <<>>
        /\ Head(known') = IF known = <<>> THEN net[i].server ELSE Head(known)
    BY <1>1, <1>4, AppendProperties, HeadTailAppend DEF TypeOK
  <1>6. TypeOK'
    BY <1>1, <1>2, <1>3, <1>5 DEF TypeOK
  <1>7. ProxyInv' /\ CheckInv'
    BY <1>1, <1>2, <1>3 DEF ProxyInv, CheckInv, NetKept
  <1>8. WireInv' /\ IdentityInv'
    <2>1. WireInv'
      BY <1>1, <1>2, <1>3, MessagesKept DEF WireInv, NetKept
    <2>2. IdentityInv'
      BY <1>1, <1>2, <1>3, MessagesKept DEF IdentityInv, NetKept
    <2> QED
      BY <2>1, <2>2
  <1>9. PhaseInv'
    BY <1>1, <1>2, <1>3 DEF PhaseInv, NetKept, Mine
  <1>10. PinHolds'
    BY <1>1, <1>2, <1>5 DEF PinHolds, NetKept, lookup_known_host
  <1> QED
    BY <1>1, <1>2, <1>6, <1>7, <1>8, <1>9, <1>10, PermitsKept

\* So does any other answer.
LEMMA PromptDeclineIInv ==
    ASSUME IInv, NEW i \in Dialled, PromptDecline(i)
    PROVE  IInv'
  <1> USE DEF IInv
  <1>1. /\ check' = [check EXCEPT ![i] = "declined"] /\ check[i] = "prompt"
        /\ UNCHANGED <<mode, known, permits, conn, found, at, id, wire>>
    BY DEF PromptDecline
  <1>2. NetKept
    BY NetDown, NetSame DEF PromptDecline, Leave
  <1>3. /\ check' \in Seq(Checks) /\ Len(check') = Len(check)
        /\ \A j \in Dialled : check'[j] = IF j = i THEN "declined" ELSE check[j]
    BY <1>1, Indices, ExceptSeq DEF TypeOK, Checks
  <1>4. /\ phase' \in [Clients -> Phases]
        /\ \A c \in Clients : phase'[c] \in {phase[c], "fatal", "backoff"}
    BY Indices DEF PromptDecline, Leave, TypeOK, Phases, Ended, Link
  <1>5. TypeOK'
    BY <1>1, <1>2, <1>3, <1>4 DEF TypeOK, NetKept
  <1>6. ProxyInv' /\ CheckInv'
    BY <1>1, <1>2, <1>3 DEF ProxyInv, CheckInv, NetKept
  <1>7. WireInv' /\ IdentityInv'
    BY <1>1, <1>2, <1>3, MessagesKept DEF WireInv, IdentityInv, NetKept
  <1>8. PhaseInv'
    BY <1>1, <1>2, <1>3, <1>4, Indices DEF PhaseInv, NetKept, Mine, Link
  <1> QED
    BY <1>1, <1>2, <1>5, <1>6, <1>7, <1>8, PinKept, PermitsKept

\* The client's response is made for the connection it is sent on.
LEMMA SendResponseIInv ==
    ASSUME IInv, NEW i \in Dialled, SendResponse(i)
    PROVE  IInv'
  <1> USE DEF IInv
  <1>1. /\ wire' = [wire EXCEPT ![i] = Response(i)] /\ mode = "wt" /\ check[i] = "passed"
        /\ phase' = [phase EXCEPT ![net[i].client] = "answered"] /\ Mine(i)
        /\ UNCHANGED <<mode, known, permits, conn, net, check, found, at, id>>
    BY DEF SendResponse, Response
  <1>2. NetKept /\ net[i].client \in Clients /\ net[i].server \in Servers /\ i \in Nat
    BY <1>1, NetSame, Indices DEF Link, TypeOK
  <1>3. Response(i) \in Wires
    BY <1>2, ConnectAssumption
      DEF Response, Wires, Ekm, KeyOn, Sign, client_transcript, EkmClient
  <1>4. /\ wire' \in Seq(Wires) /\ Len(wire') = Len(wire)
        /\ \A j \in Dialled : wire'[j] = IF j = i THEN Response(i) ELSE wire[j]
    BY <1>1, <1>3, Indices, ExceptSeq DEF TypeOK
  <1>5. TypeOK'
    BY <1>1, <1>2, <1>4 DEF TypeOK, Phases, Connecting
  <1>6. WireInv'
    BY <1>1, <1>2, <1>4, MessagesKept DEF WireInv, NetKept
  <1>7. ProxyInv' /\ CheckInv' /\ IdentityInv'
    BY <1>1, <1>2, MessagesKept DEF ProxyInv, CheckInv, IdentityInv, NetKept
  <1>8. PhaseInv'
    <2> SUFFICES ASSUME NEW j \in Dialled, Mine(j),
                        phase'[net[j].client] \in {"answered", "opening", "session"}
                 PROVE  check[j] = "passed"
      BY <1>1 DEF PhaseInv, Mine, Dialled
    <2>1. CASE net[j].client = net[i].client
      BY <1>1, <2>1 DEF Mine
    <2>2. CASE net[j].client # net[i].client
      BY <1>1, <2>2, Indices DEF PhaseInv, TypeOK, Link
    <2> QED
      BY <2>1, <2>2
  <1> QED
    BY <1>1, <1>2, <1>5, <1>6, <1>7, <1>8, PinKept, PermitsKept

---------------------------------------------------------------------------
(* Dialling. *)

\* A new connection starts with nothing checked, nobody identified and nothing
\* on the wire; the client's earlier connections are no longer its own.
LEMMA DialIInv ==
    ASSUME IInv, NEW c \in Clients, Dial(c)
    PROVE  IInv'
  <1> USE DEF IInv
  <1> DEFINE n == Len(net) + 1
  <1>1. PICK e \in Link : /\ net' = Append(net, e) /\ e.client = c
                          /\ e.proxied => mode = "wt"
    <2>1. PICK s \in Servers, p \in BOOLEAN :
             /\ p => mode = "wt"
             /\ net' = Append(net, [client |-> c, server |-> s, proxied |-> p, up |-> TRUE])
      BY DEF Dial
    <2>2. [client |-> c, server |-> s, proxied |-> p, up |-> TRUE] \in Link
      BY DEF Link
    <2> QED
      BY <2>1, <2>2
  <1>2. Dialled = 1..Len(net) /\ Len(net) \in Nat /\ n \notin Dialled /\ IsFiniteSet(Dialled)
    BY Indices DEF TypeOK
  <1>3. /\ net' \in Seq(Link) /\ Len(net') = n /\ Dialled' = Dialled \cup {n}
        /\ net'[n] = e /\ \A j \in Dialled : net'[j] = net[j]
    <2>1. /\ net' \in Seq(Link) /\ Len(net') = n
          /\ net'[n] = e /\ \A j \in 1..Len(net) : net'[j] = net[j]
      BY <1>1, AppendProperties DEF TypeOK
    <2>2. Dialled' = 1..n
      BY <2>1 DEF Dialled
    <2> QED
      BY <1>2, <2>1, <2>2
  <1>4. /\ conn' = [conn EXCEPT ![c] = n] /\ phase' = [phase EXCEPT ![c] = "connecting"]
        /\ check' = Append(check, "none") /\ found' = Append(found, None)
        /\ at' = Append(at, "incoming") /\ id' = Append(id, None) /\ wire' = Append(wire, None)
        /\ UNCHANGED <<mode, known, permits>>
    BY DEF Dial
  <1>5. /\ check' \in Seq(Checks) /\ Len(check') = n
        /\ check'[n] = "none" /\ \A j \in Dialled : check'[j] = check[j]
    BY <1>2, <1>4, AppendProperties DEF TypeOK, Checks
  <1>6. /\ found' \in Seq(Servers \cup {None}) /\ Len(found') = n
        /\ found'[n] = None /\ \A j \in Dialled : found'[j] = found[j]
    BY <1>2, <1>4, AppendProperties DEF TypeOK
  <1>7. /\ at' \in Seq(Handlers) /\ Len(at') = n
        /\ at'[n] = "incoming" /\ \A j \in Dialled : at'[j] = at[j]
    BY <1>2, <1>4, AppendProperties, SMTT(40) DEF TypeOK, Handlers, Early
  <1>8. /\ id' \in Seq(Keys \cup {None}) /\ Len(id') = n
        /\ id'[n] = None /\ \A j \in Dialled : id'[j] = id[j]
    BY <1>2, <1>4, AppendProperties DEF TypeOK
  <1>9. /\ wire' \in Seq(Wires) /\ Len(wire') = n
        /\ wire'[n] = None /\ \A j \in Dialled : wire'[j] = wire[j]
    <2>1. None \in Wires
      BY DEF Wires
    <2> QED
      BY <1>2, <1>4, <2>1, AppendProperties, SMTT(40) DEF TypeOK
  <1>10. TypeOK'
    BY <1>2, <1>3, <1>4, <1>5, <1>6, <1>7, <1>8, <1>9 DEF TypeOK, Phases, Connecting
  <1>11. ProxyInv' /\ CheckInv'
    BY <1>1, <1>3, <1>4, <1>5, <1>6 DEF ProxyInv, CheckInv
  <1>12. \A j \in Dialled : /\ Challenge(j)' = Challenge(j) /\ Response(j)' = Response(j)
                            /\ KeyOn(j)' = KeyOn(j)
    BY <1>3 DEF Challenge, Response, EkmServer, EkmClient, KeyOn, client_transcript, Sign
  <1>13. WireInv' /\ IdentityInv'
    <2>1. WireInv'
      <3>1. \A j \in Dialled :
              /\ wire'[j] \in {None, Challenge(j)'} \/ check'[j] = "passed"
              /\ at'[j] = "challenged" =>
                    wire'[j] = Challenge(j)' \/ (check'[j] = "passed" /\ wire'[j] = Response(j)')
              /\ at'[j] \in Early => wire'[j] = None /\ (mode' = "wt" => check'[j] = "none")
        BY <1>4, <1>5, <1>7, <1>9, <1>12 DEF WireInv
      <3>2. wire'[n] = None /\ check'[n] = "none" /\ at'[n] # "challenged"
        BY <1>5, <1>7, <1>9
      <3> QED
        BY <1>3, <3>1, <3>2 DEF WireInv
    <2>2. IdentityInv'
      BY <1>3, <1>5, <1>7, <1>8, <1>12 DEF IdentityInv
    <2> QED
      BY <2>1, <2>2
  <1>14. PhaseInv'
    <2> SUFFICES ASSUME NEW j \in Dialled', Mine(j)',
                        phase'[net'[j].client] \in {"answered", "opening", "session"}
                 PROVE  check'[j] = "passed"
      BY DEF PhaseInv
    <2>1. CASE j = n
      BY <1>1, <1>3, <1>4, <2>1 DEF TypeOK
    <2>2. CASE j \in Dialled
      <3>1. net'[j] = net[j] /\ net[j].client \in Clients /\ j # n
        BY <1>2, <1>3, <2>2, Indices DEF Link
      <3>2. net[j].client # c
        BY <1>4, <3>1 DEF Mine, TypeOK
      <3>3. Mine(j) /\ phase[net[j].client] \in {"answered", "opening", "session"}
        BY <1>4, <3>1, <3>2 DEF Mine, TypeOK
      <3> QED
        BY <1>5, <2>2, <3>3 DEF PhaseInv
    <2> QED
      BY <1>3, <2>1, <2>2
  <1>15. PinHolds'
    BY <1>3, <1>4, <1>6 DEF PinHolds, lookup_known_host
  <1>16. PermitsConserved'
    <2> SUFFICES ASSUME NEW s \in Servers
                 PROVE  {i \in Dialled : net[i].server = s /\ at[i] = "handshake"}'
                          = {i \in Dialled : net[i].server = s /\ at[i] = "handshake"}
      BY <1>4 DEF PermitsConserved
    <2> QED
      BY <1>3, <1>7
  <1> QED
    BY <1>10, <1>11, <1>13, <1>14, <1>15, <1>16

\* A client that quits while it waits to dial again preserves the invariant.
LEMMA QuitIInv ==
    ASSUME IInv, NEW c \in Clients, QuitInBackoff(c)
    PROVE  IInv'
  <1> USE DEF IInv
  <1>1. /\ phase' = [phase EXCEPT ![c] = "quit"]
        /\ UNCHANGED <<mode, known, permits, conn, net, check, found, at, id, wire>>
    BY DEF QuitInBackoff
  <1>2. NetKept
    BY <1>1, NetSame
  <1>3. TypeOK'
    BY <1>1 DEF TypeOK, Phases, Ended
  <1>4. ProxyInv' /\ CheckInv' /\ WireInv' /\ IdentityInv'
    BY <1>1, <1>2, MessagesKept DEF ProxyInv, CheckInv, WireInv, IdentityInv, NetKept
  <1>5. PhaseInv'
    BY <1>1, Indices DEF PhaseInv, Mine, TypeOK, Link, Dialled
  <1> QED
    BY <1>1, <1>2, <1>3, <1>4, <1>5, PinKept, PermitsKept

---------------------------------------------------------------------------
(* The server's steps. *)

\* A permit is taken where a handler enters its handshake and given back where
\* it leaves it: the permits are conserved.
LEMMA PermitsMoved ==
    ASSUME IInv, NEW i \in Dialled, NEW s \in Handlers, NetKept,
           at' = [at EXCEPT ![i] = s],
           (at[i] = "handshake" /\ s # "handshake") => Release(i),
           (at[i] # "handshake" /\ s = "handshake") =>
               permits' = [permits EXCEPT ![net[i].server] = @ - 1],
           (at[i] = "handshake" <=> s = "handshake") => UNCHANGED permits
    PROVE  PermitsConserved' /\ permits' \in [Servers -> Int]
  <1> USE DEF IInv
  <1> DEFINE Held(r) == {j \in Dialled : net[j].server = r /\ at[j] = "handshake"}
  <1>1. permits \in [Servers -> Int] /\ net[i].server \in Servers /\ IsFiniteSet(Dialled)
    BY Indices DEF TypeOK, Link
  <1>2. \A j \in Dialled : at'[j] = IF j = i THEN s ELSE at[j]
    BY Indices
  <1>3. permits' \in [Servers -> Int]
    BY <1>1 DEF Release
  <1>4. ASSUME NEW r \in Servers
        PROVE  permits'[r] + Cardinality(Held(r)') = MaxPermits
    <2>1. IsFiniteSet(Held(r)) /\ Cardinality(Held(r)) \in Int
      BY <1>1, FS_Subset, FS_CardinalityType
    <2>2. permits[r] + Cardinality(Held(r)) = MaxPermits
      BY DEF PermitsConserved
    <2>3. Held(r)' = {j \in Dialled : net[j].server = r /\ at'[j] = "handshake"}
      BY DEF NetKept
    <2>4. CASE net[i].server # r
      <3>1. Held(r)' = Held(r)
        BY <1>2, <2>3, <2>4
      <3>2. permits'[r] = permits[r]
        BY <1>1, <2>4 DEF Release
      <3> QED
        BY <2>2, <3>1, <3>2
    <2>5. CASE net[i].server = r /\ at[i] = "handshake" /\ s # "handshake"
      <3>1. Held(r)' = Held(r) \ {i} /\ i \in Held(r)
        BY <1>2, <2>3, <2>5
      <3>2. permits'[r] = permits[r] + 1
        BY <1>1, <2>5 DEF Release
      <3>3. Cardinality(Held(r) \ {i}) = Cardinality(Held(r)) - 1
        BY <2>1, <3>1, FS_RemoveElement
      <3> HIDE DEF Held
      <3> QED
        BY <1>1, <2>1, <2>2, <3>1, <3>2, <3>3, ConnectAssumption
    <2>6. CASE net[i].server = r /\ at[i] # "handshake" /\ s = "handshake"
      <3>1. Held(r)' = Held(r) \cup {i} /\ i \notin Held(r)
        BY <1>2, <2>3, <2>6
      <3>2. permits'[r] = permits[r] - 1
        BY <1>1, <2>6
      <3>3. Cardinality(Held(r) \cup {i}) = Cardinality(Held(r)) + 1
        BY <2>1, <3>1, FS_AddElement
      <3> HIDE DEF Held
      <3> QED
        BY <1>1, <2>1, <2>2, <3>1, <3>2, <3>3, ConnectAssumption
    <2>7. CASE at[i] = "handshake" <=> s = "handshake"
      <3>1. Held(r)' = Held(r)
        BY <1>2, <2>3, <2>7
      <3> QED
        BY <2>2, <2>7, <3>1
    <2> QED
      BY <2>4, <2>5, <2>6, <2>7
  <1> QED
    BY <1>3, <1>4 DEF PermitsConserved

\* A handler that moves on without reading or writing a message, and without
\* identifying anybody, preserves the invariant.
LEMMA HandlerStep ==
    ASSUME IInv, NEW i \in Dialled, NEW s \in Handlers \ {"challenged"}, NetKept,
           at' = [at EXCEPT ![i] = s],
           s \in Early => at[i] \in Early,
           s \in {"first", "session"} => at[i] = "first",
           PermitsConserved' /\ permits' \in [Servers -> Int],
           UNCHANGED <<mode, known, phase, conn, check, found, id, wire>>
    PROVE  IInv'
  <1> USE DEF IInv
  <1>1. /\ at' \in Seq(Handlers) /\ Len(at') = Len(at)
        /\ \A j \in Dialled : at'[j] = IF j = i THEN s ELSE at[j]
    BY Indices, ExceptSeq DEF TypeOK
  <1>2. TypeOK'
    BY <1>1 DEF TypeOK, NetKept
  <1>3. ProxyInv' /\ CheckInv'
    BY DEF ProxyInv, CheckInv, NetKept
  <1>4. WireInv'
    BY <1>1, MessagesKept DEF WireInv, NetKept
  <1>5. IdentityInv'
    BY <1>1, MessagesKept DEF IdentityInv, NetKept
  <1>6. PhaseInv'
    BY DEF PhaseInv, NetKept, Mine
  <1> QED
    BY <1>2, <1>3, <1>4, <1>5, <1>6, PinKept

\* The handler's steps that only move it preserve the invariant.
LEMMA HandlerSteps ==
    ASSUME IInv, NEW i \in Dialled,
           \/ AcceptIncoming(i) \/ WtAccept(i) \/ FirstFrame(i)
           \/ AuthTimeout(i) \/ HandlerNotices(i)
    PROVE  IInv'
  <1>1. /\ {"handshake", "stream", "first", "session", "closed", "timedout"} \subseteq Handlers
        /\ {"incoming", "handshake", "stream"} = Early /\ TypeOK
    BY DEF Handlers, Early, IInv
  <1>2. CASE AcceptIncoming(i)
    <2>1. NetKept
      BY <1>1, <1>2, NetDown, NetSame DEF AcceptIncoming
    <2>2. PICK s \in {"handshake", "closed"} :
             /\ at' = [at EXCEPT ![i] = s] /\ at[i] = "incoming"
             /\ s = "handshake" => permits' = [permits EXCEPT ![net[i].server] = @ - 1]
             /\ s = "closed" => UNCHANGED permits
             /\ UNCHANGED <<mode, known, phase, conn, check, found, id, wire>>
      BY <1>2 DEF AcceptIncoming, clientVars
    <2>3. PermitsConserved' /\ permits' \in [Servers -> Int]
      BY <1>1, <2>1, <2>2, PermitsMoved
    <2> QED
      BY <1>1, <2>1, <2>2, <2>3, HandlerStep
  <1>3. CASE WtAccept(i)
    <2>1. NetKept
      BY <1>1, <1>3, NetSame DEF WtAccept
    <2>2. /\ at' = [at EXCEPT ![i] = "stream"] /\ at[i] = "handshake" /\ Release(i)
          /\ UNCHANGED <<mode, known, phase, conn, check, found, id, wire>>
      BY <1>3 DEF WtAccept, clientVars
    <2>3. PermitsConserved' /\ permits' \in [Servers -> Int]
      BY <1>1, <2>1, <2>2, PermitsMoved
    <2> QED
      BY <1>1, <2>1, <2>2, <2>3, HandlerStep
  <1>4. CASE FirstFrame(i)
    <2>1. NetKept
      BY <1>1, <1>4, NetSame DEF FirstFrame
    <2>2. /\ at' = [at EXCEPT ![i] = "session"] /\ at[i] = "first"
          /\ UNCHANGED <<mode, known, phase, conn, check, found, id, wire, permits>>
      BY <1>4 DEF FirstFrame, clientVars
    <2>3. PermitsConserved' /\ permits' \in [Servers -> Int]
      BY <1>1, <2>1, <2>2, PermitsMoved
    <2> QED
      BY <1>1, <2>1, <2>2, <2>3, HandlerStep
  <1>5. CASE AuthTimeout(i) \/ HandlerNotices(i)
    <2>1. NetKept
      BY <1>1, <1>5, NetDown, NetSame DEF AuthTimeout, HandlerNotices
    <2>2. PICK s \in {"timedout", "closed"} :
             /\ EndHandler(i, s)
             /\ UNCHANGED <<mode, known, phase, conn, check, found, id, wire>>
      BY <1>5 DEF AuthTimeout, HandlerNotices, clientVars
    <2>3. PermitsConserved' /\ permits' \in [Servers -> Int]
      BY <1>1, <2>1, <2>2, PermitsMoved DEF EndHandler
    <2> QED
      BY <1>1, <2>1, <2>2, <2>3, HandlerStep DEF EndHandler
  <1> QED
    BY <1>2, <1>3, <1>4, <1>5

\* A native server identifies a client by the certificate of its handshake,
\* whose key is the client's own; a rejection gives the permit back too.
LEMMA VerifyClientCertIInv ==
    ASSUME IInv, NEW i \in Dialled, VerifyClientCert(i)
    PROVE  IInv'
  <1> USE DEF IInv
  <1>1. NetKept
    BY NetDown, NetSame DEF VerifyClientCert
  <1>2. /\ at[i] = "handshake" /\ mode = "native" /\ check[i] = "passed" /\ Release(i)
        /\ UNCHANGED <<mode, known, phase, conn, check, found, wire>>
    BY DEF VerifyClientCert, clientVars
  <1>3. KeyOn(i) \in Keys
    BY Indices, ConnectAssumption DEF KeyOn, Link
  <1>4. PICK s \in {"first", "rejected"} :
           /\ at' = [at EXCEPT ![i] = s]
           /\ s = "first" => id' = [id EXCEPT ![i] = KeyOn(i)] /\ KeyOn(i) \in Authorized
           /\ s = "rejected" => UNCHANGED id
    BY DEF VerifyClientCert, check_authorized_key
  <1>5. s \in Handlers
    BY DEF Handlers
  <1>6. /\ at' \in Seq(Handlers) /\ Len(at') = Len(at)
        /\ \A j \in Dialled : at'[j] = IF j = i THEN s ELSE at[j]
    BY <1>4, <1>5, Indices, ExceptSeq DEF TypeOK
  <1>7. /\ id' \in Seq(Keys \cup {None}) /\ Len(id') = Len(id)
        /\ \A j \in Dialled : id'[j] = IF j = i /\ s = "first" THEN KeyOn(i) ELSE id[j]
    <2>1. CASE s = "first"
      <3>1. id' = [id EXCEPT ![i] = KeyOn(i)] /\ KeyOn(i) \in Keys \cup {None}
               /\ id \in Seq(Keys \cup {None}) /\ i \in 1..Len(id)
        BY <1>3, <1>4, <2>1, Indices DEF TypeOK
      <3> QED
        BY <2>1, <3>1, Indices, ExceptSeq DEF TypeOK
    <2>2. CASE s = "rejected"
      BY <1>4, <2>2 DEF TypeOK
    <2> QED
      BY <2>1, <2>2
  <1>8. PermitsConserved' /\ permits' \in [Servers -> Int]
    BY <1>1, <1>2, <1>4, <1>5, PermitsMoved
  <1>9. TypeOK'
    BY <1>1, <1>2, <1>6, <1>7, <1>8 DEF TypeOK, NetKept
  <1>10. ProxyInv' /\ CheckInv'
    BY <1>1, <1>2 DEF ProxyInv, CheckInv, NetKept
  <1>11. WireInv'
    BY <1>1, <1>2, <1>6, MessagesKept DEF WireInv, NetKept, Early
  <1>12. IdentityInv'
    BY <1>1, <1>2, <1>4, <1>6, <1>7, MessagesKept DEF IdentityInv, NetKept
  <1>13. PhaseInv'
    BY <1>1, <1>2 DEF PhaseInv, NetKept, Mine
  <1> QED
    BY <1>1, <1>2, <1>8, <1>9, <1>10, <1>11, <1>12, <1>13, PinKept

\* The server's challenge carries the binding of its own TLS session.
LEMMA SendChallengeIInv ==
    ASSUME IInv, NEW i \in Dialled, SendChallenge(i)
    PROVE  IInv'
  <1> USE DEF IInv
  <1>1. /\ at[i] = "stream" /\ at' = [at EXCEPT ![i] = "challenged"]
        /\ wire' = [wire EXCEPT ![i] = Challenge(i)]
        /\ UNCHANGED <<mode, known, permits, phase, conn, net, check, found, id>>
    BY DEF SendChallenge, clientVars, Challenge
  <1>2. NetKept /\ i \in Nat
    BY <1>1, NetSame, Indices DEF TypeOK
  <1>3. Challenge(i) \in Wires
    BY <1>2 DEF Challenge, Wires, Ekm, EkmServer, EkmClient
  <1>4. /\ wire' \in Seq(Wires) /\ Len(wire') = Len(wire)
        /\ \A j \in Dialled : wire'[j] = IF j = i THEN Challenge(i) ELSE wire[j]
    BY <1>1, <1>3, Indices, ExceptSeq DEF TypeOK
  <1>5. "challenged" \in Handlers
    BY DEF Handlers
  <1>6. /\ at' \in Seq(Handlers) /\ Len(at') = Len(at)
        /\ \A j \in Dialled : at'[j] = IF j = i THEN "challenged" ELSE at[j]
    BY <1>1, <1>5, Indices, ExceptSeq DEF TypeOK
  <1>7. PermitsConserved' /\ permits' \in [Servers -> Int]
    BY <1>1, <1>2, <1>5, PermitsMoved
  <1>8. TypeOK'
    BY <1>1, <1>2, <1>4, <1>6 DEF TypeOK
  <1>9. ProxyInv' /\ CheckInv'
    BY <1>1, <1>2 DEF ProxyInv, CheckInv, NetKept
  <1>10. WireInv'
    BY <1>1, <1>2, <1>4, <1>6, MessagesKept DEF WireInv, NetKept, Early
  <1>11. IdentityInv'
    BY <1>1, <1>2, <1>6, MessagesKept DEF IdentityInv, NetKept
  <1>12. PhaseInv'
    BY <1>1, <1>2 DEF PhaseInv, NetKept, Mine
  <1> QED
    BY <1>1, <1>2, <1>7, <1>8, <1>9, <1>10, <1>11, <1>12, PinKept

\* The server identifies a client by the response, which the client made for
\* this connection after its own check had passed.
LEMMA RecvResponseIInv ==
    ASSUME IInv, NEW i \in Dialled, RecvResponse(i)
    PROVE  IInv'
  <1> USE DEF IInv
  <1>1. NetKept /\ i \in Nat /\ net[i].server \in Servers
    <2>1. net' = [net EXCEPT ![i].up = FALSE] \/ UNCHANGED net
      BY Zenon DEF RecvResponse
    <2>2. i \in Nat /\ net[i].server \in Servers
      BY Indices DEF TypeOK, Link
    <2> QED
      BY <2>1, <2>2, NetDown, NetSame
  <1>2. /\ at[i] = "challenged" /\ UNCHANGED <<mode, known, phase, conn, check, found, permits>>
    BY DEF RecvResponse, clientVars
  <1>3. wire[i] = Response(i) /\ check[i] = "passed"
    <2>1. wire[i].t = "InnerAuthResponse"
      BY DEF RecvResponse
    <2>2. wire[i] # Challenge(i)
      BY <2>1 DEF Challenge
    <2> QED
      BY <1>2, <2>2 DEF WireInv
  <1>4. wire[i].spki = KeyOn(i) /\ KeyOn(i) \in Keys
    BY <1>3, Indices, ConnectAssumption DEF Response, KeyOn, Link
  <1>5. Fail \in Wires /\ Complete(i) \in Wires
    BY <1>1, <1>4 DEF Fail, Complete, Wires, Ekm, EkmServer, EkmClient, Sign, server_transcript
  <1>6. PICK s \in {"first", "rejected"} :
           /\ at' = [at EXCEPT ![i] = s]
           /\ \/ wire' = [wire EXCEPT ![i] = Complete(i)]
              \/ wire' = [wire EXCEPT ![i] = Fail]
           /\ s = "first" => id' = [id EXCEPT ![i] = KeyOn(i)] /\ KeyOn(i) \in Authorized
           /\ s = "rejected" => UNCHANGED id
    BY <1>4 DEF RecvResponse, check_authorized_key, Complete, Fail
  <1>7. s \in Handlers
    BY DEF Handlers
  <1>8. /\ at' \in Seq(Handlers) /\ Len(at') = Len(at)
        /\ \A j \in Dialled : at'[j] = IF j = i THEN s ELSE at[j]
    BY <1>6, <1>7, Indices, ExceptSeq DEF TypeOK
  <1>9. /\ id' \in Seq(Keys \cup {None}) /\ Len(id') = Len(id)
        /\ \A j \in Dialled : id'[j] = IF j = i /\ s = "first" THEN KeyOn(i) ELSE id[j]
    <2>1. CASE s = "first"
      <3>1. id' = [id EXCEPT ![i] = KeyOn(i)] /\ KeyOn(i) \in Keys \cup {None}
               /\ id \in Seq(Keys \cup {None}) /\ i \in 1..Len(id)
        BY <1>4, <1>6, <2>1, Indices DEF TypeOK
      <3> QED
        BY <2>1, <3>1, Indices, ExceptSeq DEF TypeOK
    <2>2. CASE s = "rejected"
      BY <1>6, <2>2 DEF TypeOK
    <2> QED
      BY <2>1, <2>2
  <1>10. /\ wire' \in Seq(Wires) /\ Len(wire') = Len(wire)
         /\ \A j \in Dialled : j # i => wire'[j] = wire[j]
    <2>1. PICK m \in Wires : wire' = [wire EXCEPT ![i] = m]
      BY <1>5, <1>6
    <2> QED
      BY <2>1, Indices, ExceptSeq DEF TypeOK
  <1>11. PermitsConserved' /\ permits' \in [Servers -> Int]
    BY <1>1, <1>2, <1>6, <1>7, PermitsMoved
  <1>12. TypeOK'
    BY <1>1, <1>2, <1>8, <1>9, <1>10, <1>11 DEF TypeOK, NetKept
  <1>13. ProxyInv' /\ CheckInv'
    BY <1>1, <1>2 DEF ProxyInv, CheckInv, NetKept
  <1>14. WireInv'
    BY <1>1, <1>2, <1>3, <1>8, <1>10, MessagesKept DEF WireInv, NetKept, Early
  <1>15. IdentityInv'
    BY <1>1, <1>2, <1>3, <1>6, <1>8, <1>9, MessagesKept DEF IdentityInv, NetKept
  <1>16. PhaseInv'
    BY <1>1, <1>2 DEF PhaseInv, NetKept, Mine
  <1> QED
    BY <1>1, <1>2, <1>11, <1>12, <1>13, <1>14, <1>15, <1>16, PinKept

\* The network's drop of a connection preserves the invariant.
LEMMA LoseIInv ==
    ASSUME IInv, NEW i \in Dialled, Lose(i)
    PROVE  IInv'
  <1> USE DEF IInv
  <1>1. /\ NetKept
        /\ UNCHANGED <<mode, known, permits, phase, conn, check, found, at, id, wire>>
    BY NetDown DEF Lose, clientVars
  <1>2. TypeOK'
    BY <1>1 DEF TypeOK, NetKept
  <1>3. ProxyInv' /\ CheckInv'
    BY <1>1 DEF ProxyInv, CheckInv, NetKept
  <1>4. WireInv' /\ IdentityInv'
    BY <1>1, MessagesKept DEF WireInv, IdentityInv, NetKept
  <1>5. PhaseInv'
    BY <1>1 DEF PhaseInv, NetKept, Mine
  <1> QED
    BY <1>1, <1>2, <1>3, <1>4, <1>5, PinKept, PermitsKept

---------------------------------------------------------------------------
(* The theorems. *)

\* With no connection dialled every permit is free.
LEMMA InitIInv == Init => IInv
  <1> SUFFICES ASSUME Init PROVE IInv
    OBVIOUS
  <1> USE DEF Init
  <1>1. Dialled = {} /\ Len(net) = 0
    BY DEF Dialled
  <1>2. TypeOK
    BY <1>1, ConnectAssumption DEF TypeOK, Phases
  <1>3. PermitsConserved
    <2> SUFFICES ASSUME NEW s \in Servers
                 PROVE  permits[s] + Cardinality({i \in Dialled : net[i].server = s
                                                     /\ at[i] = "handshake"}) = MaxPermits
      BY DEF PermitsConserved
    <2> DEFINE held == {i \in Dialled : net[i].server = s /\ at[i] = "handshake"}
    <2>1. held = {} /\ permits[s] = MaxPermits
      BY <1>1
    <2>2. Cardinality({}) = 0
      BY FS_EmptySet
    <2> HIDE DEF held
    <2>3. permits[s] + Cardinality(held) = MaxPermits
      BY <2>1, <2>2, ConnectAssumption
    <2> QED
      BY <2>3 DEF held
  <1> QED
    BY <1>1, <1>2, <1>3
      DEF IInv, ProxyInv, WireInv, CheckInv, IdentityInv, PhaseInv, PinHolds

\* Every step preserves the invariant.
LEMMA NextIInv == IInv /\ [Next]_vars => IInv'
  <1> SUFFICES ASSUME IInv, [Next]_vars PROVE IInv'
    OBVIOUS
  <1>1. CASE UNCHANGED vars
    <2>1. NetKept /\ TypeOK'
      BY <1>1, NetSame DEF vars, IInv, TypeOK
    <2>2. ProxyInv' /\ CheckInv'
      BY <1>1, <2>1 DEF vars, IInv, ProxyInv, CheckInv, NetKept
    <2>3. WireInv' /\ IdentityInv'
      BY <1>1, <2>1, MessagesKept DEF vars, IInv, WireInv, IdentityInv, NetKept
    <2>4. PhaseInv'
      BY <1>1, <2>1 DEF vars, IInv, PhaseInv, NetKept, Mine
    <2> QED
      BY <1>1, <2>1, <2>2, <2>3, <2>4, PinKept, PermitsKept DEF vars, IInv
  <1>2. ASSUME NEW c \in Clients, Dial(c) \/ QuitInBackoff(c) PROVE IInv'
    BY <1>2, DialIInv, QuitIInv
  <1>3. ASSUME NEW i \in Dialled, ClientStep(i) PROVE IInv'
    BY <1>3, VerifyServerCertIInv, PromptAcceptIInv, PromptDeclineIInv, SupervisorSteps,
       RecvChallengeIInv, SendResponseIInv DEF ClientStep
  <1>4. ASSUME NEW i \in Dialled, ServerStep(i) PROVE IInv'
    BY <1>4, HandlerSteps, VerifyClientCertIInv, SendChallengeIInv, RecvResponseIInv
      DEF ServerStep
  <1>5. ASSUME NEW i \in Dialled, Lose(i) PROVE IInv'
    BY <1>5, LoseIInv
  <1> QED
    BY <1>1, <1>2, <1>3, <1>4, <1>5 DEF Next, Quiet

\* The inductive invariant of dialling, authenticating and accepting.
THEOREM Invariance == Spec => []IInv
  BY InitIInv, NextIInv, PTL DEF Spec

\* A session is mutual, over QUIC and over WebTransport, with a proxy or without.
THEOREM Mutual == Spec => []SessionIsMutual
  <1>1. IInv => SessionIsMutual
    BY DEF IInv, IdentityInv, PhaseInv, CheckInv, SessionIsMutual
  <1> QED
    BY <1>1, Invariance, PTL

\* No way a handshake can end keeps or invents a pre-auth permit.
THEOREM Permits == Spec => []PermitsConserved
  BY Invariance, PTL DEF IInv

\* What a lookup of known_hosts found is what every later lookup finds.
THEOREM Pins == Spec => []PinHolds
  BY Invariance, PTL DEF IInv

-----------------------------------------------------------------------------
(* The framing of a reliable stream.  First, induction without operator    *)
(* parameters, which the recursive functions of Framing call for.          *)

(* A non-empty set of natural numbers has a least element.                 *)
LEMMA LeastNat ==
  ASSUME NEW T \in SUBSET Nat, T # {}
  PROVE  \E n \in T : \A m \in T : n <= m
<1>1. PICK x \in T : \A y \in T : ~ (<<y, x>> \in OpToRel(<, Nat))
  BY WFMin, NatLessThanWellFounded
<1>2. \A y \in T : ~ (y < x)
  BY <1>1 DEF OpToRel
<1> QED
  BY <1>2

(* What holds at 0 and is carried from one number to the next holds up to n.*)
LEMMA UpTo ==
  ASSUME NEW n \in Nat, NEW S, 0 \in S, \A i \in 1 .. n : i - 1 \in S => i \in S
  PROVE  \A i \in 0 .. n : i \in S
<1> DEFINE T == {i \in Nat : i <= n /\ i \notin S}
<1> SUFFICES ASSUME T # {} PROVE FALSE
  OBVIOUS
<1>1. PICK m \in T : \A k \in T : m <= k
  BY LeastNat
<1>2. m # 0
  OBVIOUS
<1>3. m - 1 \in Nat /\ m - 1 \notin T /\ m \in 1 .. n
  BY <1>1, <1>2
<1> QED
  BY <1>3

IsStep(g, X, n) == g \in [X \X (1 .. n) -> X]
IsRun(f, n, X, b, g) ==
  f \in [0 .. n -> X] /\ f[0] = b /\ \A i \in 1 .. n : f[i] = g[<<f[i - 1], i>>]

(* A loop over 1 .. n whose step g stays in X has a run.                   *)
LEMMA LoopExists ==
  ASSUME NEW n \in Nat, NEW X, NEW b \in X, NEW g, IsStep(g, X, n)
  PROVE  \E f : IsRun(f, n, X, b, g)
<1> USE DEF IsStep
<1> DEFINE Is(k, f) == /\ f \in [0 .. k -> X] /\ f[0] = b
                       /\ \A i \in 1 .. k : f[i] = g[<<f[i - 1], i>>]
           S == {k \in 0 .. n : \E f : Is(k, f)}
<1>1. 0 \in S
  <2>1. Is(0, [i \in 0 .. 0 |-> b])
    OBVIOUS
  <2>2. \E f : Is(0, f)
    BY <2>1
  <2> HIDE DEF Is
  <2> QED
    BY <2>2
<1>2. ASSUME NEW k \in 1 .. n, k - 1 \in S
      PROVE  k \in S
  <2>1. PICK f : Is(k - 1, f)
    BY <1>2
  <2> DEFINE h == [i \in 0 .. k |-> IF i < k THEN f[i] ELSE g[<<f[k - 1], k>>]]
  <2> HIDE DEF Is
  <2>2. k - 1 \in Nat /\ k - 1 >= 0 /\ k - 1 < k
    OBVIOUS
  <2>3. f \in [0 .. (k - 1) -> X] /\ f[0] = b
    BY <2>1 DEF Is
  <2>4. g[<<f[k - 1], k>>] \in X
    BY <2>2, <2>3
  <2>5. h \in [0 .. k -> X]
    BY <2>2, <2>3, <2>4
  <2>6. h[0] = b
    BY <2>3
  <2>7. ASSUME NEW i \in 1 .. k
        PROVE  h[i] = g[<<h[i - 1], i>>]
    <3>1. h[i - 1] = f[i - 1]
      OBVIOUS
    <3>2. CASE i = k
      <4>1. h[k] = g[<<f[k - 1], k>>]
        OBVIOUS
      <4> HIDE DEF h
      <4> QED
        BY <3>1, <3>2, <4>1
    <3>3. CASE i < k
      <4>1. h[i] = f[i]
        BY <3>3
      <4>2. i \in 1 .. (k - 1)
        BY <3>3
      <4>3. f[i] = g[<<f[i - 1], i>>]
        BY <2>1, <4>2 DEF Is
      <4> HIDE DEF h
      <4> QED
        BY <3>1, <4>1, <4>3
    <3> QED
      BY <3>2, <3>3
  <2>8. Is(k, h)
    BY <2>5, <2>6, <2>7 DEF Is
  <2> QED
    BY <2>8
<1> HIDE DEF S
<1>3. \A i \in 0 .. n : i \in S
  BY UpTo, <1>1, <1>2
<1>4. PICK f : Is(n, f)
  BY <1>3, SMTT(40) DEF S
<1> QED
  BY <1>4 DEF IsRun

(* Taking off digits: each rest is the one before it without its last      *)
(* digit.                                                                  *)
LEMMA RestsAre ==
  ASSUME NEW m \in Nat
  PROVE  /\ Frames!Rests(m) \in [0 .. HeaderLen -> Nat]
         /\ Frames!Rests(m)[0] = m
         /\ \A k \in 1 .. HeaderLen : Frames!Rests(m)[k] = Frames!Rests(m)[k - 1] \div Base
<1> DEFINE X == Nat
           b == m
           n == HeaderLen
           after[k \in 0 .. n] == IF k = 0 THEN b ELSE after[k - 1] \div Base
           g == [p \in X \X (1 .. n) |-> p[1] \div Base]
<1>1. n \in Nat /\ b \in X /\ Base \in Nat \ {0}
  BY FrameAssumption DEF Frames!FramingAssumption
<1>2. ASSUME NEW x \in X, NEW i \in 1 .. n
      PROVE  x \div Base \in X
  BY <1>1
<1> HIDE DEF X, b, n
<1>3. IsStep(g, X, n)
  BY <1>2 DEF IsStep
<1>4. PICK f : IsRun(f, n, X, b, g)
  <2> HIDE DEF g
  <2> QED
    BY <1>1, <1>3, LoopExists
<1>5. f = [i \in 0 .. n |-> IF i = 0 THEN b ELSE f[i - 1] \div Base]
  <2>1. ASSUME NEW i \in 1 .. n
        PROVE  f[i] = f[i - 1] \div Base
    <3>1. f[i - 1] \in X /\ f[i] = g[<<f[i - 1], i>>]
      <4> HIDE DEF g
      <4>1. i - 1 \in 0 .. n
        BY <1>1
      <4> QED
        BY <1>4, <4>1 DEF IsRun
    <3> QED
      BY <3>1
  <2> HIDE DEF g
  <2> QED
    BY <1>1, <1>4, <2>1 DEF IsRun
<1>6. after = [i \in 0 .. n |-> IF i = 0 THEN b ELSE after[i - 1] \div Base]
  BY <1>5, Zenon
<1>7. after \in [0 .. n -> X]
  <2> HIDE DEF after
  <2> DEFINE S == {i \in 0 .. n : after[i] \in X}
  <2>1. 0 \in S
    BY <1>1, <1>6
  <2>2. ASSUME NEW i \in 1 .. n, i - 1 \in S PROVE i \in S
    <3>1. after[i - 1] \in X /\ i \in 0 .. n
      BY <1>1, <2>2
    <3>2. after[i] = after[i - 1] \div Base
      BY <1>1, <1>6, <3>1
    <3> QED
      BY <1>2, <3>1, <3>2
  <2> HIDE DEF S
  <2>3. \A i \in 0 .. n : i \in S
    BY <1>1, <2>1, <2>2, UpTo
  <2>4. \A i \in 0 .. n : after[i] \in X
    BY <2>3 DEF S
  <2> QED
    BY <1>6, <2>4
<1>8. Frames!Rests(m) = after
  BY DEF Frames!Rests, n, b
<1> HIDE DEF after
<1>9. after[0] = m /\ \A k \in 1 .. n : after[k] = after[k - 1] \div Base
  BY <1>1, <1>6 DEF b
<1> QED
  BY <1>7, <1>8, <1>9 DEF X, n

(* The value of a sequence of bytes is a number.                           *)
LEMMA ValueIs ==
  ASSUME NEW d \in Seq(Nat)
  PROVE  Frames!FromBytes(d) \in Nat
<1> DEFINE X == Nat
           b == 0
           n == Len(d)
           after[i \in 0 .. n] == IF i = 0 THEN b ELSE after[i - 1] * Base + d[i]
           g == [p \in X \X (1 .. n) |-> p[1] * Base + d[p[2]]]
<1>1. n \in Nat /\ b \in X /\ Base \in Nat
  BY FrameAssumption DEF Frames!FramingAssumption
<1>2. ASSUME NEW x \in X, NEW i \in 1 .. n
      PROVE  x * Base + d[i] \in X
  <2>1. d[i] \in Nat /\ x * Base \in Nat
    BY <1>1
  <2> QED
    BY <2>1
<1> HIDE DEF X, b, n
<1>3. IsStep(g, X, n)
  BY <1>2 DEF IsStep
<1>4. PICK f : IsRun(f, n, X, b, g)
  <2> HIDE DEF g
  <2> QED
    BY <1>1, <1>3, LoopExists
<1>5. f = [i \in 0 .. n |-> IF i = 0 THEN b ELSE f[i - 1] * Base + d[i]]
  <2>1. ASSUME NEW i \in 1 .. n
        PROVE  f[i] = f[i - 1] * Base + d[i]
    <3>1. f[i - 1] \in X /\ f[i] = g[<<f[i - 1], i>>]
      <4> HIDE DEF g
      <4>1. i - 1 \in 0 .. n
        BY <1>1
      <4> QED
        BY <1>4, <4>1 DEF IsRun
    <3> QED
      BY <3>1
  <2> HIDE DEF g
  <2> QED
    BY <1>1, <1>4, <2>1 DEF IsRun
<1>6. after = [i \in 0 .. n |-> IF i = 0 THEN b ELSE after[i - 1] * Base + d[i]]
  BY <1>5, Zenon
<1>7. after[n] \in X
  <2> HIDE DEF after
  <2> DEFINE S == {i \in 0 .. n : after[i] \in X}
  <2>1. 0 \in S
    BY <1>1, <1>6
  <2>2. ASSUME NEW i \in 1 .. n, i - 1 \in S PROVE i \in S
    <3>1. after[i - 1] \in X /\ i \in 0 .. n
      BY <1>1, <2>2
    <3>2. after[i] = after[i - 1] * Base + d[i]
      BY <1>1, <1>6, <3>1
    <3> QED
      BY <1>2, <3>1, <3>2
  <2> HIDE DEF S
  <2>3. \A i \in 0 .. n : i \in S
    BY <1>1, <2>1, <2>2, UpTo
  <2> QED
    BY <1>1, <2>3 DEF S
<1>8. Frames!FromBytes(d) = after[n]
  BY DEF Frames!FromBytes, n, b
<1> HIDE DEF after
<1> QED
  BY <1>7, <1>8 DEF X

(* A length takes HeaderLen bytes.                                         *)
LEMMA DigitsAre ==
  ASSUME NEW m \in Nat
  PROVE  /\ Frames!ToBytes(m) \in Seq(Nat) /\ Len(Frames!ToBytes(m)) = HeaderLen
         /\ HeaderLen \in Nat \ {0}
<1> DEFINE R == Frames!Rests(m)
<1>1. HeaderLen \in Nat \ {0} /\ Base \in Nat \ {0}
  BY FrameAssumption DEF Frames!FramingAssumption
<1>2. R \in [0 .. HeaderLen -> Nat] /\ \A k \in 1 .. HeaderLen : R[k] = R[k - 1] \div Base
  BY RestsAre
<1> HIDE DEF R
<1>3. ASSUME NEW i \in 1 .. HeaderLen
      PROVE  R[HeaderLen - i] - Base * R[HeaderLen - i + 1] \in Nat
  <2> DEFINE x == R[HeaderLen - i]
             y == R[HeaderLen - i + 1]
  <2>1. HeaderLen - i \in 0 .. HeaderLen /\ HeaderLen - i + 1 \in 1 .. HeaderLen
        /\ (HeaderLen - i + 1) - 1 = HeaderLen - i
    BY <1>1
  <2>2. x \in Nat /\ y \in Nat /\ y = x \div Base
    BY <1>2, <2>1
  <2> HIDE DEF x, y
  <2>3. Base * (x \div Base) <= x
    BY <1>1, <2>2
  <2>4. Base * y <= x /\ Base * y \in Nat
    BY <1>1, <2>2, <2>3
  <2>5. x - Base * y \in Nat
    BY <2>2, <2>4
  <2> QED
    BY <2>5 DEF x, y
<1>4. Frames!ToBytes(m) = [i \in 1 .. HeaderLen |-> R[HeaderLen - i] - Base * R[HeaderLen - i + 1]]
  BY DEF Frames!ToBytes, R
<1>5. Frames!ToBytes(m) \in [1 .. HeaderLen -> Nat]
  BY <1>3, <1>4
<1> QED
  BY <1>1, <1>5

(* The length read is the length written.                                  *)
LEMMA RoundTrip ==
  ASSUME NEW m \in 0 .. MAX_FRAME_LEN
  PROVE  Frames!FromBytes(Frames!ToBytes(m)) = m
<1> DEFINE R == Frames!Rests(m)
           d == Frames!ToBytes(m)
           n == HeaderLen
           f == [i \in 0 .. n |-> R[n - i]]
           after[i \in 0 .. n] == IF i = 0 THEN 0 ELSE after[i - 1] * Base + d[i]
<1>1. n \in Nat \ {0} /\ Base \in Nat \ {0} /\ MAX_FRAME_LEN \in Nat /\ m \in Nat /\ R[n] = 0
  BY FrameAssumption DEF Frames!FramingAssumption
<1>2. R \in [0 .. n -> Nat] /\ R[0] = m
  BY <1>1, RestsAre
<1>3. d = [i \in 1 .. n |-> R[n - i] - Base * R[n - i + 1]] /\ Len(d) = n
  BY <1>1, DigitsAre DEF Frames!ToBytes
<1>4. Frames!FromBytes(d) = after[n]
  BY <1>3 DEF Frames!FromBytes
<1> HIDE DEF R, d, n
<1>5. ASSUME NEW i \in 1 .. n
      PROVE  f[i] = f[i - 1] * Base + d[i]
  <2> DEFINE x == R[n - i]
             y == R[n - i + 1]
  <2>1. n - i \in 0 .. n /\ n - i + 1 \in 0 .. n /\ i - 1 \in 0 .. n /\ i \in 0 .. n
        /\ n - (i - 1) = n - i + 1
    BY <1>1
  <2>2. f[i] = x /\ f[i - 1] = y /\ d[i] = x - Base * y /\ x \in Nat /\ y \in Nat
    BY <1>2, <1>3, <2>1
  <2> HIDE DEF f, x, y
  <2>3. y * Base = Base * y /\ Base * y \in Nat
    BY <1>1, <2>2
  <2> QED
    BY <2>2, <2>3
<1>6. f[0] = 0 /\ f[n] = m
  BY <1>1, <1>2
<1>7. f = [i \in 0 .. n |-> IF i = 0 THEN 0 ELSE f[i - 1] * Base + d[i]]
  <2>1. ASSUME NEW i \in 0 .. n
        PROVE  f[i] = IF i = 0 THEN 0 ELSE f[i - 1] * Base + d[i]
    <3> HIDE DEF f
    <3>1. i # 0 => i \in 1 .. n
      BY <1>1
    <3> QED
      BY <1>5, <1>6, <3>1
  <2> QED
    BY <2>1
<1> HIDE DEF f
<1>8. after = [i \in 0 .. n |-> IF i = 0 THEN 0 ELSE after[i - 1] * Base + d[i]]
  BY <1>7, Zenon
<1>9. after[n] = f[n]
  <2> HIDE DEF after
  <2> DEFINE S == {i \in 0 .. n : after[i] = f[i]}
  <2>1. 0 \in S
    BY <1>1, <1>6, <1>8
  <2>2. ASSUME NEW i \in 1 .. n, i - 1 \in S PROVE i \in S
    <3>1. after[i - 1] = f[i - 1] /\ i \in 0 .. n
      BY <1>1, <2>2
    <3>2. after[i] = after[i - 1] * Base + d[i]
      BY <1>1, <1>8, <3>1
    <3> QED
      BY <1>5, <3>1, <3>2
  <2> HIDE DEF S
  <2>3. \A i \in 0 .. n : i \in S
    BY <1>1, <2>1, <2>2, UpTo
  <2> QED
    BY <1>1, <2>3 DEF S
<1> HIDE DEF after
<1> QED
  BY <1>4, <1>6, <1>9 DEF d

(* Joining is associative.                                                 *)
LEMMA Assoc == \A b1, b2, b3 \in Seq(Nat) : (b1 \o b2) \o b3 = b1 \o (b2 \o b3)
BY ConcatAssociative, SMTT(40)

(* Joined byte sequences are one.                                          *)
LEMMA Joined == \A x, y \in Seq(Nat) : x \o y \in Seq(Nat) /\ Len(x \o y) = Len(x) + Len(y)
OBVIOUS

(* Two ways of cutting a stream in two at the same place are the same.     *)
LEMMA CutOnce ==
  ASSUME NEW x \in Seq(Nat), NEW y \in Seq(Nat), NEW u \in Seq(Nat), NEW v \in Seq(Nat),
         x \o y = u \o v, Len(x) = Len(u)
  PROVE  x = u /\ y = v
<1>1. Len(y) = Len(v)
  <2>1. Len(x \o y) = Len(x) + Len(y) /\ Len(u \o v) = Len(u) + Len(v)
    BY ConcatProperties
  <2> QED
    BY <2>1
<1>2. ASSUME NEW i \in 1 .. Len(x) PROVE x[i] = u[i]
  <2>1. (x \o y)[i] = x[i] /\ (u \o v)[i] = u[i]
    OBVIOUS
  <2> QED
    BY <2>1
<1>3. ASSUME NEW i \in 1 .. Len(y) PROVE y[i] = v[i]
  <2>0. Len(x) + i \in (Len(x) + 1) .. (Len(x) + Len(y)) /\ (Len(x) + i) - Len(x) = i
    OBVIOUS
  <2> DEFINE k == Len(x) + i
  <2> HIDE DEF k
  <2>3. k \in 1 .. (Len(x) + Len(y)) /\ ~ (k <= Len(x)) /\ k - Len(x) = i
    BY <2>0 DEF k
  <2>1. (x \o y)[k] = y[k - Len(x)]
    BY <2>3, ConcatProperties
  <2>2. (u \o v)[k] = v[k - Len(u)]
    BY <1>1, <2>3, ConcatProperties
  <2> QED
    BY <2>3, <2>1, <2>2
<1>4. x = u
  BY <1>2, SeqEqual
<1> QED
  BY <1>1, <1>3, <1>4, SeqEqual

\* A read that is pending, or has all its bytes.
Reads ==
  {r \in [at : {"len", "body"}, need : Nat, buf : Seq(Nat)] :
     /\ Len(r.buf) <= r.need
     /\ r.at = "len" => r.need = HeaderLen
     /\ r.at = "body" => r.need <= MAX_FRAME_LEN}

\* What the read has taken from the stream.
Held(r) == (IF r.at = "body" THEN Frames!ToBytes(r.need) ELSE <<>>) \o r.buf

(* A read of a body holds its length, then its buffer.                     *)
LEMMA HeldJoins ==
  ASSUME NEW r \in Reads, r.at = "body", NEW y \in Seq(Nat)
  PROVE  Held(r) \o y = Frames!ToBytes(r.need) \o (r.buf \o y)
<1> DEFINE hd == Frames!ToBytes(r.need)
           bf == r.buf
<1>1. hd \in Seq(Nat) /\ bf \in Seq(Nat)
  BY DigitsAre DEF Reads
<1>2. Held(r) = hd \o bf
  BY DEF Held
<1> HIDE DEF hd, bf
<1>3. (hd \o bf) \o y = hd \o (bf \o y)
  BY <1>1, Assoc
<1> QED
  BY <1>2, <1>3, Zenon DEF hd, bf

(* read_exact moves bytes from the stream into its buffer and loses none.  *)
LEMMA TakeIs ==
  ASSUME NEW r \in Reads, NEW a \in Seq(Nat)
  PROVE  LET t == Frames!Take(r, a)
         IN  /\ t.read \in Reads /\ t.read.at = r.at /\ t.read.need = r.need
             /\ t.rest \in Seq(Nat) /\ t.read.buf \o t.rest = r.buf \o a
<1> DEFINE k == r.need - Len(r.buf)
           c == IF k < Len(a) THEN k ELSE Len(a)
           p == SubSeq(a, 1, c)
           q == SubSeq(a, c + 1, Len(a))
           b == r.buf \o p
<1>1. r.need \in Nat /\ r.buf \in Seq(Nat) /\ Len(r.buf) <= r.need /\ r.at \in {"len", "body"}
      /\ r = [at |-> r.at, need |-> r.need, buf |-> r.buf]
  BY DEF Reads
<1>2. k \in Nat /\ c \in 0 .. Len(a) /\ c <= k
  BY <1>1
<1>3. Frames!Take(r, a) = [read |-> [r EXCEPT !.buf = b], rest |-> q]
  BY DEF Frames!Take
<1> HIDE DEF c
<1>4. p \in Seq(Nat) /\ Len(p) = c /\ q \in Seq(Nat) /\ Len(q) = Len(a) - c
  BY <1>2
<1>5. p \o q = a
  <2>1. 1 \in 1 .. (Len(a) + 1) /\ c \in (1 - 1) .. Len(a) /\ Len(a) \in c .. Len(a)
    BY <1>2
  <2>2. p \o q = SubSeq(a, 1, Len(a))
    BY <2>1, ConcatAdjacentSubSeq
  <2>3. SubSeq(a, 1, Len(a)) = a
    OBVIOUS
  <2> QED
    BY <2>2, <2>3, Zenon
<1> HIDE DEF p, q
<1>6. b \in Seq(Nat) /\ Len(b) <= r.need
  <2>1. Len(b) = Len(r.buf) + c
    BY <1>1, <1>4, Joined
  <2> QED
    BY <1>1, <1>2, <1>4, <2>1
<1>7. b \o q = r.buf \o a
  BY <1>1, <1>4, <1>5, Assoc, Zenon
<1> HIDE DEF b
<1>8. [r EXCEPT !.buf = b] \in Reads
  BY <1>1, <1>6 DEF Reads
<1>9. [r EXCEPT !.buf = b].at = r.at /\ [r EXCEPT !.buf = b].need = r.need
      /\ [r EXCEPT !.buf = b].buf = b
  BY <1>1
<1> QED
  <2> DEFINE w == [r EXCEPT !.buf = b]
             t == Frames!Take(r, a)
  <2>1. t.read = w /\ t.rest = q
    BY <1>3
  <2>2. w \in Reads /\ w.at = r.at /\ w.need = r.need /\ w.buf = b
    BY <1>8, <1>9
  <2> HIDE DEF w, t
  <2>3. t.read.buf \o t.rest = r.buf \o a
    BY <1>7, <2>1, <2>2, Zenon
  <2>4. t.read \in Reads /\ t.read.at = r.at /\ t.read.need = r.need
    BY <2>1, <2>2
  <2>5. t.rest \in Seq(Nat)
    BY <1>4, <2>1
  <2> QED
    BY <2>3, <2>4, <2>5 DEF t

(* A poll leaves a pending or a full read.                                 *)
LEMMA PolledIs ==
  ASSUME NEW r \in Reads, NEW a \in Seq(Nat)
  PROVE  LET t == Frames!Polled(r, a)
         IN  t.read \in Reads /\ t.rest \in Seq(Nat)
<1> DEFINE t == Frames!Take(r, a)
           v == Frames!FromBytes(t.read.buf)
           body == [at |-> "body", need |-> v, buf |-> <<>>]
<1>1. t.read \in Reads /\ t.rest \in Seq(Nat)
  BY TakeIs
<1> HIDE DEF t
<1>2. v \in Nat
  BY <1>1, ValueIs DEF Reads
<1>3. CASE t.read.at = "len" /\ Frames!Full(t.read) /\ ~Frames!TooLarge(v)
  <2>1. MAX_FRAME_LEN \in Nat
    BY FrameAssumption DEF Frames!FramingAssumption
  <2>2. body \in Reads
    BY <1>2, <1>3, <2>1 DEF Reads, Frames!TooLarge
  <2>3. Frames!Polled(r, a) = Frames!Take(body, t.rest)
    BY <1>3 DEF Frames!Polled, t
  <2> HIDE DEF body
  <2> QED
    BY <1>1, <2>2, <2>3, TakeIs
<1>4. CASE ~ (t.read.at = "len" /\ Frames!Full(t.read) /\ ~Frames!TooLarge(v))
  <2>1. Frames!Polled(r, a) = t
    BY <1>4 DEF Frames!Polled, t
  <2> QED
    BY <1>1, <2>1
<1> QED
  BY <1>3, <1>4

\* What the read has taken, and x after it, are the frame of m and z after it.
AtFrame(r, x, m, z) == Held(r) \o x = Frames!encode(m) \o z

(* A poll of a stream that goes on with the frame of m loses no byte of it,*)
(* reads no length but that of m, and returns no body but m.               *)
LEMMA PolledInStep ==
  ASSUME NEW r \in Reads, NEW a \in Seq(Nat), NEW fl \in Seq(Nat), NEW z \in Seq(Nat),
         NEW m \in Seq(Nat), Len(m) <= MAX_FRAME_LEN,
         AtFrame(r, a \o fl, m, z)
  PROVE  LET t == Frames!Polled(r, a)
         IN  /\ AtFrame(t.read, t.rest \o fl, m, z)
             /\ Frames!Full(t.read) =>
                  t.read.at = "body" /\ t.read.buf = m /\ t.rest \o fl = z
<1> DEFINE t == Frames!Take(r, a)
           w == t.read
           L == Len(m)
           D == Frames!ToBytes(L)
           e == D \o (m \o z)
           v == Frames!FromBytes(w.buf)
<1>1. /\ w \in Reads /\ w.at = r.at /\ w.need = r.need /\ t.rest \in Seq(Nat)
      /\ w.buf \o t.rest = r.buf \o a
  BY TakeIs
<1>2. L \in Nat /\ L \in 0 .. MAX_FRAME_LEN /\ D \in Seq(Nat) /\ Len(D) = HeaderLen
  BY FrameAssumption, DigitsAre DEF Frames!FramingAssumption
<1>3. Frames!FromBytes(D) = L
  BY <1>2, RoundTrip
<1> HIDE DEF t, w, L, D
<1>4. Frames!encode(m) \o z = e
  BY <1>2, Assoc, ZenonT(40) DEF Frames!encode, L, D
<1>5. /\ r.buf \in Seq(Nat) /\ r.need \in Nat /\ r.at \in {"len", "body"}
      /\ w.buf \in Seq(Nat) /\ m \o z \in Seq(Nat) /\ t.rest \o fl \in Seq(Nat)
      /\ (w.at = "len" => w.need = HeaderLen) /\ (w.at = "body" => w.need <= MAX_FRAME_LEN)
  BY <1>1 DEF Reads
<1>5a. t.rest \in Seq(Nat) /\ w.buf \in Seq(Nat)
  BY <1>1, <1>5
<1>5b. r.buf \in Seq(Nat)
  BY <1>5
<1>5c. a \o fl \in Seq(Nat) /\ t.rest \o fl \in Seq(Nat)
  BY <1>5a
<1>6. w.buf \o (t.rest \o fl) = r.buf \o (a \o fl)
  <2>1. w.buf \o (t.rest \o fl) = (w.buf \o t.rest) \o fl
    BY <1>5a, Assoc, ZenonT(40)
  <2>2. r.buf \o (a \o fl) = (r.buf \o a) \o fl
    BY <1>5b, Assoc, Zenon
  <2> QED
    BY <1>1, <2>1, <2>2
<1>7. ASSUME NEW s \in Reads, NEW x \in Seq(Nat), s.at = "body", AtFrame(s, x, m, z)
      PROVE  s.need = L /\ s.buf \o x = m \o z
  <2>1. s.need \in Nat /\ s.need \in 0 .. MAX_FRAME_LEN /\ s.buf \in Seq(Nat)
    BY <1>7, FrameAssumption DEF Reads, Frames!FramingAssumption
  <2> DEFINE hd == Frames!ToBytes(s.need)
  <2>2. hd \in Seq(Nat) /\ Len(hd) = HeaderLen /\ Frames!FromBytes(hd) = s.need
    BY <2>1, DigitsAre, RoundTrip
  <2> HIDE DEF hd
  <2>4. hd \o (s.buf \o x) = D \o (m \o z)
    <3>2. Held(s) \o x = hd \o (s.buf \o x)
      BY <1>7, HeldJoins DEF hd
    <3>3. Held(s) \o x = e
      BY <1>4, <1>7 DEF AtFrame
    <3> QED
      BY <3>2, <3>3, Zenon
  <2>5. s.buf \o x \in Seq(Nat)
    BY <2>1
  <2>6. hd = D /\ s.buf \o x = m \o z
    <3> DEFINE y == s.buf \o x
               w1 == m \o z
    <3>1. /\ hd \in Seq(Nat) /\ D \in Seq(Nat) /\ y \in Seq(Nat) /\ w1 \in Seq(Nat)
          /\ Len(hd) = Len(D) /\ hd \o y = D \o w1
      BY <1>2, <1>5, <2>2, <2>4, <2>5
    <3> HIDE DEF y, w1
    <3>2. hd = D /\ y = w1
      BY <3>1, CutOnce, ZenonT(40)
    <3> QED
      BY <3>2 DEF y, w1
  <2> QED
    BY <1>3, <2>2, <2>6
<1>8. ASSUME NEW s \in Reads, NEW x \in Seq(Nat), s.at = "body", AtFrame(s, x, m, z),
             Frames!Full(s)
      PROVE  s.buf = m /\ x = z
  <2>1. s.need = L /\ s.buf \o x = m \o z
    BY <1>7, <1>8
  <2>2. Len(s.buf) = Len(m) /\ s.buf \in Seq(Nat)
    BY <1>8, <2>1 DEF Frames!Full, L, Reads
  <2> QED
    BY <2>1, <2>2, CutOnce, Zenon
<1>9. CASE r.at = "body"
  <2>1. Frames!Polled(r, a) = t
    BY <1>1, <1>9 DEF Frames!Polled, t, w
  <2>2. AtFrame(w, t.rest \o fl, m, z)
    <3>3. Held(w) \o (t.rest \o fl) = Frames!ToBytes(w.need) \o (w.buf \o (t.rest \o fl))
      BY <1>1, <1>5c, <1>9, HeldJoins
    <3>4. Held(r) \o (a \o fl) = Frames!ToBytes(r.need) \o (r.buf \o (a \o fl))
      BY <1>5c, <1>9, HeldJoins
    <3>5. Held(w) \o (t.rest \o fl) = Held(r) \o (a \o fl)
      BY <1>1, <1>6, <3>3, <3>4, Zenon
    <3> QED
      BY <3>5, Zenon DEF AtFrame
  <2>3. Frames!Full(w) => w.buf = m /\ t.rest \o fl = z
    BY <1>1, <1>5, <1>8, <1>9, <2>2
  <2> HIDE DEF e
  <2> QED
    BY <1>1, <1>4, <1>9, <2>1, <2>2, <2>3 DEF w
<1>10. CASE r.at = "len"
  <2>1. Held(r) = r.buf /\ Held(w) = w.buf
    BY <1>1, <1>5, <1>10 DEF Held
  <2>2. w.buf \o (t.rest \o fl) = D \o (m \o z)
    <3>1. r.buf \o (a \o fl) = e
      BY <1>4, <2>1 DEF AtFrame
    <3> QED
      BY <1>6, <3>1, Zenon
  <2>3. CASE ~Frames!Full(w)
    <3>1. Frames!Polled(r, a) = t
      BY <2>3 DEF Frames!Polled, t, w
    <3>2. AtFrame(w, t.rest \o fl, m, z)
      BY <1>4, <2>1, <2>2, Zenon DEF AtFrame
    <3> QED
      BY <2>3, <3>1, <3>2 DEF w
  <2>4. CASE Frames!Full(w)
    <3>1. Len(w.buf) = HeaderLen
      BY <1>1, <1>5, <1>10, <2>4 DEF Frames!Full
    <3>2. w.buf = D /\ t.rest \o fl = m \o z
      <4>1. D \in Seq(Nat) /\ m \o z \in Seq(Nat) /\ Len(w.buf) = Len(D)
        BY <1>2, <1>5, <3>1
      <4> QED
        BY <1>5a, <1>5c, <2>2, <4>1, CutOnce, ZenonT(40)
    <3>3. Frames!FromBytes(w.buf) = L /\ ~Frames!TooLarge(L) /\ w.at = "len"
      <4>1. MAX_FRAME_LEN \in Nat
        BY FrameAssumption DEF Frames!FramingAssumption
      <4>2. ~Frames!TooLarge(L)
        BY <1>2, <4>1 DEF Frames!TooLarge
      <4>3. Frames!FromBytes(w.buf) = L
        BY <1>3, <3>2, Zenon
      <4> QED
        BY <1>1, <1>10, <4>2, <4>3
    <3> DEFINE body == [at |-> "body", need |-> L, buf |-> <<>>]
               u == Frames!Take(body, t.rest)
    <3>4. Frames!Polled(r, a) = u
      BY <2>4, <3>3 DEF Frames!Polled, t, w
    <3>5. body \in Reads /\ body.buf = <<>> /\ body.at = "body" /\ body.need = L
      BY <1>2 DEF Reads
    <3> HIDE DEF body
    <3>6. /\ u.read \in Reads /\ u.read.at = "body" /\ u.read.need = L /\ u.rest \in Seq(Nat)
          /\ u.read.buf \o u.rest = body.buf \o t.rest
      BY <1>1, <3>5, TakeIs
    <3> HIDE DEF u
    <3>7. u.read.buf \o u.rest = t.rest /\ u.read.buf \in Seq(Nat)
      BY <1>1, <3>5, <3>6 DEF Reads
    <3>9. AtFrame(u.read, u.rest \o fl, m, z)
      <4>1. u.rest \o fl \in Seq(Nat)
        BY <3>6
      <4>2. Held(u.read) \o (u.rest \o fl) = D \o (u.read.buf \o (u.rest \o fl))
        BY <3>6, <4>1, HeldJoins DEF D
      <4>3. u.read.buf \o (u.rest \o fl) = (u.read.buf \o u.rest) \o fl
        BY <3>6, <3>7, Assoc, Zenon
      <4>4. Held(u.read) \o (u.rest \o fl) = e
        BY <3>2, <3>7, <4>2, <4>3, Zenon
      <4> QED
        BY <1>4, <4>4, Zenon DEF AtFrame
    <3>10. Frames!Full(u.read) => u.read.buf = m /\ u.rest \o fl = z
      <4>1. u.rest \o fl \in Seq(Nat)
        BY <3>6
      <4> QED
        BY <1>8, <3>6, <3>9, <4>1
    <3> HIDE DEF e
    <3> QED
      BY <1>4, <3>4, <3>6, <3>9, <3>10
  <2> QED
    BY <2>3, <2>4
<1> QED
  BY <1>5, <1>9, <1>10

\* What is still on the stream once the first k messages are off it: the rest after k,
\* for every k, of the messages in s.
IsRest(rs, s) ==
  /\ rs \in [0 .. Len(s) -> Seq(Nat)] /\ rs[Len(s)] = <<>>
  /\ \A k \in 1 .. Len(s) : rs[k - 1] = Frames!encode(s[k]) \o rs[k]

\* The stream is in step: the messages returned are the first ones sent, and what was
\* taken of the next one, has arrived and is on its way is exactly the rest.
InStep(s, o, r, onway) ==
  /\ o \in Seq(Messages) /\ Len(o) <= Len(s) /\ \A i \in 1 .. Len(o) : o[i] = s[i]
  /\ \E rs : IsRest(rs, s) /\ Held(r) \o onway = rs[Len(o)]

Sendable == {m \in Messages : Len(m) <= MAX_FRAME_LEN}

(* The inductive invariant of a reliable stream.                           *)
FramingInv ==
  /\ sent \in Seq(Sendable) /\ got \in Seq(Messages)
  /\ flight \in Seq(Nat) /\ arrived \in Seq(Nat) /\ lost \in Seq(Nat)
  /\ read \in Reads
  /\ lost = <<>> => /\ result \in {"reading", "Io"}
                    /\ InStep(sent, got, read, arrived \o flight)

(* Messages are byte sequences, and encode gives one that is not empty.    *)
LEMMA EncodeIs ==
  ASSUME NEW m \in Messages
  PROVE  m \in Seq(Nat) /\ Frames!encode(m) \in Seq(Nat) /\ Frames!encode(m) # <<>>
<1>1. m \in Seq(Nat)
  BY FrameAssumption DEF Frames!FramingAssumption
<1> DEFINE D == Frames!ToBytes(Len(m))
<1>2. D \in Seq(Nat) /\ Len(D) = HeaderLen /\ HeaderLen \in Nat \ {0}
  BY <1>1, DigitsAre
<1> HIDE DEF D
<1>3. D \o m \in Seq(Nat) /\ Len(D \o m) = Len(D) + Len(m)
  BY <1>1, <1>2, Joined
<1>4. Len(D \o m) # 0
  BY <1>1, <1>2, <1>3
<1>5. D \o m # <<>>
  BY <1>4
<1> QED
  BY <1>1, <1>3, <1>5 DEF Frames!encode, D

(* A body that is a message decodes to it and to no other one.             *)
LEMMA DecodeIs ==
  ASSUME NEW m \in Messages
  PROVE  Frames!decode(m) = {m}
<1>1. Messages \subseteq Seq(Nat) /\ \A x, y \in Messages : Frames!IsPrefix(x, y) => x = y
  BY FrameAssumption DEF Frames!FramingAssumption
<1>2. Frames!IsPrefix(m, m)
  BY <1>1 DEF Frames!IsPrefix
<1> QED
  BY <1>1, <1>2 DEF Frames!decode

(* A read that has just begun holds nothing.                               *)
LEMMA FreshIs ==
  /\ Frames!FreshRead \in Reads /\ Held(Frames!FreshRead) = <<>>
  /\ \A r \in Reads : r.at = "len" /\ r.buf = <<>> => r = Frames!FreshRead
<1>1. HeaderLen \in Nat
  BY FrameAssumption DEF Frames!FramingAssumption
<1>2. Frames!FreshRead \in Reads
  BY <1>1 DEF Frames!FreshRead, Reads
<1>3. Held(Frames!FreshRead) = <<>>
  BY DEF Frames!FreshRead, Held
<1>4. ASSUME NEW r \in Reads, r.at = "len", r.buf = <<>> PROVE r = Frames!FreshRead
  BY <1>4 DEF Frames!FreshRead, Reads
<1> QED
  BY <1>2, <1>3, <1>4

(* What a read holds is a sequence of bytes, and empty only at the start.  *)
LEMMA HeldIs ==
  ASSUME NEW r \in Reads
  PROVE  Held(r) \in Seq(Nat) /\ (Held(r) = <<>> => r = Frames!FreshRead)
<1>1. r.need \in Nat /\ r.buf \in Seq(Nat) /\ r.at \in {"len", "body"}
  BY DEF Reads
<1>2. CASE r.at = "body"
  <2> DEFINE D == Frames!ToBytes(r.need)
             bf == r.buf
  <2>1. D \in Seq(Nat) /\ Len(D) = HeaderLen /\ HeaderLen \in Nat \ {0}
    BY <1>1, DigitsAre
  <2>2. Held(r) = D \o bf /\ bf \in Seq(Nat)
    BY <1>1, <1>2 DEF Held
  <2> HIDE DEF D, bf
  <2>3. D \o bf \in Seq(Nat) /\ Len(D \o bf) = Len(D) + Len(bf)
    BY <2>1, <2>2, Joined
  <2>4. Len(D \o bf) # 0
    BY <2>1, <2>2, <2>3
  <2> QED
    BY <2>2, <2>3, <2>4
<1>3. CASE r.at = "len"
  <2>1. Held(r) = r.buf
    BY <1>1, <1>3 DEF Held
  <2> QED
    BY <1>1, <1>3, <2>1, FreshIs
<1> QED
  BY <1>1, <1>2, <1>3

(* While anything is left of a stream in step, a next message is on it.    *)
LEMMA NextFrame ==
  ASSUME NEW s \in Seq(Sendable), NEW o, NEW r \in Reads, NEW onway \in Seq(Nat),
         NEW rs, IsRest(rs, s), o \in Seq(Messages), Len(o) <= Len(s),
         Held(r) \o onway = rs[Len(o)], r # Frames!FreshRead \/ onway # <<>>
  PROVE  LET k == Len(o) + 1
         IN  /\ k \in 1 .. Len(s) /\ s[k] \in Sendable /\ s[k] \in Seq(Nat)
             /\ rs[k] \in Seq(Nat) /\ AtFrame(r, onway, s[k], rs[k])
<1> DEFINE k == Len(o) + 1
           h == Held(r)
<1>1. h \in Seq(Nat) /\ (h = <<>> => r = Frames!FreshRead)
  BY HeldIs
<1>2. h \o onway = rs[Len(o)]
  OBVIOUS
<1> HIDE DEF h
<1>3. h \o onway # <<>>
  <2>1. Len(h \o onway) = Len(h) + Len(onway)
    BY <1>1, Joined
  <2>2. Len(h) # 0 \/ Len(onway) # 0
    BY <1>1
  <2>3. Len(h) \in Nat /\ Len(onway) \in Nat
    BY <1>1
  <2>4. Len(h \o onway) # 0
    BY <2>1, <2>2, <2>3
  <2> QED
    BY <2>4
<1>4. Len(o) # Len(s)
  BY <1>2, <1>3 DEF IsRest
<1>5. Len(o) \in Nat /\ Len(s) \in Nat
  OBVIOUS
<1>6. k \in 1 .. Len(s) /\ k - 1 = Len(o) /\ k \in 0 .. Len(s)
  BY <1>4, <1>5
<1>7. rs[k - 1] = Frames!encode(s[k]) \o rs[k] /\ rs[k] \in Seq(Nat)
  BY <1>6 DEF IsRest
<1>8. s[k] \in Sendable /\ s[k] \in Seq(Nat)
  BY <1>6, EncodeIs DEF Sendable
<1>9. AtFrame(r, onway, s[k], rs[k])
  BY <1>2, <1>6, <1>7, Zenon DEF AtFrame, h
<1> QED
  BY <1>6, <1>7, <1>8, <1>9

(* Writing a message puts its frame at the end of the stream.              *)
LEMMA WriteInStep ==
  ASSUME NEW s \in Seq(Sendable), NEW o, NEW r \in Reads, NEW a \in Seq(Nat), NEW fl \in Seq(Nat),
         InStep(s, o, r, a \o fl), NEW m \in Sendable
  PROVE  InStep(Append(s, m), o, r, a \o (fl \o Frames!encode(m)))
<1> DEFINE c == Frames!encode(m)
           n == Len(s)
           s2 == Append(s, m)
           h == Held(r)
<1>1. PICK rs : IsRest(rs, s) /\ h \o (a \o fl) = rs[Len(o)]
  BY DEF InStep
<1>2. o \in Seq(Messages) /\ Len(o) <= Len(s) /\ \A i \in 1 .. Len(o) : o[i] = s[i]
  BY DEF InStep
<1>3. c \in Seq(Nat) /\ h \in Seq(Nat)
  BY EncodeIs, HeldIs DEF Sendable
<1> DEFINE q == [k \in 0 .. (n + 1) |-> IF k = n + 1 THEN <<>> ELSE rs[k] \o c]
<1> HIDE DEF c, h
<1>4. /\ s2 \in Seq(Sendable) /\ Len(s2) = n + 1 /\ n \in Nat /\ s2[n + 1] = m
      /\ \A k \in 1 .. n : s2[k] = s[k]
  OBVIOUS
<1> HIDE DEF s2, n
<1>5. /\ rs \in [0 .. n -> Seq(Nat)] /\ rs[n] = <<>>
      /\ \A k \in 1 .. n : rs[k - 1] = Frames!encode(s[k]) \o rs[k]
  BY <1>1 DEF IsRest, n
<1>6. q \in [0 .. (n + 1) -> Seq(Nat)]
  <2>1. ASSUME NEW k \in 0 .. (n + 1), k # n + 1 PROVE rs[k] \o c \in Seq(Nat)
    <3>1. rs[k] \in Seq(Nat)
      BY <1>4, <1>5, <2>1
    <3> QED
      BY <1>3, <3>1, Joined
  <2>2. <<>> \in Seq(Nat)
    OBVIOUS
  <2> QED
    BY <2>1, <2>2
<1>7. ASSUME NEW k \in 1 .. (n + 1)
      PROVE  q[k - 1] = Frames!encode(s2[k]) \o q[k]
  <2>1. k - 1 \in 0 .. (n + 1) /\ k - 1 # n + 1 /\ k \in 0 .. (n + 1) /\ k - 1 \in 0 .. n
    BY <1>4
  <2>2. q[k - 1] = rs[k - 1] \o c
    BY <2>1
  <2>3. CASE k = n + 1
    <3>1. q[k] = <<>> /\ rs[k - 1] = <<>> /\ s2[k] = m
      BY <1>4, <1>5, <2>1, <2>3
    <3>2. q[k - 1] = c
      BY <1>3, <2>2, <3>1
    <3>3. c \o <<>> = c
      BY <1>3
    <3> HIDE DEF q
    <3> QED
      BY <3>1, <3>2, <3>3, Zenon DEF c
  <2>4. CASE k # n + 1
    <3>1. k \in 1 .. n /\ q[k] = rs[k] \o c /\ s2[k] = s[k]
      BY <1>4, <2>1, <2>4
    <3>2. rs[k - 1] = Frames!encode(s[k]) \o rs[k] /\ rs[k] \in Seq(Nat)
      <4>1. k \in 0 .. n
        BY <1>4, <3>1
      <4> QED
        BY <1>5, <3>1, <4>1
    <3>3. s[k] \in Messages
      BY <3>1 DEF Sendable, n
    <3> DEFINE f == Frames!encode(s[k])
    <3>4. f \in Seq(Nat)
      BY <3>3, EncodeIs
    <3> HIDE DEF f, q
    <3>5. (f \o rs[k]) \o c = f \o (rs[k] \o c)
      BY <1>3, <3>2, <3>4, Assoc
    <3>6. rs[k - 1] = f \o rs[k]
      BY <3>2 DEF f
    <3> QED
      BY <2>2, <3>1, <3>5, <3>6, Zenon DEF f
  <2> QED
    BY <2>3, <2>4
<1>8. q[n + 1] = <<>>
  BY <1>4
<1>9. IsRest(q, s2)
  <2> HIDE DEF q
  <2> QED
    BY <1>4, <1>6, <1>7, <1>8 DEF IsRest
<1>10. h \o (a \o (fl \o c)) = q[Len(o)]
  <2>1. Len(o) \in 0 .. n /\ Len(o) # n + 1
    BY <1>2, <1>4 DEF n
  <2>2. q[Len(o)] = rs[Len(o)] \o c
    BY <1>4, <2>1
  <2> HIDE DEF q
  <2>3. a \o (fl \o c) = (a \o fl) \o c
    BY <1>3, Assoc
  <2>4. a \o fl \in Seq(Nat)
    BY Joined
  <2> DEFINE af == a \o fl
  <2> HIDE DEF af
  <2>5. h \o (af \o c) = (h \o af) \o c
    BY <1>3, <2>4, Assoc, ZenonT(40) DEF af
  <2> QED
    BY <1>1, <2>2, <2>3, <2>5, Zenon DEF af
<1>11. Len(o) <= Len(s2) /\ \A i \in 1 .. Len(o) : o[i] = s2[i]
  <2>1. Len(o) \in Nat
    BY <1>2
  <2> QED
    BY <1>2, <1>4, <2>1 DEF n
<1> HIDE DEF q
<1>12. InStep(s2, o, r, a \o (fl \o c))
  <2>1. \E x : IsRest(x, s2) /\ Held(r) \o (a \o (fl \o c)) = x[Len(o)]
    BY <1>9, <1>10 DEF h
  <2> QED
    BY <1>2, <1>11, <2>1, Zenon DEF InStep
<1> QED
  BY <1>12 DEF s2, c

(* Every step of the framing keeps its invariant.                          *)
LEMMA FramingStep ==
  ASSUME FramingInv, Frames!Next
  PROVE  FramingInv'
<1>0. /\ sent \in Seq(Sendable) /\ got \in Seq(Messages) /\ flight \in Seq(Nat)
      /\ arrived \in Seq(Nat) /\ lost \in Seq(Nat) /\ read \in Reads
      /\ (lost = <<>> => result \in {"reading", "Io"})
      /\ (lost = <<>> => InStep(sent, got, read, arrived \o flight))
  BY DEF FramingInv
<1>1. CASE Frames!WriteMessage
  <2>1. PICK m \in Messages : /\ Len(m) <= MAX_FRAME_LEN /\ sent' = Append(sent, m)
                              /\ flight' = flight \o Frames!encode(m)
    BY <1>1 DEF Frames!WriteMessage
  <2>2. /\ arrived' = arrived /\ read' = read /\ got' = got /\ result' = result
        /\ lost' = lost
    BY <1>1 DEF Frames!WriteMessage
  <2>3. m \in Sendable /\ Frames!encode(m) \in Seq(Nat)
    BY <2>1, EncodeIs DEF Sendable
  <2>4. sent' \in Seq(Sendable)
    BY <1>0, <2>1, <2>3
  <2>5. flight' \in Seq(Nat)
    BY <1>0, <2>1, <2>3, Joined
  <2>6. lost = <<>> => InStep(sent', got, read, arrived \o flight')
    BY <1>0, <2>1, <2>3, WriteInStep
  <2> QED
    BY <1>0, <2>2, <2>4, <2>5, <2>6 DEF FramingInv
<1>2. CASE Frames!Finish
  <2>1. /\ sent' = sent /\ flight' = flight /\ arrived' = arrived /\ read' = read /\ got' = got
        /\ result' = result /\ lost' = lost
    BY <1>2 DEF Frames!Finish
  <2> QED
    BY <1>0, <2>1 DEF FramingInv
<1>3. CASE Frames!Arrive
  <2>1. PICK n \in 1 .. Len(flight) :
          /\ arrived' = arrived \o SubSeq(flight, 1, n)
          /\ flight' = SubSeq(flight, n + 1, Len(flight))
    BY <1>3 DEF Frames!Arrive
  <2>2. sent' = sent /\ read' = read /\ got' = got /\ result' = result /\ lost' = lost
    BY <1>3 DEF Frames!Arrive
  <2> DEFINE p == SubSeq(flight, 1, n)
             q == SubSeq(flight, n + 1, Len(flight))
  <2>3. p \in Seq(Nat) /\ q \in Seq(Nat)
    BY <1>0, SMTT(40)
  <2>4. p \o q = flight
    <3>1. 1 \in 1 .. (Len(flight) + 1) /\ n \in (1 - 1) .. Len(flight)
          /\ Len(flight) \in n .. Len(flight)
      BY <1>0
    <3>2. p \o q = SubSeq(flight, 1, Len(flight))
      BY <1>0, <3>1, ConcatAdjacentSubSeq
    <3>3. SubSeq(flight, 1, Len(flight)) = flight
      BY <1>0
    <3> QED
      BY <3>2, <3>3, Zenon
  <2>5. arrived' = arrived \o p /\ flight' = q
    BY <2>1
  <2> HIDE DEF p, q
  <2>6. arrived' \in Seq(Nat) /\ flight' \in Seq(Nat)
    BY <1>0, <2>3, <2>5, Joined
  <2>7. (arrived \o p) \o q = arrived \o (p \o q)
    BY <1>0, <2>3, Assoc, ZenonT(40)
  <2>8. arrived' \o flight' = arrived \o flight
    BY <2>4, <2>5, <2>7, Zenon
  <2>9. lost = <<>> => InStep(sent, got, read, arrived' \o flight')
    BY <1>0, <2>8, Zenon
  <2> QED
    BY <1>0, <2>2, <2>6, <2>9 DEF FramingInv
<1>4. CASE Frames!PollPending
  <2> DEFINE t == Frames!Polled(read, arrived)
  <2>1. arrived # <<>> /\ ~Frames!Full(t.read) /\ read' = t.read /\ arrived' = t.rest
    BY <1>4 DEF Frames!PollPending
  <2>2. sent' = sent /\ flight' = flight /\ got' = got /\ result' = result /\ lost' = lost
    BY <1>4 DEF Frames!PollPending
  <2>3. t.read \in Reads /\ t.rest \in Seq(Nat)
    BY <1>0, PolledIs
  <2>4. ASSUME lost = <<>> PROVE InStep(sent, got, t.read, t.rest \o flight)
    <3>1. PICK rs : IsRest(rs, sent) /\ Held(read) \o (arrived \o flight) = rs[Len(got)]
      BY <1>0, <2>4 DEF InStep
    <3>2. Len(got) <= Len(sent) /\ \A i \in 1 .. Len(got) : got[i] = sent[i]
      BY <1>0, <2>4 DEF InStep
    <3> DEFINE k == Len(got) + 1
    <3>3. arrived \o flight \in Seq(Nat) /\ arrived \o flight # <<>>
      <4>1. arrived \o flight \in Seq(Nat) /\ Len(arrived \o flight) = Len(arrived) + Len(flight)
        BY <1>0, Joined
      <4>2. Len(arrived) \in Nat \ {0} /\ Len(flight) \in Nat
        BY <1>0, <2>1
      <4>3. Len(arrived \o flight) # 0
        BY <4>1, <4>2
      <4> QED
        BY <4>1, <4>3
    <3>4. /\ k \in 1 .. Len(sent) /\ sent[k] \in Sendable /\ sent[k] \in Seq(Nat)
          /\ rs[k] \in Seq(Nat) /\ AtFrame(read, arrived \o flight, sent[k], rs[k])
      BY <1>0, <3>1, <3>2, <3>3, NextFrame
    <3>5. Len(sent[k]) <= MAX_FRAME_LEN
      BY <3>4 DEF Sendable
    <3>6. AtFrame(t.read, t.rest \o flight, sent[k], rs[k])
      <4> HIDE DEF k
      <4> QED
        BY <1>0, <3>4, <3>5, PolledInStep
    <3>7. rs[Len(got)] = Frames!encode(sent[k]) \o rs[k]
      <4>1. k - 1 = Len(got)
        BY <1>0
      <4> QED
        BY <3>1, <3>4, <4>1 DEF IsRest
    <3>8. Held(t.read) \o (t.rest \o flight) = rs[Len(got)]
      BY <3>6, <3>7, Zenon DEF AtFrame
    <3> HIDE DEF t
    <3> QED
      BY <1>0, <3>1, <3>2, <3>8, Zenon DEF InStep
  <2> HIDE DEF t
  <2>5. lost = <<>> => InStep(sent, got, read', arrived' \o flight)
    BY <2>1, <2>4, Zenon
  <2> QED
    BY <1>0, <2>1, <2>2, <2>3, <2>5 DEF FramingInv
<1>5. CASE Frames!PollReady
  <2> DEFINE t == Frames!Polled(read, arrived)
  <2>1. Frames!Full(t.read) /\ arrived' = t.rest /\ read' = Frames!FreshRead
    BY <1>5 DEF Frames!PollReady
  <2>2. sent' = sent /\ flight' = flight /\ lost' = lost /\ result = "reading"
    BY <1>5 DEF Frames!PollReady
  <2>3. t.read \in Reads /\ t.rest \in Seq(Nat)
    BY <1>0, PolledIs
  <2>4. \/ t.read.at = "len" /\ got' = got
        \/ t.read.at = "body" /\ Frames!decode(t.read.buf) = {} /\ got' = got
        \/ /\ t.read.at = "body" /\ result' = result
           /\ \E m \in Frames!decode(t.read.buf) : got' = Append(got, m)
    BY <1>5 DEF Frames!PollReady
  <2>5. got' \in Seq(Messages)
    <3>1. Frames!decode(t.read.buf) \subseteq Messages
      BY DEF Frames!decode
    <3>2. CASE got' = got
      BY <1>0, <3>2
    <3>3. CASE \E m \in Frames!decode(t.read.buf) : got' = Append(got, m)
      <4>1. PICK m \in Frames!decode(t.read.buf) : got' = Append(got, m)
        BY <3>3
      <4>2. m \in Messages
        BY <3>1, <4>1
      <4> QED
        BY <1>0, <4>1, <4>2
    <3> HIDE DEF t
    <3> QED
      BY <2>4, <3>2, <3>3, Zenon
  <2>6. ASSUME lost = <<>>
        PROVE  result' \in {"reading", "Io"} /\ InStep(sent, got', read', t.rest \o flight)
    <3>1. PICK rs : IsRest(rs, sent) /\ Held(read) \o (arrived \o flight) = rs[Len(got)]
      BY <1>0, <2>6 DEF InStep
    <3>2. Len(got) <= Len(sent) /\ \A i \in 1 .. Len(got) : got[i] = sent[i]
      BY <1>0, <2>6 DEF InStep
    <3> DEFINE k == Len(got) + 1
    <3>3. arrived \o flight \in Seq(Nat) /\ (read # Frames!FreshRead \/ arrived \o flight # <<>>)
      <4>1. arrived \o flight \in Seq(Nat) /\ Len(arrived \o flight) = Len(arrived) + Len(flight)
        BY <1>0, Joined
      <4>2. ASSUME read = Frames!FreshRead, arrived \o flight = <<>> PROVE FALSE
        <5>1. Len(arrived) = 0
          BY <1>0, <4>1, <4>2
        <5>2. arrived = <<>>
          BY <1>0, <5>1
        <5>3. HeaderLen \in Nat \ {0}
          BY FrameAssumption DEF Frames!FramingAssumption
        <5>4. Frames!Take(read, arrived).read = Frames!FreshRead
          <6>1. SubSeq(<<>>, 1, 0) = <<>> /\ <<>> \o <<>> = <<>> /\ Len(<<>>) = 0
            OBVIOUS
          <6>2. Frames!FreshRead.need = HeaderLen /\ Frames!FreshRead.buf = <<>>
            BY DEF Frames!FreshRead
          <6>3. [Frames!FreshRead EXCEPT !.buf = <<>>] = Frames!FreshRead
            BY DEF Frames!FreshRead
          <6>4. ~ (HeaderLen - 0 < 0)
            BY <5>3
          <6>5. Frames!Take(read, <<>>).read
                  = [Frames!FreshRead EXCEPT !.buf = Frames!FreshRead.buf \o SubSeq(<<>>, 1, 0)]
            BY <4>2, <6>1, <6>2, <6>4 DEF Frames!Take
          <6> QED
            BY <5>2, <6>1, <6>2, <6>3, <6>5
        <5>5. ~Frames!Full(Frames!FreshRead)
          BY <5>3 DEF Frames!Full, Frames!FreshRead
        <5>6. t.read = Frames!FreshRead
          BY <5>4, <5>5 DEF Frames!Polled
        <5> QED
          BY <2>1, <5>5, <5>6
      <4> QED
        BY <4>1, <4>2
    <3>4. /\ k \in 1 .. Len(sent) /\ sent[k] \in Sendable /\ sent[k] \in Seq(Nat)
          /\ rs[k] \in Seq(Nat) /\ AtFrame(read, arrived \o flight, sent[k], rs[k])
      BY <1>0, <3>1, <3>2, <3>3, NextFrame
    <3>5. Len(sent[k]) <= MAX_FRAME_LEN /\ sent[k] \in Messages
      BY <3>4 DEF Sendable
    <3>6. t.read.at = "body" /\ t.read.buf = sent[k] /\ t.rest \o flight = rs[k]
      <4> HIDE DEF k
      <4> QED
        BY <1>0, <2>1, <3>4, <3>5, PolledInStep, ZenonT(40)
    <3> HIDE DEF t
    <3>7. Frames!decode(t.read.buf) = {sent[k]}
      BY <3>5, <3>6, DecodeIs
    <3>8. got' = Append(got, sent[k]) /\ result' = result
      BY <2>4, <3>6, <3>7
    <3>9. Len(got') = k /\ k <= Len(sent) /\ got' \in Seq(Messages)
          /\ \A i \in 1 .. Len(got') : got'[i] = sent[i]
      BY <1>0, <2>5, <3>2, <3>4, <3>8
    <3>10. Held(read') \o (t.rest \o flight) = rs[Len(got')]
      <4>1. Held(read') = <<>>
        BY <2>1, FreshIs
      <4>2. t.rest \o flight \in Seq(Nat)
        BY <1>0, <2>3, Joined
      <4>3. <<>> \o (t.rest \o flight) = t.rest \o flight
        BY <4>2
      <4> QED
        BY <3>6, <3>9, <4>1, <4>3, Zenon
    <3>11. InStep(sent, got', read', t.rest \o flight)
      BY <3>1, <3>9, <3>10, Zenon DEF InStep
    <3> QED
      BY <2>2, <3>8, <3>11
  <2> HIDE DEF t
  <2>7. lost = <<>> => result' \in {"reading", "Io"} /\ InStep(sent, got', read', arrived' \o flight)
    BY <2>1, <2>6, Zenon
  <2>8. read' \in Reads
    BY <2>1, FreshIs
  <2> QED
    BY <1>0, <2>1, <2>2, <2>3, <2>5, <2>7, <2>8 DEF FramingInv
<1>6. CASE Frames!PollEof
  <2>1. /\ sent' = sent /\ flight' = flight /\ arrived' = arrived /\ read' = read /\ got' = got
        /\ result' = "Io" /\ lost' = lost
    BY <1>6 DEF Frames!PollEof
  <2> QED
    BY <1>0, <2>1 DEF FramingInv
<1>7. CASE Frames!OtherArm
  <2>1. /\ sent' = sent /\ flight' = flight /\ arrived' = arrived /\ got' = got
        /\ result' = result /\ read' = Frames!FreshRead /\ read # Frames!FreshRead
    BY <1>7 DEF Frames!OtherArm
  <2> DEFINE D == IF read.at = "body" THEN Frames!ToBytes(read.need) ELSE <<>>
             bf == read.buf
  <2>2. lost' = lost \o D \o bf
    BY <1>7 DEF Frames!OtherArm
  <2>3. D \in Seq(Nat) /\ bf \in Seq(Nat)
    <3>1. read.need \in Nat /\ bf \in Seq(Nat)
      BY <1>0 DEF Reads
    <3>2. Frames!ToBytes(read.need) \in Seq(Nat)
      BY <3>1, DigitsAre
    <3> QED
      BY <3>1, <3>2
  <2>4. Held(read) = D \o bf /\ D \o bf # <<>>
    BY <1>0, <2>1, HeldIs DEF Held
  <2> HIDE DEF D, bf
  <2>5. (lost \o D) \o bf = lost \o (D \o bf)
    BY <1>0, <2>3, Assoc
  <2>6. lost \o (D \o bf) \in Seq(Nat) /\ lost \o (D \o bf) # <<>>
    <3> DEFINE x == D \o bf
    <3>1. x \in Seq(Nat) /\ Len(x) # 0
      BY <2>3, <2>4, Joined
    <3> HIDE DEF x
    <3>2. lost \o x \in Seq(Nat) /\ Len(lost \o x) = Len(lost) + Len(x)
      BY <1>0, <3>1, Joined
    <3>3. Len(lost \o x) # 0
      BY <1>0, <3>1, <3>2
    <3> QED
      BY <3>2, <3>3 DEF x
  <2>7. lost' \in Seq(Nat) /\ lost' # <<>>
    BY <2>2, <2>5, <2>6, Zenon
  <2>8. read' \in Reads
    BY <2>1, FreshIs
  <2> QED
    BY <1>0, <2>1, <2>7, <2>8 DEF FramingInv
<1>8. CASE Frames!Ended
  <2>1. /\ sent' = sent /\ flight' = flight /\ arrived' = arrived /\ read' = read /\ got' = got
        /\ result' = result /\ lost' = lost
    BY <1>8 DEF Frames!Ended, Frames!vars
  <2> QED
    BY <1>0, <2>1 DEF FramingInv
<1> QED
  BY <1>1, <1>2, <1>3, <1>4, <1>5, <1>6, <1>7, <1>8 DEF Frames!Next

(* A stream starts empty and in step.                                      *)
LEMMA FramingInit == Frames!Init => FramingInv
<1> SUFFICES ASSUME Frames!Init PROVE FramingInv
  OBVIOUS
<1>1. /\ sent = <<>> /\ got = <<>> /\ flight = <<>> /\ arrived = <<>> /\ lost = <<>>
      /\ read = Frames!FreshRead /\ result = "reading"
  BY DEF Frames!Init
<1>2. Held(read) = <<>> /\ read \in Reads
  BY <1>1, FreshIs
<1>3. <<>> \o <<>> = <<>> /\ Len(<<>>) = 0
  OBVIOUS
<1> DEFINE rs == [k \in 0 .. 0 |-> <<>>]
<1>4. IsRest(rs, sent) /\ rs[Len(got)] = <<>>
  BY <1>1 DEF IsRest
<1> HIDE DEF rs
<1>5. Held(read) \o (arrived \o flight) = rs[Len(got)]
  BY <1>1, <1>2, <1>3, <1>4, Zenon
<1>6. got \in Seq(Messages) /\ Len(got) <= Len(sent) /\ \A i \in 1 .. Len(got) : got[i] = sent[i]
  BY <1>1
<1>7. InStep(sent, got, read, arrived \o flight)
  BY <1>4, <1>5, <1>6, Zenon DEF InStep
<1> QED
  BY <1>1, <1>2, <1>7 DEF FramingInv

(* The invariant holds of every stream, whatever the sizes of the header   *)
(* and of the largest frame, and however many messages are written.        *)
THEOREM FramingInvariance == Frames!Spec => []FramingInv
<1>1. FramingInv /\ UNCHANGED Frames!vars => FramingInv'
  BY DEF FramingInv, Frames!vars
<1> QED
  BY <1>1, FramingInit, FramingStep, PTL DEF Frames!Spec

(* A stream in step is in sync, and has delivered every message once       *)
(* nothing is on its way.                                                  *)
LEMMA InStepIsSync == FramingInv => OnlyDroppedReadsDesync
<1> SUFFICES ASSUME FramingInv, lost = <<>>
             PROVE  /\ Frames!InSync
                    /\ (flight = <<>> /\ arrived = <<>> /\ read = Frames!FreshRead) => got = sent
  BY DEF OnlyDroppedReadsDesync, Frames!OnlyDroppedReadsDesync
<1>1. sent \in Seq(Sendable) /\ got \in Seq(Messages) /\ result \in {"reading", "Io"}
      /\ InStep(sent, got, read, arrived \o flight)
  BY DEF FramingInv
<1>2. Len(got) <= Len(sent) /\ \A i \in 1 .. Len(got) : got[i] = sent[i]
  BY <1>1 DEF InStep
<1>3. Frames!IsPrefix(got, sent)
  BY <1>1, <1>2 DEF Frames!IsPrefix
<1>4. Frames!InSync
  BY <1>1, <1>3 DEF Frames!InSync
<1>5. ASSUME flight = <<>>, arrived = <<>>, read = Frames!FreshRead
      PROVE  got = sent
  <2>1. PICK rs : IsRest(rs, sent) /\ Held(read) \o (arrived \o flight) = rs[Len(got)]
    BY <1>1 DEF InStep
  <2>2. Held(read) = <<>> /\ <<>> \o <<>> = <<>>
    BY <1>5, FreshIs
  <2>3. rs[Len(got)] = <<>>
    BY <1>5, <2>1, <2>2, Zenon
  <2>4. Len(got) = Len(sent)
    <3> SUFFICES ASSUME Len(got) # Len(sent) PROVE FALSE
      OBVIOUS
    <3> DEFINE k == Len(got) + 1
    <3>1. k \in 1 .. Len(sent) /\ k - 1 = Len(got) /\ k \in 0 .. Len(sent)
      BY <1>1, <1>2
    <3>2. rs[Len(got)] = Frames!encode(sent[k]) \o rs[k] /\ rs[k] \in Seq(Nat)
      BY <2>1, <3>1 DEF IsRest
    <3> DEFINE c == Frames!encode(sent[k])
               z == rs[k]
    <3>3. c \in Seq(Nat) /\ c # <<>>
      BY <1>1, <3>1, EncodeIs, SMTT(40) DEF Sendable
    <3>4. z \in Seq(Nat) /\ c \o z = <<>>
      BY <2>3, <3>2
    <3> HIDE DEF c, z
    <3>5. Len(c \o z) = Len(c) + Len(z) /\ Len(c \o z) = 0
      BY <3>3, <3>4, Joined
    <3>6. Len(c) \in Nat \ {0} /\ Len(z) \in Nat
      BY <3>3, <3>4
    <3> QED
      BY <3>5, <3>6
  <2> QED
    BY <1>1, <1>2, <2>4
<1> QED
  BY <1>4, <1>5

(* Dropping a partial read is the only thing that takes a stream out of    *)
(* sync: cut into any pieces, with messages of any size up to the largest, *)
(* what was written comes out, in order, and all of it once it has arrived.*)
THEOREM FramingInSync == Frames!Spec => []OnlyDroppedReadsDesync
<1> QED
  BY FramingInvariance, InStepIsSync, PTL
=============================================================================
