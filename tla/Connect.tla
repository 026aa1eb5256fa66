------------------------------ MODULE Connect ------------------------------
(***************************************************************************)
(* From dialling to a session: the client's supervisor loop, the host key  *)
(* check against known_hosts, mutual authentication (in the TLS handshake  *)
(* of native QUIC, or in the inner handshake on the control stream of a    *)
(* WebTransport connection), and the server's accept loop with its pre-    *)
(* auth permits and its timeout.                                           *)
(*                                                                         *)
(* Clients are processes of one user that share a known_hosts file and     *)
(* dial one host name; which server the name leads to may change.  A       *)
(* server stands for its host key.  A WebTransport connection may run      *)
(* through a proxy, which ends the client's TLS session and makes its own  *)
(* to the server.  Keys and signatures are unforgeable: a signature is its *)
(* signer and what was signed, and a nonce is the connection it is of.     *)
(* A connection is lost when either side closes it or the network drops    *)
(* it; the other side notices in its own time.                             *)
(***************************************************************************)
EXTENDS Integers, Sequences, FiniteSets

CONSTANTS
    Clients, Keys, KeyOf,    \* client processes, client keys, each client's key
    Authorized,              \* authorized_keys of every server
    Servers,                 \* the servers (host keys) behind the name
    MaxPermits,              \* AuthLimits.max_concurrent
    Modes,                   \* subset of {"native", "wt"}
    MaxConns,                \* bound on the connections dialled, per mode
    None

ASSUME ConnectAssumption == MaxPermits \in Nat /\ KeyOf \in [Clients -> Keys]

VARIABLES
    mode,       \* --webtransport or not
    known,      \* the keys known_hosts lists for the name, in file order
    permits,    \* per server: free pre-auth permits
    phase,      \* per client: where its supervisor is
    conn,       \* per client: its connection, 0 before the first
    net,        \* per connection: who, to whom, proxied, alive; 1..dialled
    check,      \* per connection: the host key check of the client
    found,      \* per connection: what lookup_known_host returned
    at,         \* per connection: the server's handler
    id,         \* per connection: peer_identity
    wire,       \* per connection: the inner handshake's message under way
    rejected    \* history: clients whose key a server refused on their last connection

vars == <<mode, known, permits, phase, conn, net, check, found, at, id, wire, rejected>>
serverVars == <<permits, at, id>>
clientVars == <<phase, conn, check, found, known>>

Dialled == DOMAIN net
Mine(i) == conn[net[i].client] = i
KeyOn(i) == KeyOf[net[i].client]

\* The client's supervisor waits for the handshake, is in the session set-up
\* (connect has returned), in the session, waits to dial again, or has ended.
Connecting == {"connecting", "inner", "answered"}
Ended == {"fatal", "quit", "exited"}

---------------------------------------------------------------------------
lookup_known_host == IF known = <<>> THEN None ELSE Head(known)

RecordFirst(k) == <<k>> \o known
record_known_host(k) == Append(known, k)

AcceptAnyKey(k) == k \in Keys
check_authorized_key(k) == k \in Authorized

\* export_keying_material: the TLS session an end of connection i is on.
EkmClient(i) == <<i, "client leg">>
EkmServer(i) == IF net[i].proxied THEN <<i, "server leg">> ELSE EkmClient(i)

client_transcript(i, ekm, spki) == <<"client", ekm, i, spki>>
server_transcript(i, ekm, spki) == <<"server", ekm, i, spki>>
Sign(k, m) == [by |-> k, over |-> m]

\* verify_ed25519_spki
Verify(k, m, sig) == sig.by = k /\ sig.over = m

Init ==
    /\ mode \in Modes
    /\ known = <<>>
    /\ permits = [s \in Servers |-> MaxPermits]
    /\ phase = [c \in Clients |-> "idle"]
    /\ conn = [c \in Clients |-> 0]
    /\ net = <<>> /\ check = <<>> /\ found = <<>> /\ at = <<>> /\ id = <<>> /\ wire = <<>>
    /\ rejected = {}

---------------------------------------------------------------------------
(* The client. *)

\* make_endpoint and connect, or connect_wt: a fresh connection per attempt.
Dial(c) ==
    /\ phase[c] \in {"idle", "backoff"}
    /\ Len(net) < MaxConns[mode]
    /\ \E s \in Servers, p \in BOOLEAN :
          /\ p => mode = "wt"
          /\ net' = Append(net, [client |-> c, server |-> s, proxied |-> p, up |-> TRUE])
    /\ conn' = [conn EXCEPT ![c] = Len(net) + 1]
    /\ phase' = [phase EXCEPT ![c] = "connecting"]
    /\ check' = Append(check, "none") /\ found' = Append(found, None)
    /\ at' = Append(at, "incoming") /\ id' = Append(id, None)
    /\ wire' = Append(wire, None)
    /\ rejected' = rejected \ {c}
    /\ UNCHANGED <<mode, known, permits>>

\* The client gives connection i up for the phase p.
Leave(i, p) ==
    /\ phase' = [phase EXCEPT ![net[i].client] = p]
    /\ net' = [net EXCEPT ![i].up = FALSE]

\* verify_server_cert, or step 6 of run_inner_auth_client: what known_hosts
\* pins decides, and a first contact is put to the user.
CheckHost(i) ==
    /\ found' = [found EXCEPT ![i] = lookup_known_host]
    /\ \/ /\ lookup_known_host = None
          /\ check' = [check EXCEPT ![i] = "prompt"]
          /\ UNCHANGED <<phase, net>>
       \/ /\ lookup_known_host = net[i].server
          /\ check' = [check EXCEPT ![i] = "passed"]
          /\ UNCHANGED <<phase, net>>
       \/ /\ lookup_known_host \notin {None, net[i].server}
          /\ check' = [check EXCEPT ![i] = "mismatch"]
          /\ Leave(i, "fatal")
    /\ UNCHANGED <<mode, known, permits, conn, at, id, wire, rejected>>

\* The native handshake reaches the server's certificate.
VerifyServerCert(i) ==
    /\ mode = "native" /\ check[i] = "none" /\ net[i].up /\ Mine(i)
    /\ at[i] = "handshake" /\ phase[net[i].client] = "connecting"
    /\ CheckHost(i)

\* The user types "yes": the key is recorded, even if the connection it was
\* asked for has been given up meanwhile.
PromptAccept(i) ==
    /\ check[i] = "prompt" /\ phase[net[i].client] \notin Ended
    /\ known' = record_known_host(net[i].server)
    /\ check' = [check EXCEPT ![i] = "passed"]
    /\ UNCHANGED <<mode, permits, phase, conn, net, found, at, id, wire, rejected>>

\* The user types anything else, or there is no terminal to ask at.  The inner
\* handshake's error has a fatal marker, the TLS verifier's has none.
PromptDecline(i) ==
    /\ check[i] = "prompt" /\ phase[net[i].client] \notin Ended
    /\ check' = [check EXCEPT ![i] = "declined"]
    /\ IF Mine(i) /\ phase[net[i].client] \in Connecting
       THEN Leave(i, IF mode = "wt" THEN "fatal" ELSE "backoff")
       ELSE UNCHANGED <<phase, net>>
    /\ UNCHANGED <<mode, known, permits, conn, found, at, id, wire, rejected>>

\* connect returns: the client's side of the TLS 1.3 handshake is complete once
\* it has checked the server, before the server has checked the client.  The
\* client then opens the control stream and sends SessionOpen or Reattach.
NativeConnected(i) ==
    /\ mode = "native" /\ Mine(i) /\ net[i].up
    /\ phase[net[i].client] = "connecting" /\ check[i] = "passed"
    /\ phase' = [phase EXCEPT ![net[i].client] = "opening"]
    /\ UNCHANGED <<mode, known, permits, conn, net, check, found, at, id, wire, rejected>>

\* connect_timeout elapses, a prompt of the verifier still waiting for its answer.
ConnectTimeout(i) ==
    /\ mode = "native" /\ Mine(i) /\ phase[net[i].client] = "connecting"
    /\ Leave(i, "backoff")
    /\ UNCHANGED <<mode, known, permits, conn, check, found, at, id, wire, rejected>>

\* connect_wt returns once the server accepted the session; the client opens
\* the control stream.
WtConnected(i) ==
    /\ mode = "wt" /\ Mine(i) /\ net[i].up
    /\ phase[net[i].client] = "connecting" /\ at[i] \notin {"incoming", "handshake"}
    /\ phase' = [phase EXCEPT ![net[i].client] = "inner"]
    /\ UNCHANGED <<mode, known, permits, conn, net, check, found, at, id, wire, rejected>>

\* InnerAuthChallenge: the channel binding is compared before anything else.
CheckEkm(i) == wire[i].ekm = EkmClient(i)

RecvChallenge(i) ==
    /\ mode = "wt" /\ Mine(i) /\ net[i].up /\ phase[net[i].client] = "inner"
    /\ check[i] = "none" /\ wire[i] # None
    /\ \/ CheckEkm(i) /\ CheckHost(i)
       \/ /\ ~CheckEkm(i)
          /\ check' = [check EXCEPT ![i] = "mismatch"]
          /\ Leave(i, "fatal")
          /\ UNCHANGED <<mode, known, permits, conn, found, at, id, wire, rejected>>

\* InnerAuthResponse, signed over the transcript.
SendResponse(i) ==
    /\ mode = "wt" /\ Mine(i) /\ net[i].up /\ phase[net[i].client] = "inner"
    /\ check[i] = "passed"
    /\ wire' = [wire EXCEPT ![i] =
          [t |-> "InnerAuthResponse", spki |-> KeyOn(i),
           sig |-> Sign(KeyOn(i), client_transcript(i, EkmClient(i), net[i].server))]]
    /\ phase' = [phase EXCEPT ![net[i].client] = "answered"]
    /\ UNCHANGED <<mode, known, permits, conn, net, check, found, at, id, rejected>>

\* InnerAuthComplete whose signature verifies.
RecvComplete(i) ==
    /\ mode = "wt" /\ Mine(i) /\ net[i].up /\ phase[net[i].client] = "answered"
    /\ wire[i].t = "InnerAuthComplete"
    /\ Verify(net[i].server, server_transcript(i, EkmClient(i), KeyOn(i)), wire[i].sig)
    /\ phase' = [phase EXCEPT ![net[i].client] = "opening"]
    /\ UNCHANGED <<mode, known, permits, conn, net, check, found, at, id, wire, rejected>>

\* InnerAuthFail, or the close that follows it: no marker makes it fatal.
RecvFail(i) ==
    /\ mode = "wt" /\ Mine(i) /\ phase[net[i].client] = "answered"
    /\ wire[i].t = "InnerAuthFail"
    /\ Leave(i, "backoff")
    /\ UNCHANGED <<mode, known, permits, conn, check, found, at, id, wire, rejected>>

\* SessionOpened or ReattachOk.
SessionStarts(i) ==
    /\ Mine(i) /\ net[i].up /\ phase[net[i].client] = "opening" /\ at[i] = "session"
    /\ phase' = [phase EXCEPT ![net[i].client] = "session"]
    /\ UNCHANGED <<mode, known, permits, conn, net, check, found, at, id, wire, rejected>>

\* The session ends cleanly, or the user quits.
SessionEnds(i) ==
    /\ Mine(i) /\ net[i].up /\ phase[net[i].client] = "session"
    /\ Leave(i, "exited")
    /\ UNCHANGED <<mode, known, permits, conn, check, found, at, id, wire, rejected>>

\* The connection fails under the client: connect, the handshake or the pump
\* returns an error that is retried.  A prompt blocks the task that would notice.
Noticed(i) ==
    /\ Mine(i) /\ ~net[i].up
    /\ phase[net[i].client] \in Connecting \cup {"opening", "session"}
    /\ check[i] # "prompt"
    /\ phase' = [phase EXCEPT ![net[i].client] = "backoff"]
    /\ UNCHANGED <<mode, known, permits, conn, net, check, found, at, id, wire, rejected>>

\* A TLS alert for the client's certificate that connect itself returns is fatal.
RejectedInHandshake(i) ==
    /\ mode = "native" /\ Mine(i) /\ ~net[i].up /\ at[i] = "rejected"
    /\ phase[net[i].client] = "connecting" /\ check[i] = "passed"
    /\ phase' = [phase EXCEPT ![net[i].client] = "fatal"]
    /\ UNCHANGED <<mode, known, permits, conn, net, check, found, at, id, wire, rejected>>

QuitInBackoff(c) ==
    /\ phase[c] = "backoff" /\ phase' = [phase EXCEPT ![c] = "quit"]
    /\ UNCHANGED <<mode, known, permits, conn, net, check, found, at, id, wire, rejected>>

---------------------------------------------------------------------------
(* The server. *)

Release(i) == permits' = [permits EXCEPT ![net[i].server] = @ + 1]

EndHandlerKeepsPermit(i, s) ==
    /\ at' = [at EXCEPT ![i] = s]
    /\ UNCHANGED permits

\* The handler of connection i ends in state s; dropping it drops its permit.
EndHandler(i, s) ==
    /\ at' = [at EXCEPT ![i] = s]
    /\ IF at[i] = "handshake" THEN Release(i) ELSE UNCHANGED permits

\* The accept loop takes a permit for a connection, or refuses it.
AcceptIncoming(i) ==
    /\ at[i] = "incoming" /\ net[i].up
    /\ \/ /\ permits[net[i].server] > 0
          /\ permits' = [permits EXCEPT ![net[i].server] = @ - 1]
          /\ at' = [at EXCEPT ![i] = "handshake"]
          /\ UNCHANGED net
       \/ /\ permits[net[i].server] = 0
          /\ at' = [at EXCEPT ![i] = "closed"]
          /\ net' = [net EXCEPT ![i].up = FALSE]
          /\ UNCHANGED permits
    /\ UNCHANGED <<mode, clientVars, id, wire, rejected>>

\* The server verifies the client's certificate and incoming resolves; the
\* permit is released either way.
VerifyClientCert(i) ==
    /\ mode = "native" /\ at[i] = "handshake" /\ net[i].up /\ check[i] = "passed"
    /\ Release(i)
    /\ \/ /\ check_authorized_key(KeyOn(i))
          /\ at' = [at EXCEPT ![i] = "first"]
          /\ id' = [id EXCEPT ![i] = KeyOn(i)]
          /\ UNCHANGED <<net, rejected>>
       \/ /\ ~check_authorized_key(KeyOn(i))
          /\ at' = [at EXCEPT ![i] = "rejected"]
          /\ net' = [net EXCEPT ![i].up = FALSE]
          /\ rejected' = rejected \cup {net[i].client}
          /\ UNCHANGED id
    /\ UNCHANGED <<mode, clientVars, wire>>

\* The three-step accept of a WebTransport session; drop(permit).
WtAccept(i) ==
    /\ mode = "wt" /\ at[i] = "handshake" /\ net[i].up
    /\ at' = [at EXCEPT ![i] = "stream"] /\ Release(i)
    /\ UNCHANGED <<mode, clientVars, net, id, wire, rejected>>

\* accept_bi, then steps 1 to 4 of run_inner_auth_server.
SendChallenge(i) ==
    /\ at[i] = "stream" /\ net[i].up /\ phase[net[i].client] = "inner" /\ Mine(i)
    /\ at' = [at EXCEPT ![i] = "challenged"]
    /\ wire' = [wire EXCEPT ![i] = [t |-> "InnerAuthChallenge", ekm |-> EkmServer(i)]]
    /\ UNCHANGED <<mode, clientVars, net, permits, id, rejected>>

\* Steps 5 to 10: the signature first, then authorized_keys.
RecvResponse(i) ==
    /\ at[i] = "challenged" /\ net[i].up /\ wire[i].t = "InnerAuthResponse"
    /\ LET m == client_transcript(i, EkmServer(i), net[i].server)
           ok == Verify(wire[i].spki, m, wire[i].sig) /\ check_authorized_key(wire[i].spki)
           sig == Sign(net[i].server, server_transcript(i, EkmServer(i), wire[i].spki))
       IN  \/ /\ ok
              /\ wire' = [wire EXCEPT ![i] = [t |-> "InnerAuthComplete", sig |-> sig]]
              /\ at' = [at EXCEPT ![i] = "first"]
              /\ id' = [id EXCEPT ![i] = wire[i].spki]
              /\ UNCHANGED <<net, rejected>>
           \/ /\ ~ok
              /\ wire' = [wire EXCEPT ![i] = [t |-> "InnerAuthFail"]]
              /\ at' = [at EXCEPT ![i] = "rejected"]
              /\ net' = [net EXCEPT ![i].up = FALSE]
              /\ rejected' = rejected \cup {net[i].client}
              /\ UNCHANGED id
    /\ UNCHANGED <<mode, clientVars, permits>>

\* The first frame, SessionOpen or Reattach, starts the session.
FirstFrame(i) ==
    /\ at[i] = "first" /\ net[i].up /\ Mine(i) /\ phase[net[i].client] = "opening"
    /\ at' = [at EXCEPT ![i] = "session"]
    /\ UNCHANGED <<mode, clientVars, net, permits, id, wire, rejected>>

\* What auth_timeout wraps: incoming in handle_connection, and in
\* run_wt_accept_loop everything up to the end of handle_connection_wt.
UnderTimeout ==
    IF mode = "native" THEN {"handshake"}
    ELSE {"handshake", "stream", "challenged", "first", "session"}

AuthTimeout(i) ==
    /\ at[i] \in UnderTimeout
    /\ EndHandler(i, "timedout")
    /\ net' = [net EXCEPT ![i].up = FALSE]
    /\ UNCHANGED <<mode, clientVars, id, wire, rejected>>

\* The handler's connection is gone.
HandlerNotices(i) ==
    /\ ~net[i].up /\ at[i] \in {"handshake", "stream", "challenged", "first", "session"}
    /\ EndHandler(i, "closed")
    /\ UNCHANGED <<mode, clientVars, net, id, wire, rejected>>

\* The network drops the connection.
Lose(i) ==
    /\ net[i].up /\ net' = [net EXCEPT ![i].up = FALSE]
    /\ UNCHANGED <<mode, clientVars, permits, at, id, wire, rejected>>

\* Every client has ended, or may not dial again.
Quiet ==
    /\ \A c \in Clients : phase[c] \in Ended \/ (phase[c] \in {"backoff", "idle"} /\ Len(net) = MaxConns[mode])
    /\ UNCHANGED vars

ClientStep(i) ==
    \/ VerifyServerCert(i) \/ PromptAccept(i) \/ PromptDecline(i)
    \/ NativeConnected(i) \/ ConnectTimeout(i)
    \/ WtConnected(i) \/ RecvChallenge(i) \/ SendResponse(i) \/ RecvComplete(i) \/ RecvFail(i)
    \/ SessionStarts(i) \/ SessionEnds(i) \/ Noticed(i) \/ RejectedInHandshake(i)

ServerStep(i) ==
    \/ AcceptIncoming(i) \/ VerifyClientCert(i) \/ WtAccept(i) \/ SendChallenge(i)
    \/ RecvResponse(i) \/ FirstFrame(i) \/ AuthTimeout(i) \/ HandlerNotices(i)

Next ==
    \/ \E c \in Clients : Dial(c) \/ QuitInBackoff(c)
    \/ \E i \in Dialled : ClientStep(i) \/ ServerStep(i) \/ Lose(i)
    \/ Quiet

Spec == Init /\ [][Next]_vars

---------------------------------------------------------------------------
\* Every pre-auth permit is free or held by one connection in its handshake,
\* however that ends: accepted, rejected, timed out, lost, or given up by a
\* client that waits at a prompt.  A path that kept one would, after
\* max_concurrent of them, make the server refuse everybody.
PermitsConserved ==
    \A s \in Servers :
        permits[s] + Cardinality({i \in Dialled : net[i].server = s /\ at[i] = "handshake"})
            = MaxPermits

\* A session is mutual: the server gave it the identity of the client at the
\* other end, an authorized key, over a TLS session that ends at that client;
\* and the client got there only with a host key that known_hosts pinned when
\* it looked or that its user accepted.
SessionIsMutual ==
    \A i \in Dialled :
        /\ at[i] \in {"first", "session"} =>
              id[i] = KeyOn(i) /\ id[i] \in Authorized /\ ~net[i].proxied
        /\ (Mine(i) /\ phase[net[i].client] \in {"opening", "session"}) =>
              check[i] = "passed" /\ ~net[i].proxied /\ found[i] \in {None, net[i].server}

\* A pin holds: what a lookup found is what every later lookup finds, whatever
\* keys other processes record for the name meanwhile.
PinHolds ==
    \A i \in Dialled : found[i] # None => lookup_known_host = found[i]

\* auth_timeout drops only connections that have not authenticated (AuthLimits:
\* "Time a connection has to complete the TLS handshake before being dropped").
TimeoutIsPreAuth ==
    \A i \in Dialled : at[i] = "timedout" => id[i] = None

\* A client whose key the server rejected does not dial again
\* (is_fatal_connect_error: "client key rejected / unauthorized").
RejectedDoesNotRetry ==
    \A c \in rejected : phase[c] # "backoff"

\* The permits bound the connections that have not authenticated (run_accept_loop:
\* "the cap bounds unauthenticated state"; run_wt_accept_loop: the permit "is held
\* until the auth phase completes").
UnauthenticatedBounded ==
    \A s \in Servers :
        Cardinality({i \in Dialled : net[i].server = s
                        /\ at[i] \in {"handshake", "stream", "challenged"}}) <= MaxPermits
=============================================================================
