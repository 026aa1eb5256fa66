----------------------------- MODULE StateSync ------------------------------
(***************************************************************************)
(* The display path of one attachment: every 16 ms the server diffs its    *)
(* terminal grid against the last snapshot the client acknowledged and     *)
(* sends the changed runs in unreliable datagrams (build_state_diff and    *)
(* send_burst in server.rs, encode_datagram in datagram.rs); the client    *)
(* applies them to its screen behind an epoch gate and acknowledges the    *)
(* epoch (main.rs, screen.rs).  In scrollback mode the client acknowledges *)
(* without applying until a datagram reaches the epoch of the page shown.  *)
(*                                                                         *)
(* A run is one cell and its value: a run of several characters may be cut *)
(* anywhere by encode_datagram.  Runs are taken to be of equal size.  They *)
(* are packed by the distance of the characters' first column to the       *)
(* cursor, so that two runs covering one cell may come in either order.    *)
(* Datagrams may be lost and reordered.  Epochs, snapshots and screen      *)
(* start afresh with every attachment, and the terminal's size does not    *)
(* change during it.                                                       *)
(***************************************************************************)
EXTENDS Naturals, Sequences, FiniteSets

CONSTANTS
  NumCells,    \* cells of the terminal
  Values,      \* what a cell can show
  Blank,       \* what a cell of a new screen shows
  FitSizes,    \* how many runs a datagram may hold, as the path's MTU varies
  BurstCap,    \* BURST_CAP: datagrams per tick
  SnapCap,     \* EPOCH_SNAPSHOT_CAP
  MaxRuns,     \* MAX_RUNS: runs one tick handles
  MaxChanges,  \* bound: changes of the grid
  MaxEpoch,    \* bound: epochs
  MaxAsked,    \* bound: scrollback requests
  MaxFlight    \* bound: datagrams under way to the client

ASSUME StateSyncAssumption ==
  /\ NumCells \in Nat \ {0}
  /\ Blank \in Values
  /\ FitSizes \subseteq Nat \ {0}
  /\ BurstCap \in Nat \ {0}
  /\ SnapCap \in Nat \ {0}
  /\ MaxRuns \in Nat \ {0}
  /\ \E fit \in FitSizes : fit * BurstCap >= MaxRuns
  /\ MaxChanges \in Nat
  /\ MaxEpoch \in Nat /\ MaxEpoch > MaxChanges
  /\ MaxAsked \in Nat
  /\ MaxFlight \in Nat \ {0}

Cells  == 1 .. NumCells
Grids  == [Cells -> Values]
NoGrid == << >>
Runs   == [cell : Cells, val : Values]

VARIABLES
  \* The server.
  grid,                  \* the terminal's viewport
  current_epoch,         \* also epoch_src, which the scrollback sender reads
  last_acked_epoch,
  last_acked_snapshot,   \* the baseline of the diffs
  last_sent_snapshot,
  pending_deferred,      \* runs that did not fit into the last tick's datagrams
  epoch_snapshots,       \* what was sent, for the epochs not yet acknowledged
  \* The network.
  toClient,              \* StateDiff datagrams under way
  toServer,              \* epoch acknowledgements under way
  requests, pages,       \* the scrollback channel, which is reliable
  \* The client.
  screen,                \* ClientScreen.confirmed
  last_applied_epoch,
  view,                  \* ScrollbackView: "Live" or "Active"
  epoch_at_snapshot,     \* of the Active view
  pending_request,       \* of the Active view
  \* Auxiliary.
  sent,                  \* the grid of every epoch
  whole,                 \* no tick was split or cut, no diff acked unapplied
  changes, asked         \* count towards the bounds

syncVars   == <<current_epoch, last_acked_epoch, last_acked_snapshot,
                last_sent_snapshot, pending_deferred, epoch_snapshots, sent>>
scrollVars == <<requests, pages, view, epoch_at_snapshot, pending_request, asked>>
screenVars == <<screen, last_applied_epoch>>
vars == <<grid, changes, syncVars, toClient, toServer, screenVars, scrollVars, whole>>

\* The client's screen is blank, the terminal need not be (cold reattach).
Init ==
  /\ grid \in Grids
  /\ current_epoch = 0
  /\ last_acked_epoch = 0
  /\ last_acked_snapshot = NoGrid
  /\ last_sent_snapshot = NoGrid
  /\ pending_deferred = << >>
  /\ epoch_snapshots = << >>
  /\ toClient = {}
  /\ toServer = {}
  /\ requests = 0
  /\ pages = << >>
  /\ screen = [c \in Cells |-> Blank]
  /\ last_applied_epoch = 0
  /\ view = "Live"
  /\ epoch_at_snapshot = 0
  /\ pending_request = FALSE
  /\ sent = << >>
  /\ whole = TRUE
  /\ changes = 0
  /\ asked = 0
-----------------------------------------------------------------------------
(* The server.                                                             *)

\* The shell's output changes the terminal.
GridChanges ==
  /\ changes < MaxChanges
  /\ \E c \in Cells : \E v \in Values \ {grid[c]} : grid' = [grid EXCEPT ![c] = v]
  /\ changes' = changes + 1
  /\ UNCHANGED <<syncVars, toClient, toServer, screenVars, scrollVars, whole>>

\* Mutant: a tick is skipped as soon as its grid has been sent once.
SentOnce == grid = last_sent_snapshot

\* The client has acknowledged the newest epoch and it is what the grid shows.
Settled ==
  /\ grid = last_acked_snapshot
  /\ last_acked_epoch >= current_epoch

\* Mutant: the diff is taken against what was sent, not what was acknowledged.
DiffAgainstSent == last_sent_snapshot

Baseline == last_acked_snapshot

\* The elements of s at the positions ps, in order.
Keep(s, ps) ==
  [k \in 1 .. Cardinality(ps) |->
     s[CHOOSE i \in ps : Cardinality({j \in ps : j <= i}) = k]]

\* Row by row, the cells that differ from the baseline; all without one.
compute_diff_runs ==
  Keep([c \in Cells |-> [cell |-> c, val |-> grid[c]]],
       {c \in Cells : Baseline = NoGrid \/ Baseline[c] # grid[c]})

\* Deferred runs go first; what exceeds MAX_RUNS is cut off at the end.
TickRuns ==
  LET all == pending_deferred \o compute_diff_runs
  IN  SubSeq(all, 1, IF Len(all) > MaxRuns THEN MaxRuns ELSE Len(all))

(* The ways to pack n runs into a burst: packing[i] is the datagram of run *)
(* i or LeftOver.  A datagram is filled before the next is begun; the      *)
(* burst ends with the runs or, after any datagram, with a full send       *)
(* buffer.                                                                 *)
LeftOver == BurstCap + 1

Packings ==
  [n \in 0 .. MaxRuns, fit \in FitSizes |->
    {p \in [1 .. n -> 1 .. LeftOver] :
       LET In(d)   == {i \in 1 .. n : p[i] = d}
           Full(d) == Cardinality(In(d)) = fit
       IN  /\ \A d \in 1 .. BurstCap : Cardinality(In(d)) <= fit
           /\ \A d, e \in 1 .. BurstCap : d < e /\ In(e) # {} => Full(d)
           /\ In(LeftOver) # {} =>
                Full(1) /\ \A d \in 1 .. BurstCap : In(d) = {} \/ Full(d)}]

\* encode_datagram, once for the tick and again for the rest of the burst.
Encodings(runs) == UNION {Packings[Len(runs), fit] : fit \in FitSizes}

(* The runs that stay visible when each datagram's are applied in its      *)
(* order: of those in one datagram that cover the same cell, the last one, *)
(* which may be any of them, a deferred one too.                           *)
Visible(runs, packing) ==
  LET Same(i, j) == packing[i] = packing[j] /\ runs[i].cell = runs[j].cell
  IN  {is \in SUBSET DOMAIN runs :
         /\ \A i \in DOMAIN runs : \E j \in is : Same(i, j)
         /\ \A i, j \in is : Same(i, j) => i = j}

\* What the runs at the positions is, of different cells, put on the screen.
RunsOf(runs, is) ==
  [c \in {runs[i].cell : i \in is} |-> runs[CHOOSE i \in is : runs[i].cell = c].val]

StateDiff(e, cells) == [epoch |-> e, runs |-> cells]

\* The datagrams of a burst; the first is sent even if it has no runs.
Datagrams(e, runs, packing, visible) ==
  {StateDiff(e, RunsOf(runs, {i \in visible : packing[i] = d})) :
     d \in {1} \cup ({packing[i] : i \in DOMAIN runs} \ {LeftOver})}

\* The runs of the datagrams in ds, in order.
RunsIn(runs, packing, ds) == Keep(runs, {i \in DOMAIN runs : packing[i] \in ds})

StoreSnapshot(e) ==
  LET more == Append(epoch_snapshots, [epoch |-> e, cells |-> grid])
  IN  epoch_snapshots' = IF Len(more) > SnapCap THEN Tail(more) ELSE more

NextEpoch ==
  IF grid # last_sent_snapshot \/ pending_deferred # << >>
  THEN current_epoch + 1
  ELSE current_epoch

(* build_state_diff: nothing to send.  The deferred runs were taken out of *)
(* pending_deferred before the call and are gone.                          *)
TickSkips ==
  /\ Settled
  /\ pending_deferred' = << >>
  /\ UNCHANGED <<grid, changes, current_epoch, last_acked_epoch, last_acked_snapshot,
                 last_sent_snapshot, epoch_snapshots, sent, toClient, toServer,
                 screenVars, scrollVars, whole>>

(* build_state_diff and what the tick does before the burst: the snapshot  *)
(* is stored once per tick, whether its epoch is new or sent again.        *)
BuildDiff ==
  /\ ~Settled
  /\ current_epoch' = NextEpoch
  /\ sent' = IF NextEpoch > current_epoch THEN Append(sent, grid) ELSE sent
  /\ StoreSnapshot(NextEpoch)
  /\ last_sent_snapshot' = grid
  /\ UNCHANGED <<grid, changes, last_acked_epoch, last_acked_snapshot, toServer,
                 screenVars, scrollVars>>

\* Deferred runs take an epoch: keep enough for the changes still to come.
EpochsLeft == pending_deferred' # << >> => NextEpoch + (MaxChanges - changes) < MaxEpoch

\* A tick that sends its burst.
TickSends ==
  /\ BuildDiff
  /\ \E runs \in {TickRuns} : \E packing \in Encodings(runs) :
     \E visible \in Visible(runs, packing) :
       /\ toClient' = toClient \cup Datagrams(NextEpoch, runs, packing, visible)
       /\ pending_deferred' = RunsIn(runs, packing, {LeftOver})
       /\ whole' = (/\ whole
                    /\ \A i \in DOMAIN runs : packing[i] = 1
                    /\ Len(pending_deferred \o compute_diff_runs) <= MaxRuns)
  /\ Cardinality(toClient') <= MaxFlight
  /\ EpochsLeft

\* The path's MTU shrank: the first datagram is refused and nothing is sent.
TickTooLarge ==
  /\ BuildDiff
  /\ \E runs \in {TickRuns} : \E packing \in Encodings(runs) :
       /\ pending_deferred' = RunsIn(runs, packing, 2 .. LeftOver)
       /\ whole' = (whole /\ \A i \in DOMAIN runs : packing[i] = 1)
  /\ EpochsLeft
  /\ UNCHANGED toClient

\* What is left of the store when epoch e is acknowledged.
NewerSnapshots(e) ==
  Keep(epoch_snapshots, {i \in DOMAIN epoch_snapshots : epoch_snapshots[i].epoch > e})

\* Mutant: the baseline is the grid of the moment the acknowledgement arrives.
GridNow(e) ==
  /\ last_acked_snapshot' = grid
  /\ epoch_snapshots' = NewerSnapshots(e)

\* The baseline becomes what was sent with the epoch, if it is still stored.
AdvanceBaseline(e) ==
  LET known == {s \in {epoch_snapshots[i] : i \in DOMAIN epoch_snapshots} : s.epoch = e}
  IN  IF known = {}
      THEN UNCHANGED <<last_acked_snapshot, epoch_snapshots>>
      ELSE /\ last_acked_snapshot' = (CHOOSE s \in known : TRUE).cells
           /\ epoch_snapshots' = NewerSnapshots(e)

\* The acknowledgement arm of the pump; older ones are ignored.
RecvAck(e) ==
  /\ e \in toServer
  /\ toServer' = toServer \ {e}
  /\ IF e > last_acked_epoch
     THEN last_acked_epoch' = e /\ AdvanceBaseline(e)
     ELSE UNCHANGED <<last_acked_epoch, last_acked_snapshot, epoch_snapshots>>
  /\ UNCHANGED <<grid, changes, current_epoch, last_sent_snapshot, pending_deferred,
                 sent, toClient, screenVars, scrollVars, whole>>

\* The scrollback sender answers with a page and the epoch of the moment.
ServePage ==
  /\ requests > 0
  /\ requests' = requests - 1
  /\ pages' = Append(pages, current_epoch)
  /\ UNCHANGED <<grid, changes, syncVars, toClient, toServer, screenVars, view,
                 epoch_at_snapshot, pending_request, asked, whole>>
-----------------------------------------------------------------------------
(* The network loses datagrams.  A lost acknowledgement is one that stays  *)
(* under way.                                                              *)

LoseDiff(d) ==
  /\ toClient' = toClient \ {d}
  /\ UNCHANGED <<grid, changes, syncVars, toServer, screenVars, scrollVars, whole>>
-----------------------------------------------------------------------------
(* The client.                                                             *)

\* The gate in front of ClientScreen::apply.
Fresh(d) == d.epoch > last_applied_epoch

\* Mutant: the datagram of the page's own epoch is suppressed as well.
SuppressUpTo(d) == view = "Active" /\ d.epoch <= epoch_at_snapshot

Suppressed(d) == view = "Active" /\ d.epoch < epoch_at_snapshot

DiscardStale(d) ==
  /\ ~Fresh(d)
  /\ toClient' = toClient \ {d}
  /\ UNCHANGED <<grid, changes, syncVars, toServer, screenVars, scrollVars, whole>>

\* Scrollback is shown: acknowledge, apply nothing.
SuppressDiff(d) ==
  /\ Fresh(d)
  /\ Suppressed(d)
  /\ toClient' = toClient \ {d}
  /\ toServer' = toServer \cup {d.epoch}
  /\ whole' = FALSE
  /\ UNCHANGED <<grid, changes, syncVars, screenVars, scrollVars>>

\* Leave scrollback if it was shown, apply, acknowledge.
ApplyDiff(d) ==
  /\ Fresh(d)
  /\ ~Suppressed(d)
  /\ toClient' = toClient \ {d}
  /\ toServer' = toServer \cup {d.epoch}
  /\ screen' = [c \in Cells |-> IF c \in DOMAIN d.runs THEN d.runs[c] ELSE screen[c]]
  /\ last_applied_epoch' = d.epoch
  /\ view' = "Live"
  /\ epoch_at_snapshot' = 0
  /\ pending_request' = FALSE
  /\ UNCHANGED <<grid, changes, syncVars, requests, pages, asked, whole>>

\* Shift-PageUp in Live mode.
EnterScrollback ==
  /\ view = "Live"
  /\ asked < MaxAsked
  /\ view' = "Active"
  /\ epoch_at_snapshot' = last_applied_epoch
  /\ pending_request' = TRUE
  /\ requests' = requests + 1
  /\ asked' = asked + 1
  /\ UNCHANGED <<grid, changes, syncVars, toClient, toServer, screenVars, pages, whole>>

\* Shift-PageUp near the top of what is held, with more on the server.
Prefetch ==
  /\ view = "Active"
  /\ ~pending_request
  /\ asked < MaxAsked
  /\ pending_request' = TRUE
  /\ requests' = requests + 1
  /\ asked' = asked + 1
  /\ UNCHANGED <<grid, changes, syncVars, toClient, toServer, screenVars, pages, view,
                 epoch_at_snapshot, whole>>

\* A page that arrives in Live mode is dropped, whichever view asked for it.
RecvPage ==
  /\ pages # << >>
  /\ pages' = Tail(pages)
  /\ IF view = "Active"
     THEN epoch_at_snapshot' = Head(pages) /\ pending_request' = FALSE
     ELSE UNCHANGED <<epoch_at_snapshot, pending_request>>
  /\ UNCHANGED <<grid, changes, syncVars, toClient, toServer, screenVars, requests, view,
                 asked, whole>>

\* Paging down to the live boundary, or any other key.
SnapBack ==
  /\ view = "Active"
  /\ view' = "Live"
  /\ epoch_at_snapshot' = 0
  /\ pending_request' = FALSE
  /\ UNCHANGED <<grid, changes, syncVars, toClient, toServer, screenVars, requests, pages,
                 asked, whole>>
-----------------------------------------------------------------------------
DatagramEnds ==
  \E d \in toClient : LoseDiff(d) \/ DiscardStale(d) \/ SuppressDiff(d) \/ ApplyDiff(d)

Next ==
  \/ GridChanges
  \/ TickSkips
  \/ TickSends
  \/ TickTooLarge
  \/ \E e \in toServer : RecvAck(e)
  \/ ServePage
  \/ DatagramEnds
  \/ EnterScrollback
  \/ Prefetch
  \/ RecvPage
  \/ SnapBack

Spec == Init /\ [][Next]_vars

(* The timer keeps ticking, no datagram is under way for ever, and of the  *)
(* datagrams sent again and again with the current epoch one arrives.      *)
FairSpec ==
  /\ Spec
  /\ WF_vars(TickSends)
  /\ WF_vars(DatagramEnds)
  /\ SF_vars(\E d \in toClient : d.epoch = current_epoch /\ ApplyDiff(d))
-----------------------------------------------------------------------------
(* Every variable keeps its shape; the snapshot store, whose entries are   *)
(* pushed on every tick and removed only by acknowledgements, never        *)
(* exceeds EPOCH_SNAPSHOT_CAP, and no tick leaves more runs than MAX_RUNS. *)
TypeOK ==
  /\ grid \in Grids
  /\ current_epoch \in 0 .. MaxEpoch
  /\ last_acked_epoch \in 0 .. MaxEpoch
  /\ last_acked_snapshot \in Grids \cup {NoGrid}
  /\ last_sent_snapshot \in Grids \cup {NoGrid}
  /\ pending_deferred \in Seq(Runs) /\ Len(pending_deferred) <= MaxRuns
  /\ epoch_snapshots \in Seq([epoch : 1 .. MaxEpoch, cells : Grids])
  /\ Len(epoch_snapshots) <= SnapCap
  /\ \A d \in toClient : /\ d.epoch \in 1 .. MaxEpoch
                         /\ DOMAIN d.runs \subseteq Cells
                         /\ \A c \in DOMAIN d.runs : d.runs[c] \in Values
  /\ toServer \subseteq 1 .. MaxEpoch
  /\ requests \in 0 .. MaxAsked
  /\ pages \in Seq(0 .. MaxEpoch)
  /\ screen \in Grids
  /\ last_applied_epoch \in 0 .. MaxEpoch
  /\ view \in {"Live", "Active"}
  /\ epoch_at_snapshot \in 0 .. MaxEpoch
  /\ pending_request \in BOOLEAN
  /\ sent \in Seq(Grids) /\ Len(sent) = current_epoch
  /\ whole \in BOOLEAN
  /\ changes \in 0 .. MaxChanges
  /\ asked \in 0 .. MaxAsked

(* The baseline of the diffs is the grid of an epoch the client            *)
(* acknowledged, as it was when it was sent (not when the acknowledgement  *)
(* arrived), whatever was evicted from the bounded store, acknowledged out *)
(* of order or sent again; and while the newest epoch is unacknowledged    *)
(* its snapshot is the newest of the store, so that its acknowledgement    *)
(* will find it.                                                           *)
BaselineWasSent ==
  /\ \A i \in DOMAIN epoch_snapshots :
       /\ epoch_snapshots[i].cells = sent[epoch_snapshots[i].epoch]
       /\ epoch_snapshots[i].epoch > last_acked_epoch
  /\ last_acked_snapshot # NoGrid =>
       \E e \in 1 .. last_acked_epoch : last_acked_snapshot = sent[e]
  /\ last_acked_epoch < current_epoch =>
       /\ epoch_snapshots # << >>
       /\ epoch_snapshots[Len(epoch_snapshots)].epoch = current_epoch

(* When the server stops sending because its client is caught up, the      *)
(* client has applied a datagram of the newest epoch: acknowledgements     *)
(* sent from scrollback mode without applying never stop it.               *)
SettledIsCurrent == Settled => last_applied_epoch = current_epoch

\* No cell shows again what it showed in an earlier epoch and not in between.
NoReturn ==
  \A c \in Cells : \A i, j, k \in 1 .. current_epoch :
    i < j /\ j < k /\ sent[i][c] = sent[k][c] => sent[j][c] = sent[i][c]

(* As long as every diff, sent or refused, fitted into one datagram, so    *)
(* that no run was deferred, no diff was acknowledged unapplied and no     *)
(* cell returned to an earlier value, the screen is exactly the grid of    *)
(* the epoch the client applied last, with datagrams lost, delayed and     *)
(* reordered: diffs against a baseline older than the screen do not mix    *)
(* two grids.                                                              *)
ScreenIsSnapshot ==
  whole /\ NoReturn /\ last_applied_epoch > 0 => screen = sent[last_applied_epoch]

(* Once the shell is quiet the client applies the newest epoch, in         *)
(* scrollback mode or not: lost datagrams are sent again and the epoch     *)
(* gate lets one of them through.                                          *)
NewestIsApplied == <>[](last_applied_epoch = current_epoch)

(* screen.rs: "Same-epoch burst datagrams ... MUST apply"; datagram.rs on  *)
(* deferred runs: "no cell is permanently lost".  When the server has      *)
(* nothing left to send, the client shows its grid.                        *)
SettledIsConverged == Settled => screen = grid
=============================================================================
