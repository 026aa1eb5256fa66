# A TLA+ model of nosh

nosh is a remote shell over QUIC whose sessions survive the loss of their
connection. This directory models its protocols, its concurrency and the state
machines at its two ends, checks them with TLC on small instances, and proves
the central safety properties with TLAPS for every value of the parameters.
Paths below are relative to `src/`.

## 1. The system

| Component | State | Operations | Where |
|---|---|---|---|
| Replay buffer | ring of numbered chunks, byte count, `next_seq`, `truncated` | `push`, `trim_acked`, `replay_from` | `crates/nosh-server/src/registry.rs` |
| Session slot and registry | slots per identity, `SlotState`, `last_active`, token | `register_active`, `reattach`, `orphan`, `remove`, `remove_slot`, `reap_once` | `registry.rs` |
| Connection handlers | program counter, slot, token candidate, replay cursor | `run_session`, `run_reattach_session` | `crates/nosh-server/src/server.rs` |
| PTY reader and writer | threads, shutdown pipe, two bounded channels, the PTY writer | `start_interruptible_reader`, the input task, teardown | `pty_io.rs`, `server.rs` |
| Terminal model | grid, cursor, history, saved screen, pen; OSC scanner and pending controls | `print`, `execute`, `csi_dispatch`, `osc_dispatch`, `resize`, `osc_prefilter` | `terminal.rs` |
| State synchronisation | epochs, baselines, snapshots, client screen | diff tick, burst, epoch gate, epoch ack | `server.rs`, `nosh-proto/src/datagram.rs`, `nosh-client/src/screen.rs` |
| Channels and scrollback | open ids, credit, queues, the scrollback view | open, accept, request, page, credit, close | `channel.rs` of both crates, `main.rs`, `server.rs` |
| Client supervisor | token, `highest_applied`, connection | connect, open, reattach, count, acknowledge, quit, back off | `crates/nosh-client/src/main.rs`, `client.rs` |
| Client screen | confirmed and physical grid, banner, view | apply diff, compose, emit, resize, paint history | `screen.rs`, `main.rs` |
| Predictor | predictions, caret, tentative epochs, triggers | classify, predict, cull, reset | `nosh-client/src/predictor.rs` |
| Input machines | held bytes, escape state | feed a read | `main.rs` |
| Keys, inner authentication, accept loops | `known_hosts`, permits, challenge, peer identity | look up, prompt, record, challenge, respond, time out | `nosh-auth/src`, `inner_auth.rs`, `server.rs`, `wt_transport.rs` |
| Wire codec | a pending read | `encode`, `write_message_ns`, `read_message_ns` | `nosh-proto/src` |
| Transports | quinn and WebTransport adapters | external | `client.rs`, `wt_*.rs` |

Interaction. A client opens a QUIC connection and sends `SessionOpen` or
`Reattach` as its first frame; the server spawns a handler task. The handler
owns a session slot through an `Arc`, shares the registry (one mutex) with every
other handler, the reaper and the exit watchers, and talks to the PTY through a
blocking reader thread and a blocking writer task. Output goes PTY → reader →
channel → pump → replay buffer and connection; input goes the other way. When
the connection dies the handler stops both threads, stores the writer in the
slot, orphans the slot and leaves an exit watcher behind. A later `Reattach`
with the slot's token takes the slot over, replays what the client has not
counted, and rotates the token. The client draws from state-diff datagrams; the
reliable `PtyData` frames are what it counts and acknowledges.

What is hard here: handlers, reaper, watchers and shells race on the slots;
`orphan()` and `reap_once()` do part of their work outside the lock; a frame
that was written need not have arrived; each side notices a lost connection in
its own time; blocking threads can be stuck when they are told to stop and their
joins time out; sequence numbers are counts on one side and indices on the
other; reads of a socket, of stdin and of the PTY cut what they carry anywhere,
and a read inside `select!` can be dropped half way; predictions and the record
of what is on the user's terminal are guesses that later events must not
contradict. `PROJECT.json` lists these hazards with the line where each bites
and the properties that would catch it.

## 2. Modules

| Module | Models | Checked by | Proofs |
|---|---|---|---|
| `ReplayWindow` | what the replay buffer promises: a window of the output stream that grows at the top and is given up at the bottom only when acknowledged or when the cap forces it | `MCDisplay` | |
| `OutputBuffer` | `SequencedOutputBuffer`, with byte accounting; implements `ReplayWindow` | `MCDisplay` | `OutputProofs` |
| `SessionRegistry` | registry, reaper, exit watchers, `Arc` lifetimes and the life cycle of the handlers | `MCSessionRegistry`, `MCProgress` | `SessionRegistryProofs` |
| `Reattach` | client supervisor against server handlers over connections that fail at any moment | `MCReattach` | `ReattachProofs` |
| `PtyPump` | pump, reader thread, writer task and PTY of one session through several attachments | `MCProgress`, `MCPtyPump` | `PtyPumpProofs` |
| `StateSync` | the display path: diff ticks, bursts, snapshot store, epoch gate, acknowledgements and scrollback mode over a lossy network | `MCStateSync`, `MCProgress` | `StateSyncProofs` |
| `Channels` | the scrollback channel: two pumps, two tasks, six queues, byte credit, a history that moves | `MCChannels`, `MCProgress` | `ChannelsProofs` |
| `Terminal` | the server's terminal model | `MCDisplay` | `DisplayProofs` |
| `OscFilter` | OSC pre-filter, dispatch and forwarding of titles, clipboard writes and links | `MCDisplay` | `OutputProofs` |
| `ClientScreen` | diffs, composition, what is on the user's terminal | `MCDisplay` | `OutputProofs` |
| `Predictor` | predictive local echo | `MCDisplay` | `DisplayProofs` |
| `InputPath` | paging sequences and `~.` escapes over split reads | `MCDisplay` | `DisplayProofs` |
| `Connect` | dialling, trust on first use, mutual authentication over both transports, accept loops and permits | `MCConnect` | `ConnectProofs` |
| `Framing` | length-prefixed frames read inside `select!` | `MCConnect` | `ConnectProofs` |

`MCDisplay`, `MCProgress` and `MCConnect` each hold several components that do
not interact at this level of detail. Their variable `machine` is chosen once
and says which component runs; the others stay in an initial state, so the
states of a run are the sum and not the product of its components'. Properties
of an instantiated component appear there under their own name or as the
conjunction of two. Definitions whose comment starts with "Mutant" are plausible
bugs: each replaces the definition it stands before, to show that a property
notices.

**OutputBuffer.** A chunk is its number, its length and (auxiliary) its position
in the byte stream. `Push` appends and evicts from the front until the byte
count is within the cap or one chunk is left, in one step because the buffer's
mutex covers it. `ReplayFrom(n)` is a pure operator compared with the stream for
every `n`. The refinement maps the ring to `low`/`next`.

**SessionRegistry.** One step per critical section: `orphan()` is `MarkOrphaned`
(before the lock), `EvictOldest` or `WithinCap` (inside), then `SighupVictim`
(after); `reap_once()` is `ReapOnce` and one `ReaperSighup` per victim.
`last_active` is read only to compare Orphaned slots and is set by
`mark_orphaned`, so the model keeps the order of those events (`frozen`) and no
clock. `child` follows the shell's `Child` from the slot to the `wait_task` to
the exit watcher. `DropSlot` is the drop of the last `Arc`; the clone the input
task holds is left out, which only makes slots end earlier. Idle expiry removes
any set of orphans that is closed under "orphaned earlier". The reattach pump
ends at the PTY's end of file, which `ShellExitSeen` takes to come with the
shell's exit; a background process that keeps the PTY open delays it.

**Reattach.** One client, its successive connections and the sessions they open.
A connection is two reliable streams; when it is lost, unread frames may or may
not be read, later writes vanish although they succeed locally, and each side
notices by an action of its own. `got` (auxiliary) is what really reached the
client; `highest_applied` is what it counts. Cap eviction in `PumpOutput` is any
advance of `low`, as `ReplayWindow` allows. Registry details (cap, reaper, other
clients) appear as `OrphanEnds`.

**PtyPump.** Generations (attachments) of one session. The chain client → pump →
in channel → writer → PTY → shell → PTY → reader → out channel → pump is closed
by a shell that answers every input, which is what can fill all buffers at once.
Joins end when the thread ended or when it is blocked (the five-second timeout).
The clean ends (shell exit, `SessionClose`) and PTY write errors are left out,
so a generation only ends by losing its connection.

**StateSync.** One attachment: epochs, snapshots and screen start afresh with
each. A run is one cell and its value, since `encode_datagram` may cut a run
anywhere. `Packings` is every way in which the cursor-ordered fill can spread a
tick's runs over the datagrams of a burst: a datagram is filled before the next
is begun, and a full send buffer ends the burst early and leaves runs over for
`pending_deferred`. `encode_datagram` sorts runs by how far their first column
is from the cursor, so of two runs that cover one cell, a stale deferred one and
a fresh one, either may be applied last: `Visible` picks any. A refused first
datagram is `TickTooLarge`; the runs it did not hold stay deferred. Datagrams
under way are a set, lost or delivered in any order; an acknowledgement that is
lost is one that is never received. `sent` and `whole` are auxiliary: the grid
of every epoch, and whether so far every diff, sent or refused, fitted into one
datagram and was applied when it was acknowledged. Scrollback appears as far as
it matters here, the epochs that pages carry and that decide what the client
acknowledges without applying; lines and credit are the subject of `Channels`,
wide characters and sizes of `ClientScreen`. The cursor, the alternate-screen
flag and resizing during an attachment are left out.

**Channels.** The client opens one channel, id 2, before its pump loop; the
drain task writes requests, reads pages and grants credit after every chunk
drained; the sender task answers one request at a time and waits for credit with
a 30 s timeout. Sends that the code awaits block here when the queue is full,
and `try_send` drops, as in the code. The view enters and leaves Active,
prepends pages and prefetches. A line of history is its number in the order of
output; lines are printed, evicted at the cap and cleared at any moment. A
request names its page by the distance from the newest line, so what it gets
depends on the output since the request before it. Either task reads its stream
in a `select!`: `DrainReads` and `SenderReads` are a read that has taken a part
of a message, and another event then drops it (`"torn"`); from there on
`DrainMisreads` and `SenderMisreads` make of the bytes what `Framing` shows they
may become. Loss ends both pumps, the tasks end after them.

**Terminal.** The state is one record and each handler an operator on it. A
glyph is the screen it was printed on and the number of resets before it, which
is what the properties tell apart; counts reach the `u16` limit and sizes go
down to no row and to no column. CSI 1 J and CSI 1 K index column 0 of the
cursor's row, which a row without columns does not have: `ErasePanics` is that
panic, after which the mutex is recovered and the terminal is as it was. The vte
parser is external: actions are the callbacks it makes. Cell styles are left out
but for the pen itself.

**OscFilter.** Each read of the PTY passes the scanner (`in_osc`,
`osc_byte_count`, `pending_esc`) and then the parser, which is external and
modelled from vte's documented states; the pump drains the pending controls
after each read, and a failed write loses them. The first byte of a payload
stands for its number and contents.

**ClientScreen.** The server's grid, the grid it believes the client has, the
client's confirmed grid, its physical grid, and the user's terminal, which
nothing reads back. Diffs come from `compute_diff_runs`, wide glyphs included;
frames may fail half way; scrollback pages are painted behind the compositor's
back. When the window changes size (`WindowResized`) the terminal crops, pads or
reflows at once and the model knows no cell of it; the server is told after the
debounce (`ServerResized`) and gives up rows at the top, as its `resize` does,
while the client's cuts at the bottom; the physical grid is forgotten when a
diff of the new size arrives. Until then frames of another size are drawn on the
terminal, and the model knows none of its cells.

**Predictor.** The overlay as the stdin arm and the datagram arm drive it,
against a shell that reads keys in order, echoes or not, and may print a prompt
on Enter. A frame carries the whole screen; loss is `StateSync`'s subject.

**InputPath.** How reads cut the stream is arbitrary. The machines are
translated byte by byte; the properties compare what was sent with a reading of
the whole stream at once.

**Connect.** Client processes of one user share a `known_hosts` file and dial a
name that leads to any of several servers, natively or through WebTransport with
or without a proxy that ends TLS. Signatures are symbolic terms. The prompt of
trust on first use stays open while the other side times out.

**Framing.** Frames of base-`Base` digits arrive in pieces; a read has taken a
part of a length or of a body when another `select!` arm wins.

## 3. Runs

| Run | Instance | Question |
|---|---|---|
| `Registry` | 3 slots, 2 identities, 3 handlers, cap 1, symmetry | can a session get two drivers, be orphaned while driven, be lost, leak its shell, or leave the registry under its driver? is the cap kept? |
| `Reattach` | 3 connections, 2 chunks, 1 chunk between PTY and pump | does the client's counter ever run ahead, is unreceived output ever trimmed, is there a silent gap, can an orphan's token be one the server never wrote? does a waiting client get an answer or see the end of its connection? |
| `StateSync` | 2 cells of 2 values, 1 or 2 runs per datagram, bursts of 2, 2 snapshots, 3 epochs, 2 datagrams under way; 2 changes and 1 scrollback request or 1 change and 2 requests (`Budget`) | is the baseline always a grid the client acknowledged as it was sent, can the server fall silent before the newest epoch is applied, is a screen whose diffs stayed whole exactly one of the server's grids? |
| `Channels` | window 4, chunk 2, pages of 1, 3 and 4 bytes and 1 line, 2 lines of history, 4 page-ups and 3 lines of output, at most 5 of both together, queues of 1 and 2, dropped reads without output | is credit conserved, which pages can starve, is a waiting view answered, do the lines of a view leave out none between them while the history moves? |
| `Progress` | pty: 3 attachments, all capacities 1; channel: window 4, chunk 2, pages of 1 and 4, at most 1 line of history, 2 page-ups; registry: 2 slots, 1 identity, 2 handlers; sync: 2 cells, 1 run per datagram, 1 snapshot, 2 epochs, 2 scrollback requests | is the PTY writer owned exactly once, does only one reader take, is input kept in order, does an attachment's teardown end and its reader with it? do the channel's tasks end? does every exited session leave the registry? does the newest epoch reach the client once the shell is quiet? |
| `Connect` | 2 clients, one authorized, 2 servers, 1 permit, 3 native or 2 WebTransport connections, symmetry in the servers; framing: base 3, two-digit lengths, largest frame 3, 3 frames | do permits come back, are sessions mutual, does a pin hold? do frames come out as they went in unless a read is dropped? |
| `Display` | buffer: cap 4, chunks of 1, 2 and 5, 6 chunks; terminal: 6 events, 2x2, 3x1, 1x0 and 0x1, history of 3; screen: 5 events, 3x1 and 2x2; predictor: 3 batches, 2 frames, 3x2 resized once to 2x1; input: 5 bytes; OSC: 4 reads, limit 2 | is the ring an exact suffix, are replays exact, does it implement `ReplayWindow`? are the two screens apart, do pages tile the history, does everything stay inside the grid, do the arguments of a colour stay arguments? do client and server grids agree, is what the compositor believes drawn really drawn? are predictions confirmed before they show and never stale? does input arrive? do controls? |

`ShownWasMatched`, `NarrowRowsAgree`, `TtyShowsPhysical`, `ControlsArrive`,
`ScreenIsSnapshot`, `TerminalIsSound` and the three properties of `Channels` are
exact about their limits: each names the cases the code does not cover (the
first line of a connection, rows that held a wide glyph, a window that changed
and whose size no repaint has met yet, controls of a connection that failed,
diffs larger than a datagram, rows without columns, pages larger than the window
less a chunk, reads dropped half way). The statements without these exceptions
are among the refuted ones and the behaviours below.

### Refuted statements

Five runs show disagreements between the code and what its comments, tests or
decisions say; each is a finding of `PROJECT.json`:

| Run | Statement | What happens |
|---|---|---|
| `ReattachToken` | `TokenAgreement` (W1, D-10) | The rotated token is committed after a local write; if the frame is lost the client's token is dead. |
| `PtyPumpStall` | `LossOrphansSession` (D-02) | With input, output and PTY full the pump waits in `in_tx.send` and never polls its lost connection. |
| `StateSyncBurst` | `SettledIsConverged` (D-20-07) | The client's epoch gate drops every datagram of a burst but the first to arrive and acknowledges the epoch; the server takes the dropped cells as shown. |
| `FramingDesync` | `InSync` (28-UAT) | A `read_message_ns` dropped by `select!` forgets the bytes it took; the next read takes payload for a length. |
| `WtAuthTimeout` | `TimeoutIsPreAuth` (`AuthLimits`) | The timeout wraps the whole WebTransport handler and ends authenticated sessions. |

The instance of `StateSyncBurst` has the shortest cause. `SettledIsConverged`
fails in other ways too, which the hypotheses of `ScreenIsSnapshot` name: a cell
that changes and changes back while an acknowledgement is under way is in no
later diff, and a diff acknowledged from scrollback mode was never applied.

TLC also refutes these formulas, which stay in the modules without a run of
their own (to see the trace, put the formula into the cfg of a run of its
module; an instantiated module's formula needs a name in the MC module first, as
`NoEchoHidden` and `AdvanceReturns` have):

| Formula | Says | What happens |
|---|---|---|
| `QuitEndsSession` (`Reattach`) | D-01: quitting leaves no session behind | Quitting closes the connection without `SessionClose`; the session is orphaned. |
| `NoEchoHidden` (`Predictor`) | keys typed without echo are not shown | After Enter the caret stays at column 0, and a key equal to the prompt's glyph there counts as its echo. |
| `GridsAgree` (`ClientScreen`) | client and server grids are equal, wide glyphs included | A run is sent without continuation cells and its i-th character is put into the i-th column, so what follows a wide glyph in the run lands one column to the left. |
| `SnapBackRepaints` (`ClientScreen`) | leaving scrollback repaints the live screen | The physical grid is blank, so cells that are blank now are not written and history stays visible there. |
| `ActiveHasDrain` (`Channels`) | scrollback is entered only with a working drain task | `scrollback_available` is not cleared when the task ends. |
| `RejectedDoesNotRetry` (`Connect`) | a rejected client key is fatal | The client's `connect` can return before the server has checked its key (TLS 1.3, or a lost `Fail` frame); the rejection then shows as a closed connection, which is retried. |
| `UnauthenticatedBounded` (`Connect`) | permits bound unauthenticated connections | On the WebTransport path the permit is dropped before the inner authentication. |
| `OnlyOscCut` (`OscFilter`) | the pre-filter only truncates OSC strings | It takes 0x9D, the last byte of U+201D, for an OSC introducer, which the parser does not. |
| `AdvanceReturns` (`Terminal`) | `registry.rs:406`: a panic in `advance` is "impossible today" | CSI 1 J and CSI 1 K index column 0 of the cursor's row (`terminal.rs:1035`, `1079`); a window of rows without columns, which `resize` accepts, has none, and the panic unwinds the pump. |

Further behaviours of the code that the models have and that a reader may want
to know; no property states them:

* Terminal: `?1049h` twice saves the alternate screen as the primary one, and
  its lines can then scroll into the history (hence `nested` in `ScreensApart`).
* OSC: the scanner misses a sequence whose ESC and `]` are in different reads,
  one begun by the ESC that ended the one before, and one after ESC c in the
  same read; the bound does not apply to those (`tracked`), although
  `terminal.rs:70-72` and `293-294` say that vte never allocates past 1 MiB per
  OSC. What follows the terminator in a truncated read is lost. An OSC 8 with an
  empty URI is dropped, so a link never ends on the client. Several controls of
  one kind in one read coalesce, and drained ones are lost with a failed write;
  a title is not sent again after a reattach.
* Channels: a page larger than the window less a chunk waits for the 30 s
  timeout; pages requested by an earlier view are prepended to the present one.
  Output between two requests makes the second page repeat lines of the first,
  as many as were printed; the overlap is short-lived, since a diff of the
  page's epoch or a later one ends the view. A view left and entered again while
  a page is being read makes the drain task drop what it has of the page and
  lose its place in the stream, and a grant does the same to the sender's read
  of a request; the view may then wait for ever or show what was never printed.
  After the drain task ended its closed queue makes the pump's `select!` spin.
* Screen: a window that shrinks and is restored within the debounce never
  changes the size the server knows; the physical grid is not forgotten and what
  the terminal cropped stays missing until its cells change or the grid is
  forgotten for another reason.
* StateSync: after a diff was split or refused, a deferred run can be applied
  after the fresh run of the same cell; the client then shows a value that is
  stale and that the server takes for acknowledged.
* Predictor: a batch of two to four printable bytes is an epoch reset; each
  prediction waits for the very next frame and is culled by it; Backspace over a
  wide glyph leaves it.
* Input: a lone ESC is held until the next byte; bytes before `~.` in the same
  read are dropped with it; a `~.` cut in two by the reads during backoff is not
  seen; several page-ups in one read count once.
* Connect: declining a host key natively is a transient error and prompts again;
  two processes can each record a key for one name (the first holds); a "yes"
  given after the connection was lost still records.

### Bounds

Three slots and three handlers are the least that let an eviction race with
another orphaning and a reattach; cap 1 makes eviction frequent. Three
connections allow open, reattach and a second reattach, so that an error in the
first replay shows in the second; two chunks let one be acknowledged or evicted
and one not. Capacity 1 lets every buffer fill; three attachments let a reader
and a writer of the first outlive the second. Three epochs are the least that
let a diff against the first reach a screen that already shows the second; two
snapshots and resending make the store evict; a tick with one deferred run has
three runs, more than one datagram holds.

Window 4 with chunk 2 leaves 3 bytes when one is drained and not granted, so
pages of 1 and 3 pass and one of 4 starves; 4 page-ups fill the request queue
and let the view be left and entered again. Pages of one line, a history of two
and a third line of output make pages overlap and lines be evicted while a page
is under way. `Budget` of `MCChannels` bounds page-ups and lines together, and
looks at what follows a dropped read without a history, since `SenderMisreads`
and `DrainMisreads` answer with anything anyway. Three native connections let
two clients meet an unknown host at once and one of them dial again; one permit
makes every leak refuse the next client. A two-digit length and frames of one to
three digits let a read be dropped in the length and in the body, and make
payload readable as a length. A 5-byte chunk alone exceeds the buffer's cap. Six
terminal events are enough to print, enter the alternate screen, scroll, resize,
leave and print again; a 1x0 window has no row, a 0x1 window no column. Five
screen events let a window change, the server hear of it, its diff arrive, and
another frame be drawn. Two frames and three batches let a prediction be made,
contradicted and made again across an Enter; five bytes hold a whole paging
sequence and an escape; four reads hold a sequence cut at introducer, payload
and terminator, and the read after it.

`CHECK_DEADLOCK FALSE` is set for `Reattach` and `Progress` and the violation
runs `ReattachToken` and `PtyPumpStall`, where the system really stops: the
client has ended or used its connections, the last attachment is over, the
session has ended. Elsewhere a bounded model that has used its bound stutters
(`Done` and its like), and deadlock is checked.

### Fairness

`SessionRegistry`: the steps a handler takes without waiting for a peer, and the
exit watchers: tokio runs tasks that can go on, the joins of teardown time out
after 5 s, and a write to a silent peer fails at QUIC's idle timeout.
`Reattach`: the steps of handlers and client that wait for nobody, and
`PumpChannelOpen` on its own, because `select!` picks its ready arms at random.
`PtyPump`: threads run, timeouts fire, the shell keeps answering, the client
keeps trying to reattach (its supervisor loop). `StateSync`: the 16 ms timer
ticks, no datagram is under way for ever, and of the datagrams sent again and
again for the newest epoch one arrives; acknowledgements may all be lost.
`Channels`: each of the two pumps and two tasks goes on when it can; users and
failures need not. Otherwise nothing is assumed of the network, of users, or of
when shells exit.

## 4. Proofs

All for every value of the constants, from the ASSUMEs of the modules. For each
component an inductive invariant is defined (`IInv`, or one named after the
component where a module has several), `Init => IInv` is proved and that a step
of each action keeps each conjunct it can disturb, and the properties follow
from `Spec => []IInv`. Theorems about a component that an MC module instantiates
are about that component's own `Spec`, not about the choice of `machine`.

The assumptions on constants are named in the modules that declare them and
evaluated by the runs. Those of the instantiated components say little more than
what sets the constants are from: sizes are pairs of naturals, zero included for
the server's terminal, which takes what it is sent (`TerminalAssumption`), and
not for the client's own window (`ScreenAssumption`, `PredictorAssumption`);
reads are not empty (`OscAssumption`), the header holds every length `encode`
lets through and no message starts with another (`FramingAssumption`), the two
paging sequences are of one length and ESC occurs only at their start
(`InputAssumption`).

Loops of the code are recursive functions (`f[i \in 0..n]`), one step of the
loop an operator of its own. The library's induction theorems take an operator
as a parameter, which the provers cannot instantiate; three lemmas replace them.
A non-empty set of naturals has a least element (`LeastNat`, from the
well-foundedness of `<`); so what holds at 0 and is carried along holds up to
`n` (`UpTo`); so a step that stays in a set has a run (`LoopExists`), and that
run is the value of the recursive definition.

* `OutputProofs`, the buffer: type correctness, `RingIsSuffixOfStream`,
  `CapRespected`, `ReplayExact`, and that `OutputBuffer` implements
  `ReplayWindow`. The inductive invariant adds that chunk positions increase (so
  that a popped prefix leaves a suffix), that the ring is never longer than
  `next_seq`, and that an unacknowledged chunk is missing only if `truncated` is
  set; without the last, an empty ring could hide a lost chunk.
* `OutputProofs`, the controls: `ControlsArrive`. `OscCounted` says that, as
  long as the scanner saw a sequence begin, its count is the number of bytes the
  parser has of that sequence at the end of every read; within a read the two
  run one after the other, and the proof follows them byte by byte with the
  position each has reached. `OscOwed` says of every kind of control that the
  latest one is lost with its connection, or still pending, or the last of its
  kind on the wire, or shown.
* `OutputProofs`, the screen: `NarrowRowsAgree`, `TtyShowsPhysical`. The
  client's grids and the one the server diffs against have one size, the
  server's own grid another (`GridsAt`), the terminal a third (`TtyAt`), and a
  row outside `wide` has no wide glyph in any of them. Unless `moved`, the
  terminal's size is the client's and it shows what the physical grid claims; a
  frame drawn on a terminal of another size leaves it unknown, and a physical
  grid forgotten at the terminal's size claims nothing, which ends `moved`. For
  a narrow row the runs of a diff copy the new row and cover every cell that
  changed, so applying them to the old row gives the new one; and while a frame
  is written the cursor the compositor tracks is the terminal's, so a cell it
  writes lands where it meant and a cell it skips keeps what the physical grid
  claims.
* `SessionRegistryProofs`: type correctness, `OneDriver`, `DrivenIsNotOrphaned`,
  `RestingIsRecoverable`, `NoLeakedShell`, `DrivenStaysRegistered` and
  `OrphanCap`. The strengthening says who holds what: until `SessionOpened` is
  written nobody else can hold the slot; the child is with the one first handler
  until it returns and with a watcher afterwards; a registered slot is Orphaned
  unless it is driven; a slot removed with its child waited for has been, or is
  about to be, signalled. `orphan()` marks its slot before it takes the lock and
  evicts one slot after, so the cap is not an invariant by itself: `CapInv` says
  that the orphans of an identity exceed it by at most the `orphan()` calls
  under way, and `OrphanCap` is the case without any. The sets of slots and
  handlers may be infinite; the two sets counted are finite because they grow by
  one at a time.
* `PtyPumpProofs`: type correctness, `WriterOwnedOnce`, `OneReader`,
  `EarlierInputWritten`. The key facts are that every generation but the latest
  is past `orphan()`, that a reader which outlived its join holds a chunk it
  cannot deliver (so it takes nothing more), and that a writer task ends only
  with its channel empty.
* `StateSyncProofs`: type correctness, `SettledIsCurrent`, `BaselineWasSent`,
  `ScreenIsSnapshot`. The invariant has four parts. `EpochInv` bounds every
  epoch in the system by the server's and says that the newest one is
  acknowledged, or its acknowledgement under way, only if it was applied;
  suppressing a diff is safe because a page carries an epoch the server had
  reached, so what is older than the page is not the newest. `TypeInv` adds that
  the epoch bound leaves room for every change still to come, so the bound never
  stops a tick. `StoreInv` says that the store is ordered by epoch and evicted
  from its old end only, which makes the snapshot an acknowledgement finds the
  one that was sent. `DisplayInv` says of each datagram under way that there is
  a grid the client has had (`Fits`) from which it leads to its own: a cell it
  leaves out did not change between the two. It holds only while no run was ever
  deferred, since then all runs of a datagram are of different cells and the
  order in which they are applied does not matter. That a client which has since
  moved on may still apply it rests on no cell returning to an earlier value,
  which is the hypothesis the property names.
* `ReattachProofs`: `OrphanTokenWasSent`, `CounterNeverAhead`,
  `TrimmedWasReceived` and the action property `NoSilentGap`, in three layers,
  each proved with the ones before it. *Control*: only the latest connection
  carries frames to the client, and a session has one handler exactly while it
  is neither orphaned nor gone. *Tokens*: a token is minted once and stands for
  one session wherever it is held, by the slot, by a handler that has not
  committed it, by the client or on the wire; so a counter reported with a token
  is a counter of that session. *Counters*: the chunks on the wire are numbered
  without a gap up to the one the handler writes next, except where a
  `ReattachOk` before them says `truncated` (`Covered`); the client's counter is
  at most the number of the next chunk it reads (`Behind`) and at most what it
  received; every report under way is at most what was received. No invariant
  about the client alone is inductive here, since a frame written to a
  connection that was lost may still be read.
* `ConnectProofs`: `SessionIsMutual`, `PermitsConserved`, `PinHolds`. What is on
  the wire of a connection was made for it by its two ends (`WireInv`); a host
  key check that passed was made at the end of the server's own TLS session,
  because a proxy's session exports other keying material and the transcripts
  then differ (`CheckInv`); an identity a handler accepted is that of the
  client's key after the client's check passed. `known_hosts` only grows at its
  end, and a lookup takes the first entry.
* `ConnectProofs`, frames: `OnlyDroppedReadsDesync`. While no read was dropped,
  the bytes the read holds, the bytes that arrived and those in flight, one
  after the other, are the encodings of the messages sent and not yet got
  (`InStep`). Reading a length back gives the length written (`Rests` takes off
  one digit at a time and ends at 0), it is never above the cap, and a body
  decodes to one message only since no message starts with another.
* `DisplayProofs`, the terminal: `TerminalIsSound`, `ScreensApart`, `PagesTile`.
  `TermInv` is a type whose cells say which glyphs they may hold: only those
  printed since the last reset, on the screen they are on, or on either once the
  alternate screen was entered twice. Every operation maps that type to itself,
  which is the whole argument for the first two. `PanicInv` says that an index
  outside the grid happened only at sizes with rows and no columns: elsewhere
  the cursor is inside a row that has a cell for every column up to it. Its pen
  has only attributes that some input asks for outside the values of its first
  24-bit colour; the loop over the parameters keeps that because what it has
  still to skip reaches to the end of those values. For the third property,
  where each page begins and ends in the history is computed, and an induction
  over the pages shows that what was joined so far is the history up to there.
* `DisplayProofs`, the predictor: `ShownWasMatched`, `PredictionsFit`.
  `PredictInv` says that each prediction lies in the window (`Placed`), waits
  for a frame not yet seen (`Fresh`), and is of the line being typed and of an
  epoch begun on it (`OfLine`); and that the confirmed epoch was credited by a
  match, and no match of another line is of an epoch as late as a prediction's
  (`Credited`). A prediction is shown only when its epoch is confirmed, so the
  match that confirmed it was on its line.
* `DisplayProofs`, the input: `InputArrives`. A stream may be cut after a byte
  if nothing that starts up to there covers a later byte (`CutAt`): no paging
  sequence, and no beginning of one at the end. What the accumulator holds
  starts at such a cut and none of it is kept so far (`Holds`). So the bytes
  forwarded for the next read continue what was forwarded before (`NextRead`):
  `Plain(t \o b) = Plain(t) \o Plain(h \o b)` where `h` is held of `t`. The
  escape machine's state is a function of all the bytes it was given
  (`LineState`), and each byte adds to what is forwarded what the machine emits
  for it (`ForwardedNext`).
* `ChannelsProofs`: `CreditConserved`, `OnlyLargePagesStarve`, `PagesArrive`.
  `PhaseInv` is the life of the channel: one `ChannelOpen`, the stream once in
  the task's queue, and, while the sender task works and the session goes on, no
  close anywhere and the drain task going on; so the pump never blocks on
  handing on a stream. `RequestInv` says that in a view entered once at most one
  request or page is under way, a request for as many lines back as the view
  holds, a page whose lines tile the history with those the view holds (`Fits`);
  that stays so while lines are printed, since a line printed later only moves
  the page towards newer lines. With at most one of them under way no request
  can find a page half read, so only a view entered again makes the drain task
  drop a read. `CreditInv` says that every grant but the drain task's last is
  worth a chunk, and that the amounts make up the window until the drain task
  drops a read or begins to end. The pump hands grants on with `try_send`, which
  drops them when the task's queue is full; that this never happens is the point
  of `GrantFits`: a full queue of grants and one more would be worth more than
  the window. It needs `Window <= EventCap * Chunk` in `ChannelsAssumption`,
  which the code's constants satisfy (256 KiB, 64 events, 128 KiB); with a
  smaller chunk or queue a grant can be lost for good. Sums are written as
  cardinalities (`Sum` counts the elements of a sequence out in units), which
  lets their laws follow from the library's theorems on finite sets without an
  induction.

Type correctness, `CapRespected` and the `Invariance` theorems are proved and
not listed by a run: the runs' other properties would fail first.

Only model-checked is all liveness (`ClientSettles`, `AttachmentEnds`,
`ChannelEnds`, `ExitedSessionLeaves`, `NewestIsApplied`): TLAPS does not reach
it under fairness.

## 5. Not modelled

* Cryptography, key formats and files: symbolic in `Connect`.
* The byte layout of datagrams and of postcard messages: data transformations
  without state; `Framing` models what frames them.
* The transport adapters and the vte parser: external or thin; modelled from how
  the code uses them, where it does.
* PTY clean ends (shell exit, `SessionClose`) in `PtyPump`, the non-Unix reader,
  raw mode, signals and the status line of the client.
* Channels of other kinds than scrollback: only test builds open them.
* Durations are abstracted to "may fire when blocked".

## 6. Plan

1. `PtyPump`: the clean ends.
2. `StateSync`: the cursor and resizing.
