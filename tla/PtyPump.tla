------------------------------ MODULE PtyPump -------------------------------
(***************************************************************************)
(* How nosh-server moves bytes between a connection and the PTY of one     *)
(* session, and how it stops doing so (server.rs, pty_io.rs).  Each        *)
(* attachment of the session, fresh or reattached, is a generation with a  *)
(* pump task, a blocking reader thread and a blocking writer task, joined  *)
(* by two bounded channels:                                                *)
(*                                                                         *)
(*   client -> pump -> in channel  -> writer -> PTY input  -> shell        *)
(*   client <- pump <- out channel <- reader <- PTY output <-              *)
(*                                                                         *)
(* Bytes are counted in chunks.  The kernel's PTY buffers and the shell    *)
(* are external: the shell answers each input with one output, as a        *)
(* program that echoes does, and blocks when the PTY output is full.       *)
(***************************************************************************)
EXTENDS Naturals, FiniteSets

CONSTANTS
  MaxGens,         \* bound: attachments of the session
  InCap, OutCap,   \* capacity of the two channels (64 and 64 in the code)
  PtyIn, PtyOut    \* capacity of the kernel's two PTY buffers

ASSUME PtyPumpAssumption ==
  /\ MaxGens \in Nat \ {0}
  /\ InCap \in Nat \ {0} /\ OutCap \in Nat \ {0}
  /\ PtyIn \in Nat \ {0} /\ PtyOut \in Nat \ {0}

Gens == 1 .. MaxGens

VARIABLES
  slot,        \* "Active" or "Orphaned"
  gen,         \* the latest generation
  slotWriter,  \* whether the PTY writer is in the slot
  link,        \* generations whose connection is not lost
  pump,        \* where the pump task of a generation is
  reader,      \* where its reader thread is
  told,        \* generations whose shutdown pipe was written
  writer,      \* where its writer task is
  inq, outq,   \* chunks in its two channels
  ptyIn, ptyOut,   \* chunks in the PTY's buffers
  shell        \* "reading", or "writing" the answer to an input

ptyVars == <<ptyIn, ptyOut, shell>>
vars == <<slot, gen, slotWriter, link, pump, reader, told, writer, inq, outq, ptyVars>>

Init ==
  /\ slot = "Active"
  /\ gen = 1
  /\ slotWriter = FALSE
  /\ link = {1}
  /\ pump = [g \in Gens |-> IF g = 1 THEN "running" ELSE "off"]
  /\ reader = [g \in Gens |-> IF g = 1 THEN "polling" ELSE "off"]
  /\ told = {}
  /\ writer = [g \in Gens |-> IF g = 1 THEN "receiving" ELSE "off"]
  /\ inq = [g \in Gens |-> 0]
  /\ outq = [g \in Gens |-> 0]
  /\ ptyIn = 0
  /\ ptyOut = 0
  /\ shell = "reading"
-----------------------------------------------------------------------------
(* unix_reader_loop: poll reports PTY data and no shutdown (the pipe has   *)
(* priority), then the thread reads, told to stop meanwhile or not.        *)
ReaderPolls(g) ==
  /\ reader[g] = "polling"
  /\ g \notin told
  /\ ptyOut > 0
  /\ reader' = [reader EXCEPT ![g] = "reading"]
  /\ UNCHANGED <<slot, gen, slotWriter, link, pump, told, writer, inq, outq, ptyVars>>

ReaderTakes(g) ==
  /\ reader[g] = "reading"
  /\ ptyOut > 0
  /\ ptyOut' = ptyOut - 1
  /\ reader' = [reader EXCEPT ![g] = "holding"]
  /\ UNCHANGED <<slot, gen, slotWriter, link, pump, told, writer, inq, outq, ptyIn, shell>>

(* blocking_send has room.                                                 *)
ReaderSends(g) ==
  /\ reader[g] = "holding"
  /\ pump[g] # "gone"
  /\ outq[g] < OutCap
  /\ outq' = [outq EXCEPT ![g] = @ + 1]
  /\ reader' = [reader EXCEPT ![g] = "polling"]
  /\ UNCHANGED <<slot, gen, slotWriter, link, pump, told, writer, inq, ptyVars>>

(* Mutant: a reader blocked in blocking_send never learns that the         *)
(* receiver is gone.                                                       *)
ReaderExitsOnPipe(g) ==
  /\ reader[g] = "polling"
  /\ g \in told
  /\ reader' = [reader EXCEPT ![g] = "exited"]
  /\ UNCHANGED <<slot, gen, slotWriter, link, pump, told, writer, inq, outq, ptyVars>>

(* The pipe is readable, or the receiver of the channel is gone.           *)
ReaderExits(g) ==
  /\ \/ reader[g] = "polling" /\ g \in told
     \/ reader[g] = "holding" /\ pump[g] = "gone"
  /\ reader' = [reader EXCEPT ![g] = "exited"]
  /\ UNCHANGED <<slot, gen, slotWriter, link, pump, told, writer, inq, outq, ptyVars>>

(* The input_writer task.                                                  *)
WriterTakes(g) ==
  /\ writer[g] = "receiving"
  /\ inq[g] > 0
  /\ inq' = [inq EXCEPT ![g] = @ - 1]
  /\ writer' = [writer EXCEPT ![g] = "writing"]
  /\ UNCHANGED <<slot, gen, slotWriter, link, pump, reader, told, outq, ptyVars>>

WriterWrites(g) ==
  /\ writer[g] = "writing"
  /\ ptyIn < PtyIn
  /\ ptyIn' = ptyIn + 1
  /\ writer' = [writer EXCEPT ![g] = "receiving"]
  /\ UNCHANGED <<slot, gen, slotWriter, link, pump, reader, told, inq, outq, ptyOut, shell>>

(* in_tx was dropped and its channel is empty: return_pty_writer.          *)
WriterExits(g) ==
  /\ writer[g] = "receiving"
  /\ inq[g] = 0
  /\ pump[g] \in {"stopping", "joining", "orphaned", "gone"}
  /\ writer' = [writer EXCEPT ![g] = "exited"]
  /\ slotWriter' = TRUE
  /\ UNCHANGED <<slot, gen, link, pump, reader, told, inq, outq, ptyVars>>
-----------------------------------------------------------------------------
(* The out_rx arm of the pump: push the chunk and write it to the client.  *)
PumpOutput(g) ==
  /\ pump[g] = "running"
  /\ outq[g] > 0
  /\ outq' = [outq EXCEPT ![g] = @ - 1]
  /\ UNCHANGED <<slot, gen, slotWriter, link, pump, reader, told, writer, inq, ptyVars>>

(* The client-frame arm: a PtyData is read, then in_tx.send is awaited.    *)
PumpInput(g) ==
  /\ pump[g] = "running"
  /\ g \in link
  /\ pump' = [pump EXCEPT ![g] = "sending"]
  /\ UNCHANGED <<slot, gen, slotWriter, link, reader, told, writer, inq, outq, ptyVars>>

PumpForwards(g) ==
  /\ pump[g] = "sending"
  /\ inq[g] < InCap
  /\ inq' = [inq EXCEPT ![g] = @ + 1]
  /\ pump' = [pump EXCEPT ![g] = "running"]
  /\ UNCHANGED <<slot, gen, slotWriter, link, reader, told, writer, outq, ptyVars>>

LinkLost(g) ==
  /\ g \in link
  /\ link' = link \ {g}
  /\ UNCHANGED <<slot, gen, slotWriter, pump, reader, told, writer, inq, outq, ptyVars>>

(* The loop breaks with TransportLost: drop in_tx, signal_shutdown.        *)
PumpStops(g) ==
  /\ pump[g] = "running"
  /\ g \notin link
  /\ told' = told \cup {g}
  /\ pump' = [pump EXCEPT ![g] = "stopping"]
  /\ UNCHANGED <<slot, gen, slotWriter, link, reader, writer, inq, outq, ptyVars>>

(* A join waits at most five seconds.  A thread that can go on ends well   *)
(* within them, so the timeout fires only for one that is blocked: the     *)
(* reader on a full channel nobody drains any more, the writer on a full   *)
(* PTY.                                                                    *)
ReaderBlocked(g) == reader[g] = "holding" /\ outq[g] = OutCap
WriterBlocked(g) == writer[g] = "writing" /\ ptyIn = PtyIn

(* Mutant: the reader is not joined before teardown goes on.              *)
ReaderNotAwaited(g) ==
  /\ pump[g] = "stopping"
  /\ pump' = [pump EXCEPT ![g] = "joining"]
  /\ UNCHANGED <<slot, gen, slotWriter, link, reader, told, writer, inq, outq, ptyVars>>

(* The reader is joined, or five seconds have passed.                      *)
ReaderJoined(g) ==
  /\ pump[g] = "stopping"
  /\ reader[g] = "exited" \/ ReaderBlocked(g)
  /\ pump' = [pump EXCEPT ![g] = "joining"]
  /\ UNCHANGED <<slot, gen, slotWriter, link, reader, told, writer, inq, outq, ptyVars>>

(* The writer is joined, or five seconds have passed: orphan().            *)
WriterJoined(g) ==
  /\ pump[g] = "joining"
  /\ writer[g] = "exited" \/ WriterBlocked(g)
  /\ pump' = [pump EXCEPT ![g] = "orphaned"]
  /\ slot' = "Orphaned"
  /\ UNCHANGED <<gen, slotWriter, link, reader, told, writer, inq, outq, ptyVars>>

(* The handler returns; out_rx is dropped with what it holds.              *)
PumpReturns(g) ==
  /\ pump[g] = "orphaned"
  /\ pump' = [pump EXCEPT ![g] = "gone"]
  /\ outq' = [outq EXCEPT ![g] = 0]
  /\ UNCHANGED <<slot, gen, slotWriter, link, reader, told, writer, inq, ptyVars>>

(* Mutants: a reattach opens a writer of its own instead of taking the     *)
(* slot's; it leaves the writer it uses in the slot.                       *)
ReattachAnyWriter ==
  LET g == gen + 1 IN
  /\ slot = "Orphaned"
  /\ g \in Gens
  /\ slotWriter' = FALSE
  /\ slot' = "Active"
  /\ gen' = g
  /\ link' = link \cup {g}
  /\ pump' = [pump EXCEPT ![g] = "running"]
  /\ reader' = [reader EXCEPT ![g] = "polling"]
  /\ writer' = [writer EXCEPT ![g] = "receiving"]
  /\ UNCHANGED <<told, inq, outq, ptyVars>>

ReattachKeepsWriter ==
  LET g == gen + 1 IN
  /\ slot = "Orphaned"
  /\ g \in Gens
  /\ slotWriter
  /\ slot' = "Active"
  /\ gen' = g
  /\ link' = link \cup {g}
  /\ pump' = [pump EXCEPT ![g] = "running"]
  /\ reader' = [reader EXCEPT ![g] = "polling"]
  /\ writer' = [writer EXCEPT ![g] = "receiving"]
  /\ UNCHANGED <<slotWriter, told, inq, outq, ptyVars>>

(* run_reattach_session gets the writer and starts the next generation.  A *)
(* reattach that finds no writer in the slot re-orphans it and changes     *)
(* nothing here.                                                           *)
Reattach ==
  LET g == gen + 1 IN
  /\ slot = "Orphaned"
  /\ g \in Gens
  /\ slotWriter
  /\ slotWriter' = FALSE
  /\ slot' = "Active"
  /\ gen' = g
  /\ link' = link \cup {g}
  /\ pump' = [pump EXCEPT ![g] = "running"]
  /\ reader' = [reader EXCEPT ![g] = "polling"]
  /\ writer' = [writer EXCEPT ![g] = "receiving"]
  /\ UNCHANGED <<told, inq, outq, ptyVars>>
-----------------------------------------------------------------------------
(* The shell.                                                              *)
ShellReads ==
  /\ shell = "reading"
  /\ ptyIn > 0
  /\ ptyIn' = ptyIn - 1
  /\ shell' = "writing"
  /\ UNCHANGED <<slot, gen, slotWriter, link, pump, reader, told, writer, inq, outq, ptyOut>>

ShellWrites ==
  /\ shell = "writing"
  /\ ptyOut < PtyOut
  /\ ptyOut' = ptyOut + 1
  /\ shell' = "reading"
  /\ UNCHANGED <<slot, gen, slotWriter, link, pump, reader, told, writer, inq, outq, ptyIn>>

ReaderStep(g) == ReaderPolls(g) \/ ReaderTakes(g) \/ ReaderSends(g) \/ ReaderExits(g)
WriterStep(g) == WriterTakes(g) \/ WriterWrites(g) \/ WriterExits(g)
Teardown(g)   == PumpStops(g) \/ ReaderJoined(g) \/ WriterJoined(g) \/ PumpReturns(g)
ShellStep     == ShellReads \/ ShellWrites

Next ==
  \/ \E g \in Gens :
       \/ ReaderStep(g) \/ WriterStep(g) \/ Teardown(g)
       \/ PumpOutput(g) \/ PumpInput(g) \/ PumpForwards(g) \/ LinkLost(g)
  \/ Reattach
  \/ ShellStep

Spec == Init /\ [][Next]_vars

(* Threads and tasks run when they can, every timeout fires, and the shell *)
(* keeps answering while it can.  A client that lost its link keeps trying *)
(* to reattach (D-10).                                                     *)
Fairness ==
  /\ \A g \in Gens :
       /\ WF_vars(ReaderStep(g)) /\ WF_vars(WriterStep(g)) /\ WF_vars(Teardown(g))
       /\ WF_vars(PumpForwards(g)) /\ WF_vars(PumpOutput(g))
  /\ WF_vars(ShellStep)
  /\ WF_vars(Reattach)

FairSpec == Spec /\ Fairness
-----------------------------------------------------------------------------
TypeOK ==
  /\ slot \in {"Active", "Orphaned"}
  /\ gen \in Gens
  /\ slotWriter \in BOOLEAN
  /\ link \subseteq Gens
  /\ pump \in [Gens -> {"off", "running", "sending", "stopping", "joining", "orphaned", "gone"}]
  /\ reader \in [Gens -> {"off", "polling", "reading", "holding", "exited"}]
  /\ told \subseteq Gens
  /\ writer \in [Gens -> {"off", "receiving", "writing", "exited"}]
  /\ inq \in [Gens -> 0 .. InCap]
  /\ outq \in [Gens -> 0 .. OutCap]
  /\ ptyIn \in 0 .. PtyIn
  /\ ptyOut \in 0 .. PtyOut
  /\ shell \in {"reading", "writing"}

(* W2: the PTY writer has exactly one owner, the slot or one input task,   *)
(* through every teardown, timeout and reattach.                           *)
Writing(g) == writer[g] \in {"receiving", "writing"}
WriterOwnedOnce ==
  /\ \A g, h \in Gens : Writing(g) /\ Writing(h) => g = h
  /\ slotWriter <=> \A g \in Gens : ~Writing(g)

(* D-03: two readers never take from the PTY.  When a reattach starts its  *)
(* reader, an earlier one that outlived its join can only hand over what   *)
(* it holds and end.                                                       *)
Taking(g) == reader[g] = "reading" \/ (reader[g] = "polling" /\ g \notin told)
OneReader == \A g, h \in Gens : Taking(g) /\ Taking(h) => g = h

(* What earlier connections typed is in the PTY before the latest one can  *)
(* type: input is never lost or overtaken across a reattach.               *)
EarlierInputWritten ==
  \A g \in Gens : g < gen => inq[g] = 0 /\ writer[g] = "exited"

(* A pump that saw its transport fail orphans the session and returns, and *)
(* the reader thread it told to stop ends, whatever the reader and the     *)
(* writer are blocked on.                                                  *)
AttachmentEnds ==
  \A g \in Gens : g \in told ~> (pump[g] = "gone" /\ reader[g] = "exited")

(* D-02: "transport error / connection lost -> transition the session to   *)
(* Orphaned": the pump of a lost connection orphans its session.           *)
LossOrphansSession ==
  \A g \in Gens :
    g \notin link /\ pump[g] \in {"running", "sending"} ~> pump[g] = "orphaned"
=============================================================================
