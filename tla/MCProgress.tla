----------------------------- MODULE MCProgress -----------------------------
(* The tasks and threads that must not stall, in one model: the PTY pump,  *)
(* the scrollback channel, the session registry and the state              *)
(* synchronisation, each on its own.  `machine` says which of them runs;   *)
(* the others stay in their initial state.                                 *)
EXTENDS PtyPump

CONSTANTS
  Slots, Identities, Handlers, NoSlot, MaxPerIdentity, IdleTimeout,
  Window, Chunk, PageSizes, PageLines, LineCap, EventCap, ServerCap, ClientCap, PageCap,
  ReqCap, StreamCap, MaxPageUps, MaxLines,
  NumCells, Values, Blank, FitSizes, BurstCap, SnapCap, MaxRuns, MaxChanges, MaxEpoch,
  MaxAsked, MaxFlight

VARIABLES
  machine,
  registered, owner, state, frozen, shells, hup, child, pc, at, victim, doomed,
  cpump, drain, reqq, pageq, cctrl, view, pageups, pageRead, c2s, s2c, up, down, bound,
  upEOF, downEOF, spump, mapped, task, reqRead, evq, sctrl, printed, dropped, reentered,
  entered,
  grid, current_epoch, last_acked_epoch, last_acked_snapshot, last_sent_snapshot,
  pending_deferred, epoch_snapshots, toClient, toServer, requests, pages, screen,
  last_applied_epoch, mode, epoch_at_snapshot, pending_request, sent, whole, changes, asked

registryVars ==
  <<registered, owner, state, frozen, shells, hup, child, pc, at, victim, doomed>>
channelVars ==
  <<cpump, drain, reqq, pageq, cctrl, view, pageups, pageRead, c2s, s2c, up, down, bound,
    upEOF, downEOF, spump, mapped, task, reqRead, evq, sctrl, printed, dropped, reentered,
    entered>>
displayVars ==
  <<grid, current_epoch, last_acked_epoch, last_acked_snapshot, last_sent_snapshot,
    pending_deferred, epoch_snapshots, toClient, toServer, requests, pages, screen,
    last_applied_epoch, mode, epoch_at_snapshot, pending_request, sent, whole, changes, asked>>

Registry == INSTANCE SessionRegistry WITH shell <- shells
Channel  == INSTANCE Channels
Sync     == INSTANCE StateSync WITH view <- mode

MCInit ==
  /\ machine \in {"pty", "channel", "registry", "sync"}
  /\ Init
  /\ Registry!Init
  /\ Channel!Init /\ (machine # "channel" => printed = 0)
  /\ Sync!Init /\ (machine # "sync" => grid = screen)

MCNext ==
  /\ UNCHANGED machine
  /\ \/ machine = "pty" /\ Next /\ UNCHANGED <<registryVars, channelVars, displayVars>>
     \/ machine = "channel" /\ Channel!Next /\ UNCHANGED <<vars, registryVars, displayVars>>
     \/ machine = "registry" /\ Registry!Next /\ UNCHANGED <<vars, channelVars, displayVars>>
     \/ machine = "sync" /\ Sync!Next /\ UNCHANGED <<vars, registryVars, channelVars>>

MCvars == <<machine, vars, registryVars, channelVars, displayVars>>

In(m, A) == machine = m /\ A

(* The fairness of each component's own FairSpec, for the one that runs.   *)
MCFairness ==
  /\ \A g \in Gens :
       /\ WF_vars(In("pty", ReaderStep(g)))
       /\ WF_vars(In("pty", WriterStep(g)))
       /\ WF_vars(In("pty", Teardown(g)))
       /\ WF_vars(In("pty", PumpForwards(g)))
       /\ WF_vars(In("pty", PumpOutput(g)))
  /\ WF_vars(In("pty", ShellStep))
  /\ WF_vars(In("pty", Reattach))
  /\ WF_channelVars(In("channel", Channel!ClientPump))
  /\ WF_channelVars(In("channel", Channel!ServerPump))
  /\ WF_channelVars(In("channel", Channel!DrainTask))
  /\ WF_channelVars(In("channel", Channel!SenderTask))
  /\ \A h \in Handlers : WF_registryVars(In("registry", Registry!Progress(h)))
  /\ \A s \in Slots : WF_registryVars(In("registry", Registry!WatcherRemoves(s)))
  /\ WF_displayVars(In("sync", Sync!TickSends))
  /\ WF_displayVars(In("sync", Sync!DatagramEnds))
  /\ SF_displayVars(In("sync", \E d \in toClient : d.epoch = current_epoch /\ Sync!ApplyDiff(d)))

MCSpec == MCInit /\ [][MCNext]_MCvars /\ MCFairness
-----------------------------------------------------------------------------
(* See Channels: the two tasks of a scrollback channel end and its entry   *)
(* leaves channel_map.                                                     *)
ChannelEnds == Channel!ChannelEnds

(* See SessionRegistry: a session whose shell exited leaves the registry,  *)
(* whatever its handler, the watcher and the reaper are doing.             *)
ExitedSessionLeaves == Registry!ExitedSessionLeaves

(* See StateSync: once the shell is quiet the newest epoch is applied.     *)
NewestIsApplied == Sync!NewestIsApplied
=============================================================================
