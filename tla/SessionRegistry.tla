-------------------------- MODULE SessionRegistry ---------------------------
(***************************************************************************)
(* The store of live and orphaned sessions of nosh-server (registry.rs)    *)
(* and the lifetime of the connection handlers that use it (run_session    *)
(* and run_reattach_session of server.rs).                                 *)
(*                                                                         *)
(* Each tokio task that serves a connection is a handler; the handlers,    *)
(* the reaper, the shell-exit watchers and the shells run concurrently.    *)
(* What the code does under the registry lock is one step; what it does    *)
(* before or after the lock is a step of its own, so orphan(), which marks *)
(* the slot, then takes the lock, then signals its victim, is three.       *)
(*                                                                         *)
(* The Vec of an identity is the set of registered slots it owns: every    *)
(* operation keys the map with the identity of the slot.  last_active is   *)
(* only ever compared between Orphaned slots, and each of those froze it   *)
(* in mark_orphaned, so the model keeps the order of those freezes.        *)
(***************************************************************************)
EXTENDS Naturals, FiniteSets

CONSTANTS
  Slots,           \* session slots that can exist at one time
  Identities,      \* SSH identities
  Handlers,        \* connections that can be served at one time
  NoSlot,          \* no slot
  MaxPerIdentity,  \* max_per_identity: orphans kept for one identity
  IdleTimeout      \* whether idle_timeout is above zero

ASSUME RegistryAssumption ==
  /\ NoSlot \notin Slots
  /\ MaxPerIdentity \in Nat
  /\ IdleTimeout \in BOOLEAN

VARIABLES
  registered,  \* slots the registry holds
  owner,       \* identity a slot is bound to
  state,       \* SlotState of a slot, "Free" while it is not allocated
  frozen,      \* <<s, t>>: both were marked orphaned, s before t
  shell,       \* whether the shell of a slot runs
  hup,         \* slots whose shell was sent SIGHUP
  child,       \* who waits for the shell: see ChildHolder
  pc,          \* where a handler is
  at,          \* the slot a handler holds an Arc of
  victim,      \* slot a handler evicted and has yet to signal
  doomed       \* slots the reaper removed and has yet to signal

slotVars == <<registered, owner, state, frozen, shell, hup, child>>
vars == <<slotVars, pc, at, victim, doomed>>

SlotState == {"Free", "Active", "Orphaned", "Reconnecting"}

(* The shell's Child is in the slot, then in run_session's wait_task, then *)
(* (once that run_session orphaned the slot) in a detached exit watcher.   *)
ChildHolder == {"slot", "pump", "watcher", "nobody"}

(* A handler is accepting a connection, writing SessionOpened, pumping a   *)
(* first ("pump") or a reattached ("repump") connection, replaying to a    *)
(* reattached client, stopping its reader and writer after a transport     *)
(* loss, inside orphan() before its lock or before its SIGHUP, or closing  *)
(* the connection after a clean end.  A name ending in 1 belongs to the    *)
(* run_session that spawned the shell, one ending in 2 to a reattach.      *)
FirstPC  == {"opening", "pump", "stopping1", "orphaning1", "evicting1", "closing1"}
SecondPC == {"rebinding", "repump", "stopping2", "orphaning2", "evicting2", "closing2"}
PC       == {"accepting"} \cup FirstPC \cup SecondPC

(* While a handler is at one of these it drives the slot's PTY.            *)
DrivingPC == {"opening", "pump", "stopping1", "closing1",
              "rebinding", "repump", "stopping2", "closing2"}

Drives(h, s) == at[h] = s /\ pc[h] \in DrivingPC

Goto(h, label) == pc' = [pc EXCEPT ![h] = label]

(* The handler's function returns: its Arc is dropped.                     *)
Return(h) ==
  /\ Goto(h, "accepting")
  /\ at' = [at EXCEPT ![h] = NoSlot]

Orphans(i) == {s \in registered : owner[s] = i /\ state[s] = "Orphaned"}

Thaw(S) == {e \in frozen : e[1] \notin S /\ e[2] \notin S}

Init ==
  /\ registered = {}
  /\ owner \in [Slots -> Identities]
  /\ state = [s \in Slots |-> "Free"]
  /\ frozen = {}
  /\ shell = [s \in Slots |-> "exited"]
  /\ hup = {}
  /\ child = [s \in Slots |-> "nobody"]
  /\ pc = [h \in Handlers |-> "accepting"]
  /\ at = [h \in Handlers |-> NoSlot]
  /\ victim = [h \in Handlers |-> NoSlot]
  /\ doomed = {}
-----------------------------------------------------------------------------
(* run_session up to the SessionOpened write: spawn the shell in a new     *)
(* slot and register_active it.                                            *)
OpenSession(h, i, s) ==
  /\ pc[h] = "accepting"
  /\ state[s] = "Free"
  /\ registered' = registered \cup {s}
  /\ owner' = [owner EXCEPT ![s] = i]
  /\ state' = [state EXCEPT ![s] = "Active"]
  /\ shell' = [shell EXCEPT ![s] = "running"]
  /\ hup' = hup \ {s}
  /\ child' = [child EXCEPT ![s] = "slot"]
  /\ at' = [at EXCEPT ![h] = s]
  /\ Goto(h, "opening")
  /\ UNCHANGED <<frozen, victim, doomed>>

(* Mutant: the early return forgets to take the slot out of the registry.  *)
OpenedFailsKeepsSlot(h) ==
  /\ pc[h] = "opening"
  /\ Return(h)
  /\ UNCHANGED <<slotVars, victim, doomed>>

(* SessionOpened could not be written: remove and return.                  *)
OpenedFails(h) ==
  /\ pc[h] = "opening"
  /\ registered' = registered \ {at[h]}
  /\ Return(h)
  /\ UNCHANGED <<owner, state, frozen, shell, hup, child, victim, doomed>>

(* SessionOpened is written: take_child for the wait_task, start the pump. *)
OpenedSent(h) ==
  /\ pc[h] = "opening"
  /\ child' = [child EXCEPT ![at[h]] = "pump"]
  /\ Goto(h, "pump")
  /\ UNCHANGED <<registered, owner, state, frozen, shell, hup, at, victim, doomed>>

(* Mutant: reattach does not look at the state of the slot.                *)
ReattachAnyState(h, i, s) ==
  /\ pc[h] = "accepting"
  /\ s \in registered
  /\ owner[s] = i
  /\ state' = [state EXCEPT ![s] = "Reconnecting"]
  /\ frozen' = Thaw({s})
  /\ at' = [at EXCEPT ![h] = s]
  /\ Goto(h, "rebinding")
  /\ UNCHANGED <<registered, owner, shell, hup, child, victim, doomed>>

(* SessionRegistry::reattach succeeds for a connection of identity i that  *)
(* presents the live token of s.  Every rejection leaves the registry as   *)
(* it is and ends the connection.                                          *)
ReattachSlot(h, i, s) ==
  /\ pc[h] = "accepting"
  /\ s \in registered
  /\ owner[s] = i
  /\ state[s] = "Orphaned"
  /\ state' = [state EXCEPT ![s] = "Reconnecting"]
  /\ frozen' = Thaw({s})
  /\ at' = [at EXCEPT ![h] = s]
  /\ Goto(h, "rebinding")
  /\ UNCHANGED <<registered, owner, shell, hup, child, victim, doomed>>

(* Mutant: mark_active is forgotten.                                       *)
RebindStaysReconnecting(h) ==
  /\ pc[h] = "rebinding"
  /\ Goto(h, "repump")
  /\ UNCHANGED <<slotVars, at, victim, doomed>>

(* ReattachOk and the replay are written, reader and writer are reclaimed: *)
(* mark_active, then the reattach pump starts.                             *)
RebindSucceeds(h) ==
  /\ pc[h] = "rebinding"
  /\ state' = [state EXCEPT ![at[h]] = "Active"]
  /\ Goto(h, "repump")
  /\ UNCHANGED <<registered, owner, frozen, shell, hup, child, at, victim, doomed>>

(* The pump of run_session ends because wait_task resolved, the pump of a  *)
(* reattach because the PTY reported end of file, which is taken to come   *)
(* with the shell's exit: a child of the shell that keeps the PTY open     *)
(* only delays it.                                                         *)
ShellExitSeen(h) ==
  /\ \/ pc[h] = "pump" /\ Goto(h, "closing1")
     \/ pc[h] = "repump" /\ Goto(h, "closing2")
  /\ shell[at[h]] = "exited"
  /\ UNCHANGED <<slotVars, at, victim, doomed>>

(* The client sent SessionClose (or broke the protocol): SIGHUP the shell. *)
ClientCloses(h) ==
  /\ \/ pc[h] = "pump" /\ Goto(h, "closing1")
     \/ pc[h] = "repump" /\ Goto(h, "closing2")
  /\ hup' = hup \cup {at[h]}
  /\ UNCHANGED <<registered, owner, state, frozen, shell, child, at, victim, doomed>>

(* Both clean ends close the connection and remove the slot; run_session   *)
(* drops its wait_task with it.                                            *)
CloseSession(h) ==
  /\ \/ pc[h] = "closing1" /\ child' = [child EXCEPT ![at[h]] = "nobody"]
     \/ pc[h] = "closing2" /\ UNCHANGED child
  /\ registered' = registered \ {at[h]}
  /\ Return(h)
  /\ UNCHANGED <<owner, state, frozen, shell, hup, victim, doomed>>

(* A read or write on the connection failed.                               *)
TransportLost(h) ==
  /\ \/ pc[h] = "pump" /\ Goto(h, "stopping1")
     \/ pc[h] = "repump" /\ Goto(h, "stopping2")
  /\ UNCHANGED <<slotVars, at, victim, doomed>>

(* The first half of orphan(): mark_orphaned, before the lock is taken.    *)
(* Reached once reader and writer are stopped (or given up on after their  *)
(* timeouts), and from re_orphan when a reattach fails half way.           *)
MarkOrphaned(h) ==
  LET s == at[h] IN
  /\ \/ pc[h] = "stopping1" /\ Goto(h, "orphaning1")
     \/ pc[h] \in {"stopping2", "rebinding"} /\ Goto(h, "orphaning2")
  /\ state' = [state EXCEPT ![s] = "Orphaned"]
  /\ frozen' = Thaw({s}) \cup {<<t, s>> : t \in {u \in Slots \ {s} : state[u] = "Orphaned"}}
  /\ UNCHANGED <<registered, owner, shell, hup, child, at, victim, doomed>>

(* Mutant: no exit watcher is spawned, the wait_task is dropped.           *)
OrphanReturnsUnwatched(h) ==
  /\ child' = IF pc[h] \in FirstPC THEN [child EXCEPT ![at[h]] = "nobody"] ELSE child
  /\ Return(h)

(* orphan() is over; a first handler now spawns the exit watcher.          *)
OrphanReturns(h) ==
  /\ child' = IF pc[h] \in FirstPC THEN [child EXCEPT ![at[h]] = "watcher"] ELSE child
  /\ Return(h)

(* Mutant: the cap is compared one too late.                               *)
OverCapByTwo(h) == Cardinality(Orphans(owner[at[h]])) > MaxPerIdentity + 1

OverCap(h) == Cardinality(Orphans(owner[at[h]])) > MaxPerIdentity

(* Slots orphan() may evict: any orphan of the identity but its own.       *)
Evictable(h) == Orphans(owner[at[h]]) \ {at[h]}

(* The locked half of orphan() removes the least recently active of them.  *)
EvictOldest(h) ==
  /\ \/ pc[h] = "orphaning1" /\ Goto(h, "evicting1")
     \/ pc[h] = "orphaning2" /\ Goto(h, "evicting2")
  /\ OverCap(h)
  /\ \E v \in Evictable(h) :
       /\ \A t \in Evictable(h) \ {v} : <<v, t>> \in frozen
       /\ registered' = registered \ {v}
       /\ victim' = [victim EXCEPT ![h] = v]
  /\ UNCHANGED <<owner, state, frozen, shell, hup, child, at, doomed>>

WithinCap(h) ==
  /\ pc[h] \in {"orphaning1", "orphaning2"}
  /\ ~OverCap(h) \/ Evictable(h) = {}
  /\ OrphanReturns(h)
  /\ UNCHANGED <<registered, owner, state, frozen, shell, hup, victim, doomed>>

(* The lock is released: SIGHUP the victim.                                *)
SighupVictim(h) ==
  /\ pc[h] \in {"evicting1", "evicting2"}
  /\ hup' = hup \cup {victim[h]}
  /\ victim' = [victim EXCEPT ![h] = NoSlot]
  /\ OrphanReturns(h)
  /\ UNCHANGED <<registered, owner, state, frozen, shell, doomed>>
-----------------------------------------------------------------------------
(* The exit watcher of an orphaned session: remove_slot.                   *)
WatcherRemoves(s) ==
  /\ child[s] = "watcher"
  /\ shell[s] = "exited"
  /\ registered' = registered \ {s}
  /\ child' = [child EXCEPT ![s] = "nobody"]
  /\ UNCHANGED <<owner, state, frozen, shell, hup, pc, at, victim, doomed>>

(* Mutants: the reaper does not skip the slots in use; it never signals    *)
(* the slots it removed.                                                   *)
ReapAnyState(Idle) ==
  /\ doomed = {}
  /\ Idle # {}
  /\ IdleTimeout
  /\ registered' = registered \ Idle
  /\ doomed' = Idle
  /\ UNCHANGED <<owner, state, frozen, shell, hup, child, pc, at, victim>>

ReapWithoutSighup(Idle) ==
  /\ Idle # {}
  /\ \A s \in Idle : state[s] = "Orphaned"
  /\ registered' = registered \ Idle
  /\ UNCHANGED <<owner, state, frozen, shell, hup, child, pc, at, victim, doomed>>

(* The locked half of reap_once.  Idle are the orphans past idle_timeout:  *)
(* whoever was orphaned before one of them is among them.  try_wait sees   *)
(* an exit only while the child is still in the slot.                      *)
ReapOnce(Idle) ==
  LET orphans == {s \in registered : state[s] = "Orphaned"}
      exited  == {s \in orphans : child[s] = "slot" /\ shell[s] = "exited"}
  IN  /\ doomed = {}
      /\ Idle \subseteq orphans
      /\ Idle # {} => IdleTimeout
      /\ \A s \in Idle, t \in orphans : <<t, s>> \in frozen => t \in Idle
      /\ Idle \cup exited # {}
      /\ registered' = registered \ (Idle \cup exited)
      /\ doomed' = Idle
      /\ UNCHANGED <<owner, state, frozen, shell, hup, child, pc, at, victim>>

(* The rest of reap_once: signal what idled out, lock released.            *)
ReaperSighup(s) ==
  /\ s \in doomed
  /\ hup' = hup \cup {s}
  /\ doomed' = doomed \ {s}
  /\ UNCHANGED <<registered, owner, state, frozen, shell, child, pc, at, victim>>

ShellExits(s) ==
  /\ shell[s] = "running"
  /\ shell' = [shell EXCEPT ![s] = "exited"]
  /\ UNCHANGED <<registered, owner, state, frozen, hup, child, pc, at, victim, doomed>>

(* The registry, a handler, an exit watcher or a pending SIGHUP still has  *)
(* an Arc of the slot.                                                     *)
Referenced(s) ==
  \/ s \in registered \cup doomed
  \/ child[s] = "watcher"
  \/ \E h \in Handlers : s \in {at[h], victim[h]}

(* The last Arc is gone: the MasterPty closes, which hangs the shell up.   *)
DropSlot(s) ==
  /\ state[s] # "Free"
  /\ ~Referenced(s)
  /\ state' = [state EXCEPT ![s] = "Free"]
  /\ frozen' = Thaw({s})
  /\ shell' = [shell EXCEPT ![s] = "exited"]
  /\ hup' = hup \ {s}
  /\ child' = [child EXCEPT ![s] = "nobody"]
  /\ UNCHANGED <<registered, owner, pc, at, victim, doomed>>

(* Steps a handler takes without waiting for a peer or a user.             *)
Progress(h) ==
  \/ OpenedFails(h) \/ OpenedSent(h)
  \/ RebindSucceeds(h) \/ MarkOrphaned(h)
  \/ ShellExitSeen(h) \/ CloseSession(h)
  \/ EvictOldest(h) \/ WithinCap(h) \/ SighupVictim(h)

Next ==
  \/ \E h \in Handlers :
       \/ Progress(h)
       \/ ClientCloses(h)
       \/ TransportLost(h)
       \/ \E i \in Identities, s \in Slots : OpenSession(h, i, s) \/ ReattachSlot(h, i, s)
  \/ \E s \in Slots : WatcherRemoves(s) \/ ReaperSighup(s) \/ ShellExits(s) \/ DropSlot(s)
  \/ \E Idle \in SUBSET registered : ReapOnce(Idle)

Spec == Init /\ [][Next]_vars

(* Tokio runs a task that can go on, the teardown waits have timeouts, and *)
(* a write to a silent peer fails at the QUIC idle timeout.  Nothing is    *)
(* assumed of clients, users or shells.                                    *)
Fairness ==
  /\ \A h \in Handlers : WF_vars(Progress(h))
  /\ \A s \in Slots : WF_vars(WatcherRemoves(s))

FairSpec == Spec /\ Fairness
-----------------------------------------------------------------------------
TypeOK ==
  /\ registered \subseteq Slots
  /\ owner \in [Slots -> Identities]
  /\ state \in [Slots -> SlotState]
  /\ frozen \subseteq Slots \X Slots
  /\ shell \in [Slots -> {"running", "exited"}]
  /\ hup \subseteq Slots
  /\ child \in [Slots -> ChildHolder]
  /\ pc \in [Handlers -> PC]
  /\ at \in [Handlers -> Slots \cup {NoSlot}]
  /\ victim \in [Handlers -> Slots \cup {NoSlot}]
  /\ doomed \subseteq Slots

(* D-12: two connections never drive one session.  reattach() may accept a *)
(* slot only after the handler that had it gave it up, even while that     *)
(* handler is still inside orphan().                                       *)
OneDriver ==
  \A g, h \in Handlers, s \in Slots : Drives(g, s) /\ Drives(h, s) => g = h

(* D-07: a session somebody drives is Active or Reconnecting, so neither   *)
(* the orphan cap nor the reaper can pick it.                              *)
DrivenIsNotOrphaned ==
  \A h \in Handlers, s \in Slots :
    Drives(h, s) => state[s] = IF pc[h] = "rebinding" THEN "Reconnecting" ELSE "Active"

(* D-05: once no orphan() call is between its mark and its lock, an        *)
(* identity has at most max_per_identity orphans (one, if that is zero:    *)
(* the slot being orphaned is never its own victim).                       *)
OrphanCap ==
  \A i \in Identities :
    (\A h \in Handlers : pc[h] \in {"orphaning1", "orphaning2"} => owner[at[h]] # i)
    => Cardinality(Orphans(i)) <= IF MaxPerIdentity = 0 THEN 1 ELSE MaxPerIdentity

(* A registered session nobody drives is Orphaned and has somebody waiting *)
(* for its shell: it can always be reattached and never outlives its shell *)
(* unnoticed.                                                              *)
RestingIsRecoverable ==
  \A s \in registered :
    (\A h \in Handlers : at[h] # s) => state[s] = "Orphaned" /\ child[s] = "watcher"

(* A session the registry gave up does not live on unseen: if nobody is    *)
(* about to signal it and only its exit watcher keeps the PTY open, its    *)
(* shell was sent SIGHUP.                                                  *)
NoLeakedShell ==
  \A s \in Slots :
    (/\ shell[s] = "running"
     /\ child[s] = "watcher"
     /\ s \notin registered \cup doomed
     /\ \A h \in Handlers : s \notin {at[h], victim[h]})
    => s \in hup

(* D-07: a driven session leaves the registry only through its own driver, *)
(* or because its shell exited.                                            *)
OnlyDriverRemoves ==
  \A h \in Handlers, s \in Slots :
    Drives(h, s) /\ s \in registered /\ s \notin registered' =>
      at'[h] = NoSlot \/ shell[s] = "exited"

DrivenStaysRegistered == [][OnlyDriverRemoves]_vars

(* The session of a shell that exited leaves the registry, whoever held it *)
(* when the shell exited.                                                  *)
ExitedSessionLeaves ==
  \A s \in Slots : shell[s] = "exited" ~> s \notin registered
=============================================================================
