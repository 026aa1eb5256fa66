----------------------- MODULE SessionRegistryProofs ------------------------
(***************************************************************************)
(* Proofs about SessionRegistry, for any number of slots, identities and   *)
(* connection handlers and any cap.                                        *)
(***************************************************************************)
EXTENDS SessionRegistry, FiniteSetTheorems, TLAPS

(* A handler holds a slot exactly while it serves a connection, and has a  *)
(* victim while it is about to signal one.                                 *)
HandlersWellFormed ==
  \A h \in Handlers :
    /\ pc[h] = "accepting" <=> at[h] = NoSlot
    /\ pc[h] \in {"evicting1", "evicting2"} <=> victim[h] # NoSlot

(* A slot is not given back while a handler has an Arc of it.              *)
HeldIsAllocated == \A h \in Handlers : at[h] \in Slots => state[at[h]] # "Free"

(* Until SessionOpened is written no other handler can know the session,   *)
(* and the child is still in the slot.                                     *)
OpeningIsAlone ==
  \A h \in Handlers :
    pc[h] = "opening" =>
      /\ at[h] \in registered
      /\ child[at[h]] = "slot"
      /\ \A g \in Handlers : at[g] = at[h] => g = h

(* After that its child is with the wait_task of that one handler, until   *)
(* the handler returns.                                                    *)
FirstHandlerWaits ==
  \A h \in Handlers :
    pc[h] \in FirstPC \ {"opening"} =>
      /\ child[at[h]] = "pump"
      /\ \A g \in Handlers : pc[g] \in FirstPC /\ at[g] = at[h] => g = h

(* A registered session whose first handler has returned has a watcher.    *)
Watched ==
  \A s \in registered :
    (\A h \in Handlers : at[h] = s => pc[h] \notin FirstPC) => child[s] = "watcher"

(* A registered session is Orphaned unless some handler drives it.         *)
DrivenOrOrphaned ==
  \A s \in registered : state[s] = "Orphaned" \/ \E h \in Handlers : Drives(h, s)

(* A clean end of a reattached session is only reached with the shell gone *)
(* or hung up.                                                             *)
ClosingIsDying ==
  \A h \in Handlers :
    pc[h] = "closing2" => shell[at[h]] = "exited" \/ at[h] \in hup

(* A session that left the registry with its child already waited for was  *)
(* signalled, is about to be, or has no shell any more.                    *)
RemovedIsSignalled ==
  \A s \in Slots \ (registered \cup doomed) :
    /\ child[s] \in {"pump", "watcher"}
    /\ shell[s] = "running"
    /\ \A h \in Handlers : victim[h] # s
    => s \in hup

IInv ==
  /\ TypeOK
  /\ HandlersWellFormed
  /\ OneDriver
  /\ DrivenIsNotOrphaned
  /\ HeldIsAllocated
  /\ OpeningIsAlone
  /\ FirstHandlerWaits
  /\ Watched
  /\ DrivenOrOrphaned
  /\ ClosingIsDying
  /\ RemovedIsSignalled
-----------------------------------------------------------------------------
(* The early return of run_session takes the slot along.                   *)
LEMMA OpenedFailsIInv ==
  ASSUME IInv, NEW h \in Handlers,
         OpenedFails(h)
  PROVE  IInv'
<1> USE RegistryAssumption DEF IInv, PC, FirstPC, SecondPC, DrivingPC, Drives, slotVars,
      OpenedFails, Return, Goto
<1>1. RemovedIsSignalled'
  BY DEF TypeOK, HandlersWellFormed, OneDriver, OpeningIsAlone, RemovedIsSignalled
<1>2. /\ TypeOK'
      /\ HandlersWellFormed'
      /\ OneDriver'
      /\ DrivenIsNotOrphaned'
      /\ HeldIsAllocated'
      /\ OpeningIsAlone'
      /\ FirstHandlerWaits'
      /\ Watched'
      /\ DrivenOrOrphaned'
      /\ ClosingIsDying'
  BY DEF TypeOK, HandlersWellFormed, OneDriver, DrivenIsNotOrphaned, HeldIsAllocated,
      OpeningIsAlone, FirstHandlerWaits, Watched, DrivenOrOrphaned, ClosingIsDying
<1> QED BY <1>1, <1>2 DEF IInv

(* The child moves from the slot to the wait_task of its only handler.     *)
LEMMA OpenedSentIInv ==
  ASSUME IInv, NEW h \in Handlers,
         OpenedSent(h)
  PROVE  IInv'
<1> USE RegistryAssumption DEF IInv, PC, FirstPC, SecondPC, DrivingPC, Drives, slotVars,
      OpenedSent, Goto
<1>1. TypeOK'
  BY DEF TypeOK, HandlersWellFormed, SlotState, ChildHolder
<1>2. FirstHandlerWaits'
  BY DEF TypeOK, HandlersWellFormed, HeldIsAllocated, OpeningIsAlone, FirstHandlerWaits
<1>3. RemovedIsSignalled'
  BY DEF TypeOK, HandlersWellFormed, OneDriver, OpeningIsAlone, RemovedIsSignalled
<1>4. /\ HandlersWellFormed'
      /\ OneDriver'
      /\ DrivenIsNotOrphaned'
      /\ HeldIsAllocated'
      /\ OpeningIsAlone'
      /\ Watched'
      /\ DrivenOrOrphaned'
      /\ ClosingIsDying'
  BY DEF TypeOK, HandlersWellFormed, OneDriver, DrivenIsNotOrphaned, HeldIsAllocated,
      OpeningIsAlone, Watched, DrivenOrOrphaned, ClosingIsDying
<1> QED BY <1>1, <1>2, <1>3, <1>4 DEF IInv

(* The rebinding handler is the only driver: the slot becomes Active for it. *)
LEMMA RebindSucceedsIInv ==
  ASSUME IInv, NEW h \in Handlers,
         RebindSucceeds(h)
  PROVE  IInv'
<1> USE RegistryAssumption DEF IInv, PC, FirstPC, SecondPC, DrivingPC, Drives, slotVars,
      RebindSucceeds, Goto
<1>1. TypeOK'
  BY DEF TypeOK, HandlersWellFormed, SlotState
<1>2. DrivenIsNotOrphaned'
  BY DEF TypeOK, HandlersWellFormed, OneDriver, DrivenIsNotOrphaned
<1>3. /\ HandlersWellFormed'
      /\ OneDriver'
      /\ HeldIsAllocated'
      /\ OpeningIsAlone'
      /\ FirstHandlerWaits'
      /\ Watched'
      /\ DrivenOrOrphaned'
      /\ ClosingIsDying'
      /\ RemovedIsSignalled'
  BY DEF TypeOK, HandlersWellFormed, OneDriver, HeldIsAllocated, OpeningIsAlone,
      FirstHandlerWaits, Watched, DrivenOrOrphaned, ClosingIsDying, RemovedIsSignalled
<1> QED BY <1>1, <1>2, <1>3 DEF IInv

(* The pump ends on an exited shell.                                       *)
LEMMA ShellExitSeenIInv ==
  ASSUME IInv, NEW h \in Handlers,
         ShellExitSeen(h)
  PROVE  IInv'
<1> USE RegistryAssumption DEF IInv, PC, FirstPC, SecondPC, DrivingPC, Drives, slotVars,
      ShellExitSeen, Goto
<1>1. /\ TypeOK'
      /\ HandlersWellFormed'
      /\ OneDriver'
      /\ DrivenIsNotOrphaned'
      /\ HeldIsAllocated'
      /\ OpeningIsAlone'
      /\ FirstHandlerWaits'
      /\ Watched'
      /\ DrivenOrOrphaned'
      /\ ClosingIsDying'
      /\ RemovedIsSignalled'
  BY DEF TypeOK, HandlersWellFormed, OneDriver, DrivenIsNotOrphaned, HeldIsAllocated,
      OpeningIsAlone, FirstHandlerWaits, Watched, DrivenOrOrphaned, ClosingIsDying,
      RemovedIsSignalled
<1> QED BY <1>1 DEF IInv

(* The pump ends and the shell is hung up.                                 *)
LEMMA ClientClosesIInv ==
  ASSUME IInv, NEW h \in Handlers,
         ClientCloses(h)
  PROVE  IInv'
<1> USE RegistryAssumption DEF IInv, PC, FirstPC, SecondPC, DrivingPC, Drives, slotVars,
      ClientCloses, Goto
<1>1. TypeOK'
  BY DEF TypeOK, HandlersWellFormed
<1>2. /\ HandlersWellFormed'
      /\ OneDriver'
      /\ DrivenIsNotOrphaned'
      /\ HeldIsAllocated'
      /\ OpeningIsAlone'
      /\ FirstHandlerWaits'
      /\ Watched'
      /\ DrivenOrOrphaned'
      /\ ClosingIsDying'
      /\ RemovedIsSignalled'
  BY DEF TypeOK, HandlersWellFormed, OneDriver, DrivenIsNotOrphaned, HeldIsAllocated,
      OpeningIsAlone, FirstHandlerWaits, Watched, DrivenOrOrphaned, ClosingIsDying,
      RemovedIsSignalled
<1> QED BY <1>1, <1>2 DEF IInv

(* A clean end removes the slot; its shell is gone or hung up.             *)
LEMMA CloseSessionIInv ==
  ASSUME IInv, NEW h \in Handlers,
         CloseSession(h)
  PROVE  IInv'
<1> USE RegistryAssumption DEF IInv, PC, FirstPC, SecondPC, DrivingPC, Drives, slotVars,
      CloseSession, Return, Goto
<1>1. TypeOK'
  BY DEF TypeOK, HandlersWellFormed, SlotState, ChildHolder
<1>2. FirstHandlerWaits'
  BY DEF TypeOK, HandlersWellFormed, FirstHandlerWaits
<1>3. RemovedIsSignalled'
  BY DEF TypeOK, HandlersWellFormed, OneDriver, OpeningIsAlone, FirstHandlerWaits,
      ClosingIsDying, RemovedIsSignalled
<1>4. /\ HandlersWellFormed'
      /\ OneDriver'
      /\ DrivenIsNotOrphaned'
      /\ HeldIsAllocated'
      /\ OpeningIsAlone'
      /\ Watched'
      /\ DrivenOrOrphaned'
      /\ ClosingIsDying'
  BY DEF TypeOK, HandlersWellFormed, OneDriver, DrivenIsNotOrphaned, HeldIsAllocated,
      OpeningIsAlone, Watched, DrivenOrOrphaned, ClosingIsDying
<1> QED BY <1>1, <1>2, <1>3, <1>4 DEF IInv

(* The pump ends without touching the slot.                                *)
LEMMA TransportLostIInv ==
  ASSUME IInv, NEW h \in Handlers,
         TransportLost(h)
  PROVE  IInv'
<1> USE RegistryAssumption DEF IInv, PC, FirstPC, SecondPC, DrivingPC, Drives, slotVars,
      TransportLost, Goto
<1>1. /\ TypeOK'
      /\ HandlersWellFormed'
      /\ OneDriver'
      /\ DrivenIsNotOrphaned'
      /\ HeldIsAllocated'
      /\ OpeningIsAlone'
      /\ FirstHandlerWaits'
      /\ Watched'
      /\ DrivenOrOrphaned'
      /\ ClosingIsDying'
      /\ RemovedIsSignalled'
  BY DEF TypeOK, HandlersWellFormed, OneDriver, DrivenIsNotOrphaned, HeldIsAllocated,
      OpeningIsAlone, FirstHandlerWaits, Watched, DrivenOrOrphaned, ClosingIsDying,
      RemovedIsSignalled
<1> QED BY <1>1 DEF IInv

(* The only driver of the slot gives it up.                                *)
LEMMA MarkOrphanedIInv ==
  ASSUME IInv, NEW h \in Handlers,
         MarkOrphaned(h)
  PROVE  IInv'
<1> USE RegistryAssumption DEF IInv, PC, FirstPC, SecondPC, DrivingPC, Drives, slotVars,
      MarkOrphaned, Goto, Thaw
<1>1. TypeOK'
  BY DEF TypeOK, HandlersWellFormed, SlotState
<1>2. DrivenIsNotOrphaned'
  BY DEF TypeOK, HandlersWellFormed, OneDriver, DrivenIsNotOrphaned
<1>3. /\ HandlersWellFormed'
      /\ OneDriver'
      /\ HeldIsAllocated'
      /\ OpeningIsAlone'
      /\ FirstHandlerWaits'
      /\ Watched'
      /\ DrivenOrOrphaned'
      /\ ClosingIsDying'
      /\ RemovedIsSignalled'
  BY DEF TypeOK, HandlersWellFormed, OneDriver, HeldIsAllocated, OpeningIsAlone,
      FirstHandlerWaits, Watched, DrivenOrOrphaned, ClosingIsDying, RemovedIsSignalled
<1> QED BY <1>1, <1>2, <1>3 DEF IInv

(* The victim is an orphan, so nobody drives it, and is about to be signalled. *)
LEMMA EvictOldestIInv ==
  ASSUME IInv, NEW h \in Handlers,
         EvictOldest(h)
  PROVE  IInv'
<1> USE RegistryAssumption DEF IInv, PC, FirstPC, SecondPC, DrivingPC, Drives, slotVars,
      EvictOldest, Goto, Evictable, Orphans
<1>1. OpeningIsAlone'
  BY DEF TypeOK, HandlersWellFormed, OneDriver, DrivenIsNotOrphaned, HeldIsAllocated,
      OpeningIsAlone
<1>2. RemovedIsSignalled'
  BY DEF TypeOK, HandlersWellFormed, RemovedIsSignalled
<1>3. /\ TypeOK'
      /\ HandlersWellFormed'
      /\ OneDriver'
      /\ DrivenIsNotOrphaned'
      /\ HeldIsAllocated'
      /\ FirstHandlerWaits'
      /\ Watched'
      /\ DrivenOrOrphaned'
      /\ ClosingIsDying'
  BY DEF TypeOK, HandlersWellFormed, OneDriver, DrivenIsNotOrphaned, HeldIsAllocated,
      FirstHandlerWaits, Watched, DrivenOrOrphaned, ClosingIsDying
<1> QED BY <1>1, <1>2, <1>3 DEF IInv

(* orphan() returns: the child moves to the exit watcher.                  *)
LEMMA WithinCapIInv ==
  ASSUME IInv, NEW h \in Handlers,
         WithinCap(h)
  PROVE  IInv'
<1> USE RegistryAssumption DEF IInv, PC, FirstPC, SecondPC, DrivingPC, Drives, slotVars,
      WithinCap, OrphanReturns, Return, Goto
<1>1. TypeOK'
  BY DEF TypeOK, HandlersWellFormed, SlotState, ChildHolder
<1>2. RemovedIsSignalled'
  BY DEF TypeOK, HandlersWellFormed, OneDriver, OpeningIsAlone, FirstHandlerWaits,
      RemovedIsSignalled
<1>3. /\ HandlersWellFormed'
      /\ OneDriver'
      /\ DrivenIsNotOrphaned'
      /\ HeldIsAllocated'
      /\ OpeningIsAlone'
      /\ FirstHandlerWaits'
      /\ Watched'
      /\ DrivenOrOrphaned'
      /\ ClosingIsDying'
  BY DEF TypeOK, HandlersWellFormed, OneDriver, DrivenIsNotOrphaned, HeldIsAllocated,
      OpeningIsAlone, FirstHandlerWaits, Watched, DrivenOrOrphaned, ClosingIsDying
<1> QED BY <1>1, <1>2, <1>3 DEF IInv

(* The victim is signalled and orphan() returns.                           *)
LEMMA SighupVictimIInv ==
  ASSUME IInv, NEW h \in Handlers,
         SighupVictim(h)
  PROVE  IInv'
<1> USE RegistryAssumption DEF IInv, PC, FirstPC, SecondPC, DrivingPC, Drives, slotVars,
      SighupVictim, OrphanReturns, Return, Goto
<1>1. TypeOK'
  BY DEF TypeOK, HandlersWellFormed, SlotState, ChildHolder
<1>2. RemovedIsSignalled'
  BY DEF TypeOK, HandlersWellFormed, OneDriver, OpeningIsAlone, FirstHandlerWaits,
      RemovedIsSignalled
<1>3. /\ HandlersWellFormed'
      /\ OneDriver'
      /\ DrivenIsNotOrphaned'
      /\ HeldIsAllocated'
      /\ OpeningIsAlone'
      /\ FirstHandlerWaits'
      /\ Watched'
      /\ DrivenOrOrphaned'
      /\ ClosingIsDying'
  BY DEF TypeOK, HandlersWellFormed, OneDriver, DrivenIsNotOrphaned, HeldIsAllocated,
      OpeningIsAlone, FirstHandlerWaits, Watched, DrivenOrOrphaned, ClosingIsDying
<1> QED BY <1>1, <1>2, <1>3 DEF IInv

(* A free slot is held by nobody.                                          *)
LEMMA OpenSessionIInv ==
  ASSUME IInv, NEW h \in Handlers, NEW i \in Identities, NEW s \in Slots,
         OpenSession(h, i, s)
  PROVE  IInv'
<1> USE RegistryAssumption DEF IInv, PC, FirstPC, SecondPC, DrivingPC, Drives, slotVars,
      OpenSession, Goto
<1>1. TypeOK'
  BY DEF TypeOK, HandlersWellFormed, SlotState, ChildHolder
<1>2. OneDriver'
  BY DEF TypeOK, HandlersWellFormed, OneDriver, DrivenIsNotOrphaned
<1>3. OpeningIsAlone'
  BY DEF TypeOK, HandlersWellFormed, OneDriver, HeldIsAllocated, OpeningIsAlone
<1>4. FirstHandlerWaits'
  BY DEF TypeOK, HandlersWellFormed, HeldIsAllocated, FirstHandlerWaits
<1>5. ClosingIsDying'
  BY DEF TypeOK, HandlersWellFormed, OneDriver, DrivenIsNotOrphaned, ClosingIsDying
<1>6. /\ HandlersWellFormed'
      /\ DrivenIsNotOrphaned'
      /\ HeldIsAllocated'
      /\ Watched'
      /\ DrivenOrOrphaned'
      /\ RemovedIsSignalled'
  BY DEF TypeOK, HandlersWellFormed, DrivenIsNotOrphaned, HeldIsAllocated, Watched,
      DrivenOrOrphaned, RemovedIsSignalled
<1> QED BY <1>1, <1>2, <1>3, <1>4, <1>5, <1>6 DEF IInv

(* An Orphaned slot has no driver, so the new one is alone.                *)
LEMMA ReattachSlotIInv ==
  ASSUME IInv, NEW h \in Handlers, NEW i \in Identities, NEW s \in Slots,
         ReattachSlot(h, i, s)
  PROVE  IInv'
<1> USE RegistryAssumption DEF IInv, PC, FirstPC, SecondPC, DrivingPC, Drives, slotVars,
      ReattachSlot, Goto, Thaw
<1>1. TypeOK'
  BY DEF TypeOK, HandlersWellFormed, SlotState
<1>2. OneDriver'
  BY DEF TypeOK, HandlersWellFormed, OneDriver, DrivenIsNotOrphaned
<1>3. OpeningIsAlone'
  BY DEF TypeOK, HandlersWellFormed, OneDriver, DrivenIsNotOrphaned, HeldIsAllocated,
      OpeningIsAlone
<1>4. /\ HandlersWellFormed'
      /\ DrivenIsNotOrphaned'
      /\ HeldIsAllocated'
      /\ FirstHandlerWaits'
      /\ Watched'
      /\ DrivenOrOrphaned'
      /\ ClosingIsDying'
      /\ RemovedIsSignalled'
  BY DEF TypeOK, HandlersWellFormed, DrivenIsNotOrphaned, HeldIsAllocated, FirstHandlerWaits,
      Watched, DrivenOrOrphaned, ClosingIsDying, RemovedIsSignalled
<1> QED BY <1>1, <1>2, <1>3, <1>4 DEF IInv

(* The watcher removes a slot whose shell exited.                          *)
LEMMA WatcherRemovesIInv ==
  ASSUME IInv, NEW s \in Slots,
         WatcherRemoves(s)
  PROVE  IInv'
<1> USE RegistryAssumption DEF IInv, PC, FirstPC, SecondPC, DrivingPC, Drives, slotVars,
      WatcherRemoves
<1>1. TypeOK'
  BY DEF TypeOK, HandlersWellFormed, SlotState, ChildHolder
<1>2. /\ HandlersWellFormed'
      /\ OneDriver'
      /\ DrivenIsNotOrphaned'
      /\ HeldIsAllocated'
      /\ OpeningIsAlone'
      /\ FirstHandlerWaits'
      /\ Watched'
      /\ DrivenOrOrphaned'
      /\ ClosingIsDying'
      /\ RemovedIsSignalled'
  BY DEF TypeOK, HandlersWellFormed, OneDriver, DrivenIsNotOrphaned, HeldIsAllocated,
      OpeningIsAlone, FirstHandlerWaits, Watched, DrivenOrOrphaned, ClosingIsDying,
      RemovedIsSignalled
<1> QED BY <1>1, <1>2 DEF IInv

(* The reaper signals a slot it removed.                                   *)
LEMMA ReaperSighupIInv ==
  ASSUME IInv, NEW s \in Slots,
         ReaperSighup(s)
  PROVE  IInv'
<1> USE RegistryAssumption DEF IInv, PC, FirstPC, SecondPC, DrivingPC, Drives, slotVars,
      ReaperSighup
<1>1. /\ TypeOK'
      /\ HandlersWellFormed'
      /\ OneDriver'
      /\ DrivenIsNotOrphaned'
      /\ HeldIsAllocated'
      /\ OpeningIsAlone'
      /\ FirstHandlerWaits'
      /\ Watched'
      /\ DrivenOrOrphaned'
      /\ ClosingIsDying'
      /\ RemovedIsSignalled'
  BY DEF TypeOK, HandlersWellFormed, OneDriver, DrivenIsNotOrphaned, HeldIsAllocated,
      OpeningIsAlone, FirstHandlerWaits, Watched, DrivenOrOrphaned, ClosingIsDying,
      RemovedIsSignalled
<1> QED BY <1>1 DEF IInv

(* A shell exits.                                                          *)
LEMMA ShellExitsIInv ==
  ASSUME IInv, NEW s \in Slots,
         ShellExits(s)
  PROVE  IInv'
<1> USE RegistryAssumption DEF IInv, PC, FirstPC, SecondPC, DrivingPC, Drives, slotVars,
      ShellExits
<1>1. /\ TypeOK'
      /\ HandlersWellFormed'
      /\ OneDriver'
      /\ DrivenIsNotOrphaned'
      /\ HeldIsAllocated'
      /\ OpeningIsAlone'
      /\ FirstHandlerWaits'
      /\ Watched'
      /\ DrivenOrOrphaned'
      /\ ClosingIsDying'
      /\ RemovedIsSignalled'
  BY DEF TypeOK, HandlersWellFormed, OneDriver, DrivenIsNotOrphaned, HeldIsAllocated,
      OpeningIsAlone, FirstHandlerWaits, Watched, DrivenOrOrphaned, ClosingIsDying,
      RemovedIsSignalled
<1> QED BY <1>1 DEF IInv

(* A slot with no Arc left is neither registered nor held.                 *)
LEMMA DropSlotIInv ==
  ASSUME IInv, NEW s \in Slots,
         DropSlot(s)
  PROVE  IInv'
<1> USE RegistryAssumption DEF IInv, PC, FirstPC, SecondPC, DrivingPC, Drives, slotVars,
      DropSlot, Referenced, Thaw
<1>1. TypeOK'
  BY DEF TypeOK, HandlersWellFormed, SlotState, ChildHolder
<1>2. /\ HandlersWellFormed'
      /\ OneDriver'
      /\ DrivenIsNotOrphaned'
      /\ HeldIsAllocated'
      /\ OpeningIsAlone'
      /\ FirstHandlerWaits'
      /\ Watched'
      /\ DrivenOrOrphaned'
      /\ ClosingIsDying'
      /\ RemovedIsSignalled'
  BY DEF TypeOK, HandlersWellFormed, OneDriver, DrivenIsNotOrphaned, HeldIsAllocated,
      OpeningIsAlone, FirstHandlerWaits, Watched, DrivenOrOrphaned, ClosingIsDying,
      RemovedIsSignalled
<1> QED BY <1>1, <1>2 DEF IInv

(* The reaper removes orphans, which nobody drives, and will signal them.  *)
LEMMA ReapOnceIInv ==
  ASSUME IInv, NEW Idle \in SUBSET registered,
         ReapOnce(Idle)
  PROVE  IInv'
<1> USE RegistryAssumption DEF IInv, PC, FirstPC, SecondPC, DrivingPC, Drives, slotVars,
      ReapOnce
<1>1. OpeningIsAlone'
  BY DEF TypeOK, HandlersWellFormed, OneDriver, DrivenIsNotOrphaned, HeldIsAllocated,
      OpeningIsAlone
<1>2. /\ TypeOK'
      /\ HandlersWellFormed'
      /\ OneDriver'
      /\ DrivenIsNotOrphaned'
      /\ HeldIsAllocated'
      /\ FirstHandlerWaits'
      /\ Watched'
      /\ DrivenOrOrphaned'
      /\ ClosingIsDying'
      /\ RemovedIsSignalled'
  BY DEF TypeOK, HandlersWellFormed, OneDriver, DrivenIsNotOrphaned, HeldIsAllocated,
      FirstHandlerWaits, Watched, DrivenOrOrphaned, ClosingIsDying, RemovedIsSignalled
<1> QED BY <1>1, <1>2 DEF IInv

-----------------------------------------------------------------------------
(* Every step keeps the invariant.                                         *)
LEMMA NextIInv == IInv /\ [Next]_vars => IInv'
<1> SUFFICES ASSUME IInv, [Next]_vars PROVE IInv'
  OBVIOUS
<1>1. ASSUME NEW h \in Handlers, Progress(h) PROVE IInv'
  BY <1>1, OpenedFailsIInv, OpenedSentIInv, RebindSucceedsIInv, MarkOrphanedIInv,
     ShellExitSeenIInv, CloseSessionIInv, EvictOldestIInv, WithinCapIInv,
     SighupVictimIInv DEF Progress
<1>2. ASSUME NEW h \in Handlers, ClientCloses(h) \/ TransportLost(h) PROVE IInv'
  BY <1>2, ClientClosesIInv, TransportLostIInv
<1>3. ASSUME NEW h \in Handlers, NEW i \in Identities, NEW s \in Slots,
             OpenSession(h, i, s) \/ ReattachSlot(h, i, s)
      PROVE  IInv'
  BY <1>3, OpenSessionIInv, ReattachSlotIInv
<1>4. ASSUME NEW s \in Slots,
             WatcherRemoves(s) \/ ReaperSighup(s) \/ ShellExits(s) \/ DropSlot(s)
      PROVE  IInv'
  BY <1>4, WatcherRemovesIInv, ReaperSighupIInv, ShellExitsIInv, DropSlotIInv
<1>5. ASSUME NEW Idle \in SUBSET registered, ReapOnce(Idle) PROVE IInv'
  BY <1>5, ReapOnceIInv
<1>6. CASE UNCHANGED vars
  BY <1>6 DEF IInv, vars, slotVars, TypeOK, HandlersWellFormed, OneDriver,
     DrivenIsNotOrphaned, HeldIsAllocated, OpeningIsAlone, FirstHandlerWaits, Watched,
     DrivenOrOrphaned, ClosingIsDying, RemovedIsSignalled, Drives
<1> QED BY <1>1, <1>2, <1>3, <1>4, <1>5, <1>6 DEF Next

(* Nobody holds anything when the server starts.                           *)
LEMMA InitIInv == Init => IInv
<1> SUFFICES ASSUME Init PROVE IInv
  OBVIOUS
<1> USE RegistryAssumption DEF Init
<1>1. TypeOK
  BY DEF TypeOK, SlotState, ChildHolder, PC, FirstPC, SecondPC
<1>2. /\ HandlersWellFormed
      /\ OneDriver
      /\ DrivenIsNotOrphaned
  BY DEF HandlersWellFormed, OneDriver, DrivenIsNotOrphaned, Drives, DrivingPC
<1>3. /\ HeldIsAllocated
      /\ OpeningIsAlone
      /\ FirstHandlerWaits
  BY DEF HeldIsAllocated, OpeningIsAlone, FirstHandlerWaits, FirstPC
<1>4. /\ Watched
      /\ DrivenOrOrphaned
      /\ ClosingIsDying
      /\ RemovedIsSignalled
  BY DEF Watched, DrivenOrOrphaned, ClosingIsDying, RemovedIsSignalled
<1> QED BY <1>1, <1>2, <1>3, <1>4 DEF IInv

(* The strengthened invariant holds in every reachable state.              *)
THEOREM Invariance == Spec => []IInv
BY InitIInv, NextIInv, PTL DEF Spec

(* Types are kept; in particular a handler that signals a victim has one.  *)
THEOREM TypeCorrect == Spec => []TypeOK
<1>1. IInv => TypeOK
  BY DEF IInv
<1> QED BY <1>1, Invariance, PTL

(* D-12: reattach() never hands a session to a second connection while the *)
(* first still drives it, for any number of connections and sessions.      *)
THEOREM OneDriverCorrect == Spec => []OneDriver
<1>1. IInv => OneDriver
  BY DEF IInv
<1> QED BY <1>1, Invariance, PTL

(* D-07: a session with a driver is never Orphaned, so the cap and the     *)
(* reaper cannot pick it.                                                  *)
THEOREM DrivenCorrect == Spec => []DrivenIsNotOrphaned
<1>1. IInv => DrivenIsNotOrphaned
  BY DEF IInv
<1> QED BY <1>1, Invariance, PTL

(* A registered session that no handler holds can be reattached and is     *)
(* watched for the exit of its shell.                                      *)
THEOREM RestingCorrect == Spec => []RestingIsRecoverable
<1>1. IInv => RestingIsRecoverable
  BY RegistryAssumption DEF IInv, TypeOK, Watched, DrivenOrOrphaned, RestingIsRecoverable, Drives
<1> QED BY <1>1, Invariance, PTL

(* No session that left the registry keeps a shell nobody hung up.         *)
THEOREM NoLeakCorrect == Spec => []NoLeakedShell
<1>1. IInv => NoLeakedShell
  BY DEF IInv, TypeOK, RemovedIsSignalled, NoLeakedShell
<1> QED BY <1>1, Invariance, PTL

(* D-07 as a property of steps: while a session is driven, only its driver *)
(* or the exit of its shell takes it out of the registry.                  *)
THEOREM DrivenStaysCorrect == Spec => DrivenStaysRegistered
<1>1. ASSUME IInv, [Next]_vars PROVE OnlyDriverRemoves
  <2> SUFFICES ASSUME NEW g \in Handlers, NEW s \in Slots,
                      Drives(g, s), s \in registered, s \notin registered'
               PROVE  at'[g] = NoSlot \/ shell[s] = "exited"
    BY DEF OnlyDriverRemoves
  <2>1. state[s] # "Orphaned"
    BY <1>1 DEF IInv, DrivenIsNotOrphaned
  <2>2. ASSUME NEW h \in Handlers, OpenedFails(h) \/ CloseSession(h)
        PROVE  at'[g] = NoSlot
    <3>1. at[h] = s /\ Drives(h, s)
      BY <1>1, <2>2 DEF OpenedFails, CloseSession, Drives, DrivingPC
    <3>2. g = h
      BY <1>1, <3>1 DEF IInv, OneDriver
    <3> QED BY <1>1, <2>2, <3>2 DEF OpenedFails, CloseSession, Return, IInv, TypeOK
  <2>3. ASSUME NEW h \in Handlers, EvictOldest(h) PROVE FALSE
    BY <2>1, <2>3 DEF EvictOldest, Evictable, Orphans
  <2>4. ASSUME NEW Idle \in SUBSET registered, ReapOnce(Idle) PROVE FALSE
    BY <2>1, <2>4 DEF ReapOnce
  <2>5. ASSUME NEW t \in Slots, WatcherRemoves(t) PROVE shell[s] = "exited"
    BY <2>5 DEF WatcherRemoves
  <2>6. ASSUME UNCHANGED registered PROVE FALSE
    BY <2>6
  <2>7. ASSUME NEW h \in Handlers, NEW i \in Identities, NEW t \in Slots,
               OpenSession(h, i, t)
        PROVE  FALSE
    BY <2>7 DEF OpenSession
  <2> QED
    BY <1>1, <2>2, <2>3, <2>4, <2>5, <2>6, <2>7
    DEF Next, Progress, vars, slotVars, OpenedSent, RebindSucceeds, MarkOrphaned,
        ShellExitSeen, WithinCap, SighupVictim, ClientCloses, TransportLost, ReattachSlot,
        ReaperSighup, ShellExits, DropSlot
<1> QED BY <1>1, Invariance, PTL DEF Spec, DrivenStaysRegistered
-----------------------------------------------------------------------------
(* The orphan() calls of identity i that have marked their slot and not    *)
(* yet taken the lock: each may owe the registry one eviction.             *)
Pending(i) ==
  {h \in Handlers : pc[h] \in {"orphaning1", "orphaning2"} /\ owner[at[h]] = i}

Cap == IF MaxPerIdentity = 0 THEN 1 ELSE MaxPerIdentity

(* The orphans of an identity exceed its cap by at most its pending calls. *)
(* Both sets are finite because they grow by one at a time.                *)
CapHolds(i) ==
  /\ IsFiniteSet(Orphans(i))
  /\ IsFiniteSet(Pending(i))
  /\ Cardinality(Orphans(i)) <= Cap + Cardinality(Pending(i))

CapInv == \A i \in Identities : CapHolds(i)

(* A step that marks no orphan of the identity and ends none of its        *)
(* pending calls keeps its bound.                                          *)
LEMMA CapKept ==
  ASSUME NEW i \in Identities, CapHolds(i),
         Orphans(i)' \subseteq Orphans(i), Pending(i)' = Pending(i)
  PROVE  CapHolds(i)'
<1> USE RegistryAssumption DEF Cap
<1>1. /\ IsFiniteSet(Orphans(i))
      /\ IsFiniteSet(Pending(i))
      /\ Cardinality(Orphans(i)) <= Cap + Cardinality(Pending(i))
  BY DEF CapHolds
<1>2. PICK A : A = Orphans(i)
  OBVIOUS
<1>3. PICK B : B = Orphans(i)'
  OBVIOUS
<1>4. PICK P : P = Pending(i)
  OBVIOUS
<1>5. /\ IsFiniteSet(B)
      /\ Cardinality(B) <= Cardinality(A)
  BY <1>1, <1>2, <1>3, FS_Subset
<1>6. Cardinality(A) \in Nat /\ Cardinality(B) \in Nat /\ Cardinality(P) \in Nat
  BY <1>1, <1>2, <1>4, <1>5, FS_CardinalityType
<1>7. Cardinality(B) <= Cap + Cardinality(P)
  BY <1>1, <1>2, <1>4, <1>5, <1>6
<1>8. /\ IsFiniteSet(Orphans(i)')
      /\ IsFiniteSet(Pending(i)')
      /\ Cardinality(Orphans(i)') <= Cap + Cardinality(Pending(i)')
  BY <1>1, <1>3, <1>4, <1>5, <1>7
<1> QED BY <1>8 DEF CapHolds

(* One more orphan is paid for by one more pending call.                   *)
LEMMA CapPending ==
  ASSUME NEW i \in Identities, CapHolds(i), NEW s, NEW h,
         Orphans(i)' \subseteq Orphans(i) \cup {s},
         h \notin Pending(i), Pending(i)' = Pending(i) \cup {h}
  PROVE  CapHolds(i)'
<1> USE RegistryAssumption DEF Cap
<1>1. /\ IsFiniteSet(Orphans(i))
      /\ IsFiniteSet(Pending(i))
      /\ Cardinality(Orphans(i)) <= Cap + Cardinality(Pending(i))
  BY DEF CapHolds
<1>2. PICK A : A = Orphans(i)
  OBVIOUS
<1>3. PICK B : B = Orphans(i)'
  OBVIOUS
<1>4. PICK P : P = Pending(i)
  OBVIOUS
<1>5. /\ IsFiniteSet(A \cup {s})
      /\ Cardinality(A \cup {s}) \in {Cardinality(A), Cardinality(A) + 1}
  BY <1>1, <1>2, FS_AddElement
<1>6. IsFiniteSet(B) /\ Cardinality(B) <= Cardinality(A \cup {s})
  BY <1>2, <1>3, <1>5, FS_Subset
<1>7. IsFiniteSet(P \cup {h}) /\ Cardinality(P \cup {h}) = Cardinality(P) + 1
  BY <1>1, <1>4, FS_AddElement
<1>8. Cardinality(A) \in Nat /\ Cardinality(B) \in Nat /\ Cardinality(P) \in Nat
  BY <1>1, <1>2, <1>4, <1>6, FS_CardinalityType
<1>9. Cardinality(B) <= Cap + Cardinality(P \cup {h})
  BY <1>1, <1>2, <1>4, <1>5, <1>6, <1>7, <1>8
<1>10. /\ IsFiniteSet(Orphans(i)')
       /\ IsFiniteSet(Pending(i)')
       /\ Cardinality(Orphans(i)') <= Cap + Cardinality(Pending(i)')
  BY <1>3, <1>4, <1>6, <1>7, <1>9
<1> QED BY <1>10 DEF CapHolds

(* A pending call ends by evicting an orphan.                              *)
LEMMA CapEvicts ==
  ASSUME NEW i \in Identities, CapHolds(i), NEW v \in Orphans(i), NEW h \in Pending(i),
         Orphans(i)' = Orphans(i) \ {v},
         Pending(i)' = Pending(i) \ {h}
  PROVE  CapHolds(i)'
<1> USE RegistryAssumption DEF Cap
<1>1. /\ IsFiniteSet(Orphans(i))
      /\ IsFiniteSet(Pending(i))
      /\ Cardinality(Orphans(i)) <= Cap + Cardinality(Pending(i))
  BY DEF CapHolds
<1>2. PICK A : A = Orphans(i)
  OBVIOUS
<1>3. PICK P : P = Pending(i)
  OBVIOUS
<1>4. IsFiniteSet(A \ {v}) /\ Cardinality(A \ {v}) = Cardinality(A) - 1
  BY <1>1, <1>2, FS_RemoveElement
<1>5. IsFiniteSet(P \ {h}) /\ Cardinality(P \ {h}) = Cardinality(P) - 1
  BY <1>1, <1>3, FS_RemoveElement
<1>6. Cardinality(A) \in Nat /\ Cardinality(P) \in Nat
  BY <1>1, <1>2, <1>3, FS_CardinalityType
<1>7. Cardinality(A \ {v}) <= Cap + Cardinality(P \ {h})
  BY <1>1, <1>2, <1>3, <1>4, <1>5, <1>6
<1>8. /\ IsFiniteSet(Orphans(i)')
      /\ IsFiniteSet(Pending(i)')
      /\ Cardinality(Orphans(i)') <= Cap + Cardinality(Pending(i)')
  BY <1>2, <1>3, <1>4, <1>5, <1>7
<1> QED BY <1>8 DEF CapHolds

(* A pending call ends without evicting: the cap is kept, or its own slot  *)
(* is the only orphan.                                                     *)
LEMMA CapWithin ==
  ASSUME NEW i \in Identities, CapHolds(i), NEW s, NEW h,
         Orphans(i)' = Orphans(i), Pending(i)' = Pending(i) \ {h},
         Cardinality(Orphans(i)) <= MaxPerIdentity \/ Orphans(i) \subseteq {s}
  PROVE  CapHolds(i)'
<1> USE RegistryAssumption DEF Cap
<1>1. IsFiniteSet(Orphans(i)) /\ IsFiniteSet(Pending(i))
  BY DEF CapHolds
<1>2. PICK A : A = Orphans(i)
  OBVIOUS
<1>3. PICK P : P = Pending(i)
  OBVIOUS
<1>4. IsFiniteSet(P \ {h})
  BY <1>1, <1>3, FS_RemoveElement
<1>5. Cardinality(A) \in Nat /\ Cardinality(P \ {h}) \in Nat
  BY <1>1, <1>2, <1>4, FS_CardinalityType
<1>6. Cardinality(A) <= Cap
  <2>1. CASE Cardinality(Orphans(i)) <= MaxPerIdentity
    BY <1>2, <1>5, <2>1
  <2>2. CASE Orphans(i) \subseteq {s}
    <3>1. IsFiniteSet({s}) /\ Cardinality({s}) = 1
      BY FS_Singleton
    <3>2. Cardinality(A) <= 1
      BY <1>2, <2>2, <3>1, FS_Subset
    <3> QED BY <1>5, <3>2
  <2> QED BY <2>1, <2>2
<1>7. Cardinality(A) <= Cap + Cardinality(P \ {h})
  BY <1>5, <1>6
<1>8. /\ IsFiniteSet(Orphans(i)')
      /\ IsFiniteSet(Pending(i)')
      /\ Cardinality(Orphans(i)') <= Cap + Cardinality(Pending(i)')
  BY <1>1, <1>2, <1>3, <1>4, <1>7
<1> QED BY <1>8 DEF CapHolds

(* mark_orphaned adds the slot and the call that will take the lock for it. *)
LEMMA MarkOrphanedCap ==
  ASSUME IInv, CapInv, NEW h \in Handlers, MarkOrphaned(h), NEW i \in Identities
  PROVE  CapHolds(i)'
<1>1. CapHolds(i)
  BY DEF CapInv
<1>2. h \notin Pending(i) /\ at[h] \in Slots
  BY DEF MarkOrphaned, Pending, IInv, TypeOK, HandlersWellFormed
<1>3. /\ UNCHANGED <<registered, owner, at>>
      /\ state' = [state EXCEPT ![at[h]] = "Orphaned"]
      /\ \/ pc' = [pc EXCEPT ![h] = "orphaning1"]
         \/ pc' = [pc EXCEPT ![h] = "orphaning2"]
  BY DEF MarkOrphaned, Goto
<1>4. CASE owner[at[h]] = i
  <2>1. Orphans(i)' \subseteq Orphans(i) \cup {at[h]}
    BY <1>3 DEF Orphans, IInv, TypeOK
  <2>2. Pending(i)' = Pending(i) \cup {h}
    BY <1>3, <1>4 DEF Pending, IInv, TypeOK
  <2> QED BY <1>1, <1>2, <2>1, <2>2, CapPending
<1>5. CASE owner[at[h]] # i
  <2>1. Orphans(i)' \subseteq Orphans(i)
    BY <1>3, <1>5 DEF Orphans, IInv, TypeOK
  <2>2. Pending(i)' = Pending(i)
    BY <1>2, <1>3, <1>5 DEF Pending, IInv, TypeOK
  <2> QED BY <1>1, <2>1, <2>2, CapKept
<1> QED BY <1>4, <1>5

(* The locked half of orphan() ends the call and removes one orphan.       *)
LEMMA EvictOldestCap ==
  ASSUME IInv, CapInv, NEW h \in Handlers, EvictOldest(h), NEW i \in Identities
  PROVE  CapHolds(i)'
<1>1. CapHolds(i)
  BY DEF CapInv
<1>2. /\ UNCHANGED <<state, owner, at>>
      /\ pc[h] \in {"orphaning1", "orphaning2"}
      /\ \/ pc' = [pc EXCEPT ![h] = "evicting1"]
         \/ pc' = [pc EXCEPT ![h] = "evicting2"]
  BY DEF EvictOldest, Goto
<1>3. PICK v \in Orphans(owner[at[h]]) : registered' = registered \ {v}
  BY DEF EvictOldest, Evictable
<1>4. CASE owner[at[h]] = i
  <2>1. v \in Orphans(i) /\ h \in Pending(i)
    BY <1>2, <1>3, <1>4 DEF Pending
  <2>2. Orphans(i)' = Orphans(i) \ {v}
    BY <1>2, <1>3 DEF Orphans
  <2>3. Pending(i)' = Pending(i) \ {h}
    BY <1>2 DEF Pending, IInv, TypeOK
  <2> QED BY <1>1, <2>1, <2>2, <2>3, CapEvicts
<1>5. CASE owner[at[h]] # i
  <2>1. Orphans(i)' \subseteq Orphans(i)
    BY <1>2, <1>3 DEF Orphans
  <2>2. Pending(i)' = Pending(i)
    BY <1>2, <1>5 DEF Pending, IInv, TypeOK
  <2> QED BY <1>1, <2>1, <2>2, CapKept
<1> QED BY <1>4, <1>5

(* orphan() returns: it found the cap kept, or nothing but its own slot.   *)
LEMMA WithinCapCap ==
  ASSUME IInv, CapInv, NEW h \in Handlers, WithinCap(h), NEW i \in Identities
  PROVE  CapHolds(i)'
<1>1. CapHolds(i)
  BY DEF CapInv
<1>2. /\ UNCHANGED <<registered, state, owner>>
      /\ pc[h] \in {"orphaning1", "orphaning2"}
      /\ pc' = [pc EXCEPT ![h] = "accepting"]
      /\ at' = [at EXCEPT ![h] = NoSlot]
  BY DEF WithinCap, OrphanReturns, Return, Goto
<1>3. Orphans(i)' = Orphans(i)
  BY <1>2 DEF Orphans
<1>4. CASE owner[at[h]] = i
  <2>1. Pending(i)' = Pending(i) \ {h}
    BY <1>2 DEF Pending, IInv, TypeOK
  <2>2. Cardinality(Orphans(i)) \in Nat
    BY <1>1, FS_CardinalityType DEF CapHolds
  <2>3. Cardinality(Orphans(i)) <= MaxPerIdentity \/ Orphans(i) \subseteq {at[h]}
    BY <1>4, <2>2, RegistryAssumption DEF WithinCap, OverCap, Evictable
  <2> QED BY <1>1, <1>3, <2>1, <2>3, CapWithin
<1>5. CASE owner[at[h]] # i
  <2>1. Pending(i)' = Pending(i)
    BY <1>2, <1>5 DEF Pending, IInv, TypeOK
  <2> QED BY <1>1, <1>3, <2>1, CapKept
<1> QED BY <1>4, <1>5

(* A new session takes a slot that is neither an orphan nor held by a      *)
(* pending call, so that changing its owner moves nobody's count.          *)
LEMMA OpenSessionCap ==
  ASSUME IInv, CapInv, NEW h \in Handlers, NEW j \in Identities, NEW s \in Slots,
         OpenSession(h, j, s), NEW i \in Identities
  PROVE  CapHolds(i)'
<1>1. CapHolds(i)
  BY DEF CapInv
<1>2. /\ pc[h] = "accepting"
      /\ state[s] = "Free"
      /\ registered' = registered \cup {s}
      /\ owner' = [owner EXCEPT ![s] = j]
      /\ state' = [state EXCEPT ![s] = "Active"]
      /\ at' = [at EXCEPT ![h] = s]
      /\ pc' = [pc EXCEPT ![h] = "opening"]
  BY DEF OpenSession, Goto
<1>3. Orphans(i)' \subseteq Orphans(i)
  BY <1>2 DEF Orphans, IInv, TypeOK
<1>4. Pending(i)' = Pending(i)
  <2>1. \A g \in Handlers : at[g] # s
    BY <1>2 DEF IInv, HeldIsAllocated
  <2>2. \A g \in Handlers : pc[g] \in {"orphaning1", "orphaning2"} => at[g] \in Slots
    BY DEF IInv, HandlersWellFormed, TypeOK
  <2> QED BY <1>2, <2>1, <2>2 DEF Pending, IInv, TypeOK
<1> QED BY <1>1, <1>3, <1>4, CapKept

(* Steps of a handler that is not inside orphan() and marks nothing.       *)
LEMMA OtherHandlerCap ==
  ASSUME IInv, CapInv, NEW h \in Handlers, NEW i \in Identities,
         \/ OpenedFails(h) \/ OpenedSent(h) \/ RebindSucceeds(h) \/ ShellExitSeen(h)
         \/ CloseSession(h) \/ SighupVictim(h) \/ ClientCloses(h) \/ TransportLost(h)
         \/ \E j \in Identities, s \in Slots : ReattachSlot(h, j, s)
  PROVE  CapHolds(i)'
<1>1. CapHolds(i)
  BY DEF CapInv
<1>2. /\ owner' = owner /\ registered' \subseteq registered
      /\ \A s \in Slots : state'[s] = "Orphaned" => state[s] = "Orphaned"
  BY DEF IInv, TypeOK, slotVars, OpenedFails, OpenedSent, RebindSucceeds, ShellExitSeen,
     CloseSession, SighupVictim, ClientCloses, TransportLost, ReattachSlot
<1>3. Orphans(i)' \subseteq Orphans(i)
  BY <1>2 DEF Orphans, IInv, TypeOK
<1>4. /\ pc[h] \notin {"orphaning1", "orphaning2"}
      /\ pc'[h] \notin {"orphaning1", "orphaning2"}
      /\ \A g \in Handlers \ {h} : pc'[g] = pc[g] /\ at'[g] = at[g]
  BY ZenonT(40) DEF IInv, TypeOK, slotVars, OpenedFails, OpenedSent, RebindSucceeds, ShellExitSeen,
     CloseSession, SighupVictim, ClientCloses, TransportLost, ReattachSlot, OrphanReturns,
     Return, Goto
<1>5. Pending(i)' = Pending(i)
  BY <1>2, <1>4 DEF Pending
<1> QED BY <1>1, <1>3, <1>5, CapKept

(* Steps of the reaper, a watcher, a shell or the last Arc mark no orphan  *)
(* and move no handler.                                                    *)
LEMMA OtherCap ==
  ASSUME IInv, CapInv, NEW i \in Identities,
         \/ \E s \in Slots : WatcherRemoves(s) \/ ReaperSighup(s) \/ ShellExits(s) \/ DropSlot(s)
         \/ \E Idle \in SUBSET registered : ReapOnce(Idle)
         \/ UNCHANGED vars
  PROVE  CapHolds(i)'
<1>1. CapHolds(i)
  BY DEF CapInv
<1>2. /\ owner' = owner /\ registered' \subseteq registered
      /\ \A s \in Slots : state'[s] = "Orphaned" => state[s] = "Orphaned"
      /\ pc' = pc /\ at' = at
  BY DEF IInv, TypeOK, vars, slotVars, WatcherRemoves, ReaperSighup, ShellExits, DropSlot,
     ReapOnce
<1>3. Orphans(i)' \subseteq Orphans(i)
  BY <1>2 DEF Orphans, IInv, TypeOK
<1>4. Pending(i)' = Pending(i)
  BY <1>2 DEF Pending
<1> QED BY <1>1, <1>3, <1>4, CapKept

(* Every step keeps the bound.                                             *)
LEMMA NextCap == IInv /\ CapInv /\ [Next]_vars => CapInv'
<1> SUFFICES ASSUME IInv, CapInv, [Next]_vars, NEW i \in Identities
             PROVE  CapHolds(i)'
  BY DEF CapInv
<1>1. ASSUME NEW h \in Handlers, Progress(h) PROVE CapHolds(i)'
  BY <1>1, OtherHandlerCap, MarkOrphanedCap, EvictOldestCap, WithinCapCap DEF Progress
<1>2. ASSUME NEW h \in Handlers, ClientCloses(h) \/ TransportLost(h) PROVE CapHolds(i)'
  BY <1>2, OtherHandlerCap
<1>3. ASSUME NEW h \in Handlers, NEW j \in Identities, NEW s \in Slots,
             OpenSession(h, j, s) \/ ReattachSlot(h, j, s)
      PROVE  CapHolds(i)'
  BY <1>3, OpenSessionCap, OtherHandlerCap
<1>4. CASE \/ \E s \in Slots :
                WatcherRemoves(s) \/ ReaperSighup(s) \/ ShellExits(s) \/ DropSlot(s)
           \/ \E Idle \in SUBSET registered : ReapOnce(Idle)
           \/ UNCHANGED vars
  BY <1>4, OtherCap
<1> QED BY <1>1, <1>2, <1>3, <1>4 DEF Next

(* Nobody has an orphan when the server starts.                            *)
LEMMA InitCap == Init => CapInv
<1> SUFFICES ASSUME Init, NEW i \in Identities PROVE CapHolds(i)
  BY DEF CapInv
<1>1. Orphans(i) = {} /\ Pending(i) = {}
  BY DEF Init, Orphans, Pending
<1>2. IsFiniteSet({}) /\ Cardinality({}) = 0
  BY FS_EmptySet
<1> QED BY <1>1, <1>2, RegistryAssumption DEF CapHolds, Cap

(* D-05: whatever orphan() calls, reattaches, evictions and reaps overlap, *)
(* an identity is over its cap by no more than the calls that are still    *)
(* between their mark and their lock; without any, it is within it.        *)
THEOREM OrphanCapCorrect == Spec => []OrphanCap
<1>1. CapInv => OrphanCap
  <2> SUFFICES ASSUME CapInv, NEW i \in Identities,
                      \A h \in Handlers :
                        pc[h] \in {"orphaning1", "orphaning2"} => owner[at[h]] # i
               PROVE  Cardinality(Orphans(i)) <= Cap
    BY DEF OrphanCap, Cap
  <2>1. Pending(i) = {}
    BY DEF Pending
  <2>2. Cardinality(Orphans(i)) <= Cap + 0
    BY <2>1, FS_EmptySet DEF CapInv, CapHolds
  <2>3. Cardinality(Orphans(i)) \in Nat
    BY FS_CardinalityType DEF CapInv, CapHolds
  <2> QED BY <2>2, <2>3, RegistryAssumption DEF Cap
<1> QED BY <1>1, InitCap, NextCap, Invariance, PTL DEF Spec
=============================================================================
