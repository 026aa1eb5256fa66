--------------------------- MODULE PtyPumpProofs ----------------------------
(***************************************************************************)
(* Proofs about PtyPump for every capacity of the channels and of the PTY  *)
(* and any number of attachments.                                          *)
(***************************************************************************)
EXTENDS PtyPump, TLAPS

Ended == {"stopping", "joining", "orphaned", "gone"}

(* Generations are started one at a time, and one that was started has a   *)
(* pump, a reader and a writer until each of them ends.                    *)
GensInOrder ==
  \A g \in Gens :
    IF g > gen
    THEN pump[g] = "off" /\ reader[g] = "off" /\ writer[g] = "off" /\ inq[g] = 0
    ELSE pump[g] # "off" /\ reader[g] # "off" /\ writer[g] # "off"

(* Every generation but the latest has orphaned the slot, and the latest   *)
(* one has if the session is Orphaned.                                     *)
OnlyLatestPumps ==
  \A g \in Gens : g < gen \/ (g = gen /\ slot = "Orphaned")
                    => pump[g] \in {"orphaned", "gone"}

(* A reader that outlived its join is stuck with a chunk it cannot hand    *)
(* over, until the handler returns.                                        *)
JoinedReaderQuiet ==
  \A g \in Gens : pump[g] \in {"joining", "orphaned", "gone"} =>
    \/ reader[g] = "exited"
    \/ reader[g] = "holding" /\ (pump[g] = "gone" \/ outq[g] = OutCap)

(* A writer task ends only with its channel closed and empty.              *)
ExitedIsDrained ==
  \A g \in Gens : writer[g] = "exited" => inq[g] = 0 /\ pump[g] \in Ended

IInv ==
  /\ TypeOK
  /\ GensInOrder
  /\ OnlyLatestPumps
  /\ JoinedReaderQuiet
  /\ ExitedIsDrained
  /\ WriterOwnedOnce
  /\ EarlierInputWritten
-----------------------------------------------------------------------------
(* The reader thread sees PTY data and no shutdown.                        *)
LEMMA ReaderPollsIInv ==
  ASSUME IInv, NEW g \in Gens, ReaderPolls(g)
  PROVE  IInv'
<1> USE PtyPumpAssumption DEF IInv, Gens, Ended, TypeOK, ReaderPolls
<1>1. TypeOK'
  BY DEF ptyVars
<1>2. GensInOrder'
  BY DEF GensInOrder, ptyVars
<1>3. JoinedReaderQuiet'
  BY DEF JoinedReaderQuiet, GensInOrder, OnlyLatestPumps, ptyVars
<1>4. OnlyLatestPumps' /\ ExitedIsDrained' /\ WriterOwnedOnce' /\ EarlierInputWritten'
  BY DEF OnlyLatestPumps, ExitedIsDrained, WriterOwnedOnce, EarlierInputWritten,
         Writing, ptyVars
<1> QED BY <1>1, <1>2, <1>3, <1>4

(* The reader thread takes a chunk from the PTY.                           *)
LEMMA ReaderTakesIInv ==
  ASSUME IInv, NEW g \in Gens, ReaderTakes(g)
  PROVE  IInv'
<1> USE PtyPumpAssumption DEF IInv, Gens, Ended, TypeOK, ReaderTakes
<1>1. TypeOK'
  BY SMTT(40) DEF ptyVars
<1>2. GensInOrder'
  BY DEF GensInOrder, ptyVars
<1>3. JoinedReaderQuiet'
  BY DEF JoinedReaderQuiet, GensInOrder, OnlyLatestPumps, ptyVars
<1>4. OnlyLatestPumps' /\ ExitedIsDrained' /\ WriterOwnedOnce' /\ EarlierInputWritten'
  BY DEF OnlyLatestPumps, ExitedIsDrained, WriterOwnedOnce, EarlierInputWritten,
         Writing, ptyVars
<1> QED BY <1>1, <1>2, <1>3, <1>4

(* The reader thread hands its chunk to the pump.                          *)
LEMMA ReaderSendsIInv ==
  ASSUME IInv, NEW g \in Gens, ReaderSends(g)
  PROVE  IInv'
<1> USE PtyPumpAssumption DEF IInv, Gens, Ended, TypeOK, ReaderSends
<1>1. TypeOK'
  <2>1. outq[g] + 1 \in 0 .. OutCap
    OBVIOUS
  <2>2. outq' \in [Gens -> 0 .. OutCap]
    BY <2>1
  <2> QED BY <2>2 DEF ptyVars
<1>2. GensInOrder'
  BY DEF GensInOrder, ptyVars
<1>3. JoinedReaderQuiet'
  BY SMTT(40) DEF JoinedReaderQuiet, GensInOrder, OnlyLatestPumps, ptyVars
<1>4. OnlyLatestPumps' /\ ExitedIsDrained' /\ WriterOwnedOnce' /\ EarlierInputWritten'
  BY DEF OnlyLatestPumps, ExitedIsDrained, WriterOwnedOnce, EarlierInputWritten,
         Writing, ptyVars
<1> QED BY <1>1, <1>2, <1>3, <1>4

(* The reader thread ends.                                                 *)
LEMMA ReaderExitsIInv ==
  ASSUME IInv, NEW g \in Gens, ReaderExits(g)
  PROVE  IInv'
<1> USE PtyPumpAssumption DEF IInv, Gens, Ended, TypeOK, ReaderExits
<1>1. TypeOK'
  BY DEF ptyVars
<1>2. GensInOrder'
  BY DEF GensInOrder, ptyVars
<1>3. JoinedReaderQuiet'
  BY DEF JoinedReaderQuiet, GensInOrder, OnlyLatestPumps, ptyVars
<1>4. OnlyLatestPumps' /\ ExitedIsDrained' /\ WriterOwnedOnce' /\ EarlierInputWritten'
  BY DEF OnlyLatestPumps, ExitedIsDrained, WriterOwnedOnce, EarlierInputWritten,
         Writing, ptyVars
<1> QED BY <1>1, <1>2, <1>3, <1>4

(* The writer task takes an input from its channel.                        *)
LEMMA WriterTakesIInv ==
  ASSUME IInv, NEW g \in Gens, WriterTakes(g)
  PROVE  IInv'
<1> USE PtyPumpAssumption DEF IInv, Gens, Ended, TypeOK, WriterTakes
<1>1. TypeOK'
  <2>1. inq[g] - 1 \in 0 .. InCap
    OBVIOUS
  <2>2. inq' \in [Gens -> 0 .. InCap]
    BY <2>1
  <2> QED BY <2>2 DEF ptyVars
<1>2. GensInOrder'
  BY DEF GensInOrder, ptyVars
<1>3. ExitedIsDrained'
  BY DEF ExitedIsDrained, GensInOrder, ptyVars
<1>4. WriterOwnedOnce'
  BY DEF WriterOwnedOnce, Writing, GensInOrder, ExitedIsDrained, ptyVars
<1>5. EarlierInputWritten'
  BY DEF EarlierInputWritten, GensInOrder, ExitedIsDrained, WriterOwnedOnce, Writing, ptyVars
<1>6. OnlyLatestPumps' /\ JoinedReaderQuiet'
  BY DEF OnlyLatestPumps, JoinedReaderQuiet, ptyVars
<1> QED BY <1>1, <1>2, <1>3, <1>4, <1>5, <1>6

(* The writer task writes an input to the PTY.                             *)
LEMMA WriterWritesIInv ==
  ASSUME IInv, NEW g \in Gens, WriterWrites(g)
  PROVE  IInv'
<1> USE PtyPumpAssumption DEF IInv, Gens, Ended, TypeOK, WriterWrites
<1>1. TypeOK'
  BY SMTT(40) DEF ptyVars
<1>2. GensInOrder'
  BY DEF GensInOrder, ptyVars
<1>3. ExitedIsDrained'
  BY DEF ExitedIsDrained, GensInOrder, ptyVars
<1>4. WriterOwnedOnce'
  BY DEF WriterOwnedOnce, Writing, GensInOrder, ExitedIsDrained, ptyVars
<1>5. EarlierInputWritten'
  BY DEF EarlierInputWritten, GensInOrder, ExitedIsDrained, WriterOwnedOnce, Writing, ptyVars
<1>6. OnlyLatestPumps' /\ JoinedReaderQuiet'
  BY DEF OnlyLatestPumps, JoinedReaderQuiet, ptyVars
<1> QED BY <1>1, <1>2, <1>3, <1>4, <1>5, <1>6

(* The writer task ends and gives the PTY writer back to the slot.         *)
LEMMA WriterExitsIInv ==
  ASSUME IInv, NEW g \in Gens, WriterExits(g)
  PROVE  IInv'
<1> USE PtyPumpAssumption DEF IInv, Gens, Ended, TypeOK, WriterExits
<1>1. TypeOK'
  BY DEF ptyVars
<1>2. GensInOrder'
  BY DEF GensInOrder, ptyVars
<1>3. ExitedIsDrained'
  BY DEF ExitedIsDrained, GensInOrder, ptyVars
<1>4. WriterOwnedOnce'
  BY DEF WriterOwnedOnce, Writing, GensInOrder, ExitedIsDrained, ptyVars
<1>5. EarlierInputWritten'
  BY DEF EarlierInputWritten, GensInOrder, ExitedIsDrained, WriterOwnedOnce, Writing, ptyVars
<1>6. OnlyLatestPumps' /\ JoinedReaderQuiet'
  BY DEF OnlyLatestPumps, JoinedReaderQuiet, ptyVars
<1> QED BY <1>1, <1>2, <1>3, <1>4, <1>5, <1>6

(* The pump takes a chunk of output.                                       *)
LEMMA PumpOutputIInv ==
  ASSUME IInv, NEW g \in Gens, PumpOutput(g)
  PROVE  IInv'
<1> USE PtyPumpAssumption DEF IInv, Gens, Ended, TypeOK, PumpOutput
<1>1. TypeOK'
  <2>1. outq[g] - 1 \in 0 .. OutCap
    OBVIOUS
  <2>2. outq' \in [Gens -> 0 .. OutCap]
    BY <2>1
  <2> QED BY <2>2 DEF ptyVars
<1>2. JoinedReaderQuiet'
  BY DEF JoinedReaderQuiet, GensInOrder, OnlyLatestPumps, ptyVars
<1>3. /\ GensInOrder' /\ OnlyLatestPumps' /\ ExitedIsDrained'
      /\ WriterOwnedOnce' /\ EarlierInputWritten'
  BY DEF GensInOrder, OnlyLatestPumps, ExitedIsDrained, WriterOwnedOnce,
         EarlierInputWritten, Writing, ptyVars
<1> QED BY <1>1, <1>2, <1>3

(* The pump reads an input of the client.                                  *)
LEMMA PumpInputIInv ==
  ASSUME IInv, NEW g \in Gens, PumpInput(g)
  PROVE  IInv'
<1> USE PtyPumpAssumption DEF IInv, Gens, Ended, TypeOK, PumpInput
<1>1. TypeOK'
  BY DEF ptyVars
<1>2. GensInOrder'
  BY DEF GensInOrder, ptyVars
<1>3. OnlyLatestPumps'
  BY DEF OnlyLatestPumps, GensInOrder, ptyVars
<1>4. JoinedReaderQuiet'
  BY DEF JoinedReaderQuiet, GensInOrder, OnlyLatestPumps, ptyVars
<1>5. ExitedIsDrained'
  BY DEF ExitedIsDrained, GensInOrder, ptyVars
<1>6. WriterOwnedOnce' /\ EarlierInputWritten'
  BY DEF WriterOwnedOnce, EarlierInputWritten, Writing, ptyVars
<1> QED BY <1>1, <1>2, <1>3, <1>4, <1>5, <1>6

(* The pump forwards an input to the writer task.                          *)
LEMMA PumpForwardsIInv ==
  ASSUME IInv, NEW g \in Gens, PumpForwards(g)
  PROVE  IInv'
<1> USE PtyPumpAssumption DEF IInv, Gens, Ended, TypeOK, PumpForwards
<1>1. TypeOK'
  <2>1. inq[g] + 1 \in 0 .. InCap
    OBVIOUS
  <2>2. inq' \in [Gens -> 0 .. InCap]
    BY <2>1
  <2> QED BY <2>2 DEF ptyVars
<1>2. GensInOrder'
  BY DEF GensInOrder, ptyVars
<1>3. OnlyLatestPumps'
  BY DEF OnlyLatestPumps, GensInOrder, ptyVars
<1>4. JoinedReaderQuiet'
  BY DEF JoinedReaderQuiet, GensInOrder, OnlyLatestPumps, ptyVars
<1>5. ExitedIsDrained'
  BY DEF ExitedIsDrained, GensInOrder, ptyVars
<1>6. EarlierInputWritten'
  BY DEF EarlierInputWritten, GensInOrder, ExitedIsDrained, WriterOwnedOnce, Writing, ptyVars
<1>7. WriterOwnedOnce'
  BY DEF WriterOwnedOnce, Writing, ptyVars
<1> QED BY <1>1, <1>2, <1>3, <1>4, <1>5, <1>6, <1>7

(* The connection is lost.                                                 *)
LEMMA LinkLostIInv ==
  ASSUME IInv, NEW g \in Gens, LinkLost(g)
  PROVE  IInv'
<1> USE PtyPumpAssumption DEF IInv, Gens, Ended, TypeOK, LinkLost
<1>1. TypeOK'
  BY DEF ptyVars
<1>2. /\ GensInOrder' /\ OnlyLatestPumps' /\ JoinedReaderQuiet' /\ ExitedIsDrained'
      /\ WriterOwnedOnce' /\ EarlierInputWritten'
  BY DEF GensInOrder, OnlyLatestPumps, JoinedReaderQuiet, ExitedIsDrained, WriterOwnedOnce,
         EarlierInputWritten, Writing, ptyVars
<1> QED BY <1>1, <1>2

(* The pump leaves its loop and tells the reader to stop.                  *)
LEMMA PumpStopsIInv ==
  ASSUME IInv, NEW g \in Gens, PumpStops(g)
  PROVE  IInv'
<1> USE PtyPumpAssumption DEF IInv, Gens, Ended, TypeOK, PumpStops
<1>1. TypeOK'
  BY DEF ptyVars
<1>2. GensInOrder'
  BY DEF GensInOrder, ptyVars
<1>3. OnlyLatestPumps'
  BY DEF OnlyLatestPumps, GensInOrder, ptyVars
<1>4. JoinedReaderQuiet'
  BY DEF JoinedReaderQuiet, GensInOrder, OnlyLatestPumps, ptyVars
<1>5. ExitedIsDrained'
  BY DEF ExitedIsDrained, GensInOrder, ptyVars
<1>6. WriterOwnedOnce' /\ EarlierInputWritten'
  BY DEF WriterOwnedOnce, EarlierInputWritten, Writing, ptyVars
<1> QED BY <1>1, <1>2, <1>3, <1>4, <1>5, <1>6

(* The pump stops waiting for the reader.                                  *)
LEMMA ReaderJoinedIInv ==
  ASSUME IInv, NEW g \in Gens, ReaderJoined(g)
  PROVE  IInv'
<1> USE PtyPumpAssumption DEF IInv, Gens, Ended, TypeOK, ReaderJoined, ReaderBlocked
<1>1. TypeOK'
  BY DEF ptyVars
<1>2. GensInOrder'
  BY DEF GensInOrder, ptyVars
<1>3. OnlyLatestPumps'
  BY DEF OnlyLatestPumps, GensInOrder, ptyVars
<1>4. JoinedReaderQuiet'
  BY DEF JoinedReaderQuiet, GensInOrder, OnlyLatestPumps, ptyVars
<1>5. ExitedIsDrained'
  BY DEF ExitedIsDrained, GensInOrder, ptyVars
<1>6. WriterOwnedOnce' /\ EarlierInputWritten'
  BY DEF WriterOwnedOnce, EarlierInputWritten, Writing, ptyVars
<1> QED BY <1>1, <1>2, <1>3, <1>4, <1>5, <1>6

(* The pump stops waiting for the writer and orphans the slot.             *)
LEMMA WriterJoinedIInv ==
  ASSUME IInv, NEW g \in Gens, WriterJoined(g)
  PROVE  IInv'
<1> USE PtyPumpAssumption DEF IInv, Gens, Ended, TypeOK, WriterJoined, WriterBlocked
<1>1. TypeOK'
  BY DEF ptyVars
<1>2. GensInOrder'
  BY DEF GensInOrder, ptyVars
<1>3. OnlyLatestPumps'
  <2>1. ~(g > gen)
    BY DEF GensInOrder
  <2>2. ~(g < gen)
    BY DEF OnlyLatestPumps
  <2>3. g = gen /\ gen' = gen
    BY <2>1, <2>2
  <2>4. ASSUME NEW h \in Gens, h < gen PROVE pump'[h] \in {"orphaned", "gone"}
    BY <2>3, <2>4 DEF OnlyLatestPumps
  <2>5. pump'[gen] \in {"orphaned", "gone"}
    BY <2>3
  <2> QED BY <2>3, <2>4, <2>5 DEF OnlyLatestPumps
<1>4. JoinedReaderQuiet'
  BY DEF JoinedReaderQuiet, GensInOrder, OnlyLatestPumps, ptyVars
<1>5. ExitedIsDrained'
  BY DEF ExitedIsDrained, GensInOrder, ptyVars
<1>6. WriterOwnedOnce' /\ EarlierInputWritten'
  BY DEF WriterOwnedOnce, EarlierInputWritten, Writing, ptyVars
<1> QED BY <1>1, <1>2, <1>3, <1>4, <1>5, <1>6

(* The handler returns.                                                    *)
LEMMA PumpReturnsIInv ==
  ASSUME IInv, NEW g \in Gens, PumpReturns(g)
  PROVE  IInv'
<1> USE PtyPumpAssumption DEF IInv, Gens, Ended, TypeOK, PumpReturns
<1>1. TypeOK'
  BY DEF ptyVars
<1>2. GensInOrder'
  BY DEF GensInOrder, ptyVars
<1>3. OnlyLatestPumps'
  BY DEF OnlyLatestPumps, GensInOrder, ptyVars
<1>4. JoinedReaderQuiet'
  BY DEF JoinedReaderQuiet, GensInOrder, OnlyLatestPumps, ptyVars
<1>5. ExitedIsDrained'
  BY DEF ExitedIsDrained, GensInOrder, ptyVars
<1>6. WriterOwnedOnce' /\ EarlierInputWritten'
  BY DEF WriterOwnedOnce, EarlierInputWritten, Writing, ptyVars
<1> QED BY <1>1, <1>2, <1>3, <1>4, <1>5, <1>6

(* A reattach starts the next generation with the slot's writer.           *)
LEMMA ReattachIInv ==
  ASSUME IInv, Reattach
  PROVE  IInv'
<1> USE PtyPumpAssumption DEF IInv, Gens, Ended, TypeOK, Reattach
<1>1. TypeOK'
  BY DEF ptyVars
<1>2. GensInOrder'
  BY DEF GensInOrder, ptyVars
<1>3. OnlyLatestPumps'
  BY DEF OnlyLatestPumps, GensInOrder, ptyVars
<1>4. JoinedReaderQuiet'
  BY DEF JoinedReaderQuiet, GensInOrder, OnlyLatestPumps, ptyVars
<1>5. ExitedIsDrained'
  BY DEF ExitedIsDrained, GensInOrder, ptyVars
<1>6. WriterOwnedOnce'
  BY DEF WriterOwnedOnce, Writing, GensInOrder, ExitedIsDrained, ptyVars
<1>7. EarlierInputWritten'
  BY DEF EarlierInputWritten, GensInOrder, ExitedIsDrained, WriterOwnedOnce, Writing, ptyVars
<1> QED BY <1>1, <1>2, <1>3, <1>4, <1>5, <1>6, <1>7

(* The shell reads an input.                                               *)
LEMMA ShellReadsIInv ==
  ASSUME IInv, ShellReads
  PROVE  IInv'
<1> USE PtyPumpAssumption DEF IInv, Gens, Ended, TypeOK, ShellReads
<1>1. TypeOK'
  BY DEF ptyVars
<1>2. /\ GensInOrder' /\ OnlyLatestPumps' /\ JoinedReaderQuiet' /\ ExitedIsDrained'
      /\ WriterOwnedOnce' /\ EarlierInputWritten'
  BY DEF GensInOrder, OnlyLatestPumps, JoinedReaderQuiet, ExitedIsDrained, WriterOwnedOnce,
         EarlierInputWritten, Writing, ptyVars
<1> QED BY <1>1, <1>2

(* The shell writes its answer.                                            *)
LEMMA ShellWritesIInv ==
  ASSUME IInv, ShellWrites
  PROVE  IInv'
<1> USE PtyPumpAssumption DEF IInv, Gens, Ended, TypeOK, ShellWrites
<1>1. TypeOK'
  BY SMTT(40) DEF ptyVars
<1>2. /\ GensInOrder' /\ OnlyLatestPumps' /\ JoinedReaderQuiet' /\ ExitedIsDrained'
      /\ WriterOwnedOnce' /\ EarlierInputWritten'
  BY DEF GensInOrder, OnlyLatestPumps, JoinedReaderQuiet, ExitedIsDrained, WriterOwnedOnce,
         EarlierInputWritten, Writing, ptyVars
<1> QED BY <1>1, <1>2

(* The first generation is running and owns the writer.                    *)
LEMMA InitIInv == Init => IInv
<1> USE PtyPumpAssumption DEF Init, Gens, Ended
<1> SUFFICES ASSUME Init PROVE IInv
  OBVIOUS
<1>1. TypeOK
  <2>1. 1 \in Gens /\ link \subseteq Gens /\ told \subseteq Gens
    OBVIOUS
  <2>2. pump \in [Gens -> {"off", "running", "sending", "stopping", "joining",
                          "orphaned", "gone"}]
    OBVIOUS
  <2>3. /\ reader \in [Gens -> {"off", "polling", "reading", "holding", "exited"}]
        /\ writer \in [Gens -> {"off", "receiving", "writing", "exited"}]
    OBVIOUS
  <2>4. inq \in [Gens -> 0 .. InCap] /\ outq \in [Gens -> 0 .. OutCap]
    OBVIOUS
  <2>5. /\ slot \in {"Active", "Orphaned"} /\ gen \in Gens
        /\ shell \in {"reading", "writing"}
        /\ ptyIn \in 0 .. PtyIn /\ ptyOut \in 0 .. PtyOut
    OBVIOUS
  <2>6. slotWriter \in BOOLEAN
    OBVIOUS
  <2> HIDE DEF Init
  <2> QED BY <2>1, <2>2, <2>3, <2>4, <2>5, <2>6 DEF TypeOK
<1>2. GensInOrder
  BY DEF GensInOrder
<1>3. OnlyLatestPumps /\ JoinedReaderQuiet /\ ExitedIsDrained /\ EarlierInputWritten
  BY DEF OnlyLatestPumps, JoinedReaderQuiet, ExitedIsDrained, EarlierInputWritten
<1>4. WriterOwnedOnce
  <2>1. Writing(1) /\ 1 \in Gens
    BY DEF Writing
  <2>2. \A g \in Gens : Writing(g) => g = 1
    BY DEF Writing
  <2> QED BY <2>1, <2>2 DEF WriterOwnedOnce
<1> QED BY <1>1, <1>2, <1>3, <1>4 DEF IInv

(* Every step keeps the invariant.                                         *)
LEMMA NextIInv == IInv /\ [Next]_vars => IInv'
<1> SUFFICES ASSUME IInv, [Next]_vars PROVE IInv'
  OBVIOUS
<1>1. ASSUME NEW g \in Gens, ReaderStep(g) PROVE IInv'
  BY <1>1, ReaderPollsIInv, ReaderTakesIInv, ReaderSendsIInv, ReaderExitsIInv DEF ReaderStep
<1>2. ASSUME NEW g \in Gens, WriterStep(g) PROVE IInv'
  BY <1>2, WriterTakesIInv, WriterWritesIInv, WriterExitsIInv DEF WriterStep
<1>3. ASSUME NEW g \in Gens, Teardown(g) PROVE IInv'
  BY <1>3, PumpStopsIInv, ReaderJoinedIInv, WriterJoinedIInv, PumpReturnsIInv DEF Teardown
<1>4. ASSUME NEW g \in Gens,
             PumpOutput(g) \/ PumpInput(g) \/ PumpForwards(g) \/ LinkLost(g)
      PROVE  IInv'
  BY <1>4, PumpOutputIInv, PumpInputIInv, PumpForwardsIInv, LinkLostIInv
<1>5. CASE Reattach
  BY <1>5, ReattachIInv
<1>6. CASE ShellStep
  BY <1>6, ShellReadsIInv, ShellWritesIInv DEF ShellStep
<1>7. CASE UNCHANGED vars
  BY <1>7 DEF vars, ptyVars, IInv, TypeOK, GensInOrder, OnlyLatestPumps, JoinedReaderQuiet,
              ExitedIsDrained, WriterOwnedOnce, Writing, EarlierInputWritten
<1> QED BY <1>1, <1>2, <1>3, <1>4, <1>5, <1>6, <1>7 DEF Next

(* IInv holds in every reachable state.                                    *)
THEOREM Invariance == Spec => []IInv
<1>1. Init => IInv
  BY InitIInv
<1>2. IInv /\ [Next]_vars => IInv'
  BY NextIInv
<1> QED BY <1>1, <1>2, PTL DEF Spec

(* The state keeps its types; neither channel nor PTY buffer overflows.    *)
THEOREM TypeCorrect == Spec => []TypeOK
<1>1. IInv => TypeOK
  BY DEF IInv
<1> QED BY <1>1, Invariance, PTL

(* W2: the PTY writer always has exactly one owner, whatever timed out.    *)
THEOREM WriterCorrect == Spec => []WriterOwnedOnce
<1>1. IInv => WriterOwnedOnce
  BY DEF IInv
<1> QED BY <1>1, Invariance, PTL

(* D-03: two generations never take from the PTY, even if the join of the  *)
(* earlier reader timed out.                                               *)
THEOREM ReaderCorrect == Spec => []OneReader
<1>1. IInv => OneReader
  <2> SUFFICES ASSUME IInv, NEW g \in Gens, Taking(g) PROVE g = gen
    BY DEF OneReader
  <2>1. ~(g > gen)
    BY DEF IInv, GensInOrder, Taking
  <2>2. ~(g < gen)
    BY DEF IInv, OnlyLatestPumps, JoinedReaderQuiet, Taking
  <2> QED BY <2>1, <2>2, PtyPumpAssumption DEF IInv, TypeOK, Gens
<1> QED BY <1>1, Invariance, PTL

(* All input of earlier connections is in the PTY once a later one pumps.  *)
THEOREM InputCorrect == Spec => []EarlierInputWritten
<1>1. IInv => EarlierInputWritten
  BY DEF IInv
<1> QED BY <1>1, Invariance, PTL
=============================================================================
