-------------------------- MODULE StateSyncProofs ---------------------------
(***************************************************************************)
(* Proofs about StateSync, for every terminal, every cap and any number of *)
(* lost and reordered datagrams.  The invariant has four parts, each       *)
(* resting on those before it: epochs, types, the snapshot store and the   *)
(* screen.                                                                 *)
(***************************************************************************)
EXTENDS StateSync, FiniteSetTheorems, TLAPS

\* Epochs are numbers, and none anywhere is newer than the server's.
EpochsBounded ==
  /\ current_epoch \in Nat
  /\ last_acked_epoch \in Nat /\ last_acked_epoch <= current_epoch
  /\ last_applied_epoch \in Nat /\ last_applied_epoch <= current_epoch
  /\ epoch_at_snapshot \in Nat /\ epoch_at_snapshot <= current_epoch
  /\ \A d \in toClient : d.epoch \in Nat /\ d.epoch <= current_epoch
  /\ \A e \in toServer : e \in Nat /\ e <= current_epoch
  /\ pages \in Seq(Nat)
  /\ \A i \in DOMAIN pages : pages[i] <= current_epoch

\* The newest epoch is acknowledged only after it was applied.
NewestAckedIsApplied ==
  current_epoch \in toServer \cup {last_acked_epoch} => last_applied_epoch = current_epoch

EpochInv == EpochsBounded /\ NewestAckedIsApplied

(* At the start all epochs are 0 and nothing is under way.                 *)
LEMMA InitEpochs == Init => EpochInv
  BY DEF Init, EpochInv, EpochsBounded, NewestAckedIsApplied

(* A tick keeps its epoch or takes the next one, which nobody has          *)
(* acknowledged, and its datagrams carry it (build_state_diff).            *)
LEMMA TickEpochs ==
  ASSUME EpochInv, BuildDiff,
         \A d \in toClient' \ toClient : d.epoch = current_epoch'
  PROVE  EpochInv'
<1>1. current_epoch' \in {current_epoch, current_epoch + 1}
  BY DEF BuildDiff, NextEpoch
<1>2. /\ UNCHANGED <<last_acked_epoch, last_applied_epoch, epoch_at_snapshot>>
      /\ UNCHANGED <<toServer, pages>>
  BY DEF BuildDiff, screenVars, scrollVars
<1>3. EpochsBounded'
  <2>1. \A d \in toClient' : d.epoch \in Nat /\ d.epoch <= current_epoch'
    BY <1>1 DEF EpochInv, EpochsBounded
  <2> QED
    BY <1>1, <1>2, <2>1 DEF EpochInv, EpochsBounded
<1>4. NewestAckedIsApplied'
  <2>1. CASE current_epoch' = current_epoch
    BY <1>2, <2>1 DEF EpochInv, NewestAckedIsApplied
  <2>2. CASE current_epoch' = current_epoch + 1
    BY <1>2, <2>2 DEF EpochInv, EpochsBounded, NewestAckedIsApplied
  <2> QED
    BY <1>1, <2>1, <2>2
<1> QED
  BY <1>3, <1>4 DEF EpochInv

(* A datagram leaves the network: lost, discarded by the epoch gate,       *)
(* acknowledged from scrollback mode, which happens only to epochs older   *)
(* than a page and hence than the newest, or applied.                      *)
LEMMA DatagramEpochs ==
  ASSUME EpochInv, NEW d \in toClient,
         LoseDiff(d) \/ DiscardStale(d) \/ SuppressDiff(d) \/ ApplyDiff(d)
  PROVE  EpochInv'
<1>1. CASE LoseDiff(d) \/ DiscardStale(d)
  BY <1>1 DEF LoseDiff, DiscardStale, syncVars, screenVars, scrollVars,
              EpochInv, EpochsBounded, NewestAckedIsApplied
<1>2. CASE SuppressDiff(d)
  <2>1. d.epoch < current_epoch
    BY <1>2 DEF SuppressDiff, Suppressed, EpochInv, EpochsBounded
  <2> QED
    BY <1>2, <2>1 DEF SuppressDiff, syncVars, screenVars, scrollVars,
                      EpochInv, EpochsBounded, NewestAckedIsApplied
<1>3. CASE ApplyDiff(d)
  <2>1. /\ d.epoch \in Nat /\ d.epoch <= current_epoch /\ d.epoch > last_applied_epoch
        /\ last_applied_epoch' = d.epoch
        /\ epoch_at_snapshot' = 0
        /\ toServer' = toServer \cup {d.epoch}
        /\ toClient' = toClient \ {d}
        /\ UNCHANGED <<current_epoch, last_acked_epoch, pages>>
    BY <1>3 DEF ApplyDiff, Fresh, syncVars, EpochInv, EpochsBounded
  <2>2. EpochsBounded'
    BY <2>1 DEF EpochInv, EpochsBounded
  <2>3. NewestAckedIsApplied'
    BY <2>1 DEF EpochInv, EpochsBounded, NewestAckedIsApplied
  <2> QED
    BY <2>2, <2>3 DEF EpochInv
<1> QED
  BY <1>1, <1>2, <1>3

(* An acknowledgement moves from the network to last_acked_epoch, or is    *)
(* ignored because a newer one was there before.                           *)
LEMMA AckEpochs ==
  ASSUME EpochInv, NEW e \in toServer, RecvAck(e)
  PROVE  EpochInv'
<1>1. /\ last_acked_epoch' \in {last_acked_epoch, e}
      /\ toServer' = toServer \ {e}
      /\ UNCHANGED <<current_epoch, last_applied_epoch, epoch_at_snapshot, toClient, pages>>
  BY DEF RecvAck, screenVars, scrollVars
<1> QED
  BY <1>1 DEF EpochInv, EpochsBounded, NewestAckedIsApplied

(* Pages carry the epoch of the moment they were read (channel.rs), and    *)
(* the view takes over theirs or the epoch applied last.                   *)
LEMMA ScrollEpochs ==
  ASSUME EpochInv, ServePage \/ EnterScrollback \/ Prefetch \/ RecvPage \/ SnapBack
  PROVE  EpochInv'
<1> USE DEF syncVars, screenVars
<1>1. UNCHANGED <<current_epoch, last_acked_epoch, last_applied_epoch, toClient, toServer>>
  BY DEF ServePage, EnterScrollback, Prefetch, RecvPage, SnapBack
<1>2. CASE ServePage
  <2>1. pages' = Append(pages, current_epoch) /\ UNCHANGED epoch_at_snapshot
    BY <1>2 DEF ServePage
  <2>2. pages' \in Seq(Nat) /\ \A i \in DOMAIN pages' : pages'[i] <= current_epoch
    BY <2>1 DEF EpochInv, EpochsBounded
  <2> QED
    BY <1>1, <2>1, <2>2 DEF EpochInv, EpochsBounded, NewestAckedIsApplied
<1>3. CASE EnterScrollback \/ Prefetch \/ SnapBack
  BY <1>1, <1>3 DEF EnterScrollback, Prefetch, SnapBack,
                    EpochInv, EpochsBounded, NewestAckedIsApplied
<1>4. CASE RecvPage
  <2>1. /\ pages # << >> /\ pages' = Tail(pages)
        /\ epoch_at_snapshot' \in {epoch_at_snapshot, Head(pages)}
    BY <1>4 DEF RecvPage
  <2>2. /\ Head(pages) \in Nat /\ Head(pages) <= current_epoch
        /\ pages' \in Seq(Nat)
        /\ \A i \in DOMAIN pages' : pages'[i] <= current_epoch
    BY <2>1 DEF EpochInv, EpochsBounded
  <2> QED
    BY <1>1, <2>1, <2>2 DEF EpochInv, EpochsBounded, NewestAckedIsApplied
<1> QED
  BY <1>2, <1>3, <1>4

(* All datagrams of a burst carry the tick's epoch (send_burst).           *)
LEMMA BurstEpoch ==
  ASSUME NEW e, NEW runs, NEW packing, NEW visible,
         NEW d \in Datagrams(e, runs, packing, visible)
  PROVE  d.epoch = e
<1>1. PICK k : d = StateDiff(e, RunsOf(runs, {i \in visible : packing[i] = k}))
  BY Zenon DEF Datagrams
<1> DEFINE r == RunsOf(runs, {i \in visible : packing[i] = k})
<1>2. d = [epoch |-> e, runs |-> r]
  BY <1>1 DEF StateDiff
<1> HIDE DEF r
<1> QED
  BY <1>2

(* Every step keeps the invariant.                                         *)
LEMMA NextEpochs == EpochInv /\ [Next]_vars => EpochInv'
<1> SUFFICES ASSUME EpochInv, [Next]_vars
             PROVE  EpochInv'
  OBVIOUS
<1>1. CASE GridChanges \/ TickSkips \/ UNCHANGED vars
  BY <1>1 DEF GridChanges, TickSkips, vars, syncVars, screenVars, scrollVars,
              EpochInv, EpochsBounded, NewestAckedIsApplied
<1>2. CASE TickSends
  <2>1. PICK runs \in {TickRuns} : \E packing \in Encodings(runs) :
          \E visible \in Visible(runs, packing) :
            toClient' = toClient \cup Datagrams(NextEpoch, runs, packing, visible)
    BY <1>2 DEF TickSends
  <2>2. PICK packing, visible :
          toClient' = toClient \cup Datagrams(NextEpoch, runs, packing, visible)
    BY <2>1
  <2>3. \A d \in Datagrams(NextEpoch, runs, packing, visible) : d.epoch = NextEpoch
    BY BurstEpoch
  <2>4. BuildDiff /\ current_epoch' = NextEpoch
    BY <1>2 DEF TickSends, BuildDiff
  <2> QED
    BY <2>2, <2>3, <2>4, TickEpochs
<1>3. CASE TickTooLarge
  <2>1. BuildDiff /\ toClient' = toClient
    BY <1>3 DEF TickTooLarge
  <2> QED
    BY <2>1, TickEpochs
<1>4. CASE \E e \in toServer : RecvAck(e)
  BY <1>4, AckEpochs
<1>5. CASE ServePage \/ EnterScrollback \/ Prefetch \/ RecvPage \/ SnapBack
  BY <1>5, ScrollEpochs
<1>6. CASE DatagramEnds
  BY <1>6, DatagramEpochs DEF DatagramEnds
<1> QED
  BY <1>1, <1>2, <1>3, <1>4, <1>5, <1>6 DEF Next

(* The server's ticks fall silent only when the client has applied a       *)
(* datagram of the newest epoch, for every value of the constants.         *)
THEOREM SettledIsCurrentAlways == Spec => []SettledIsCurrent
<1>1. EpochInv => SettledIsCurrent
  BY DEF EpochInv, EpochsBounded, NewestAckedIsApplied, SettledIsCurrent, Settled
<1> QED
  BY <1>1, InitEpochs, NextEpochs, PTL DEF Spec
-----------------------------------------------------------------------------
(* The operators a tick is made of.                                        *)

(* Where Keep puts position i of ps: one for each of ps up to i.           *)
Rank(ps, i) == Cardinality({j \in ps : j <= i})

(* Ranks number a finite set of positions from 1, in order.                *)
LEMMA Ranks ==
  ASSUME NEW n \in Nat, NEW ps \in SUBSET (1 .. n)
  PROVE  /\ IsFiniteSet(ps) /\ Cardinality(ps) \in Nat /\ Cardinality(ps) <= n
         /\ \A i \in ps : Rank(ps, i) \in 1 .. Cardinality(ps)
         /\ \A i, j \in ps : i < j => Rank(ps, i) < Rank(ps, j)
         /\ \A k \in 1 .. Cardinality(ps) : \E i \in ps : Rank(ps, i) = k
<1> DEFINE Upto(i) == {j \in ps : j <= i}
<1>1. IsFiniteSet(1 .. n) /\ Cardinality(1 .. n) = n
  BY FS_Interval
<1>2. IsFiniteSet(ps) /\ Cardinality(ps) <= n
  BY <1>1, FS_Subset
<1>3. Cardinality(ps) \in Nat
  BY <1>2, FS_CardinalityType
<1>4. \A i \in ps : IsFiniteSet(Upto(i)) /\ Cardinality(Upto(i)) <= Cardinality(ps)
  <2> TAKE i \in ps
  <2>1. Upto(i) \in SUBSET ps
    OBVIOUS
  <2> HIDE DEF Upto
  <2> QED BY <1>2, <2>1, FS_Subset
<1>5. \A i \in ps : Cardinality(Upto(i)) \in Nat \ {0}
  <2> TAKE i \in ps
  <2>1. Upto(i) # {}
    OBVIOUS
  <2> HIDE DEF Upto
  <2> QED BY <1>4, <2>1, FS_CardinalityType, FS_EmptySet
<1>6. \A i \in ps : Rank(ps, i) \in 1 .. Cardinality(ps)
  BY <1>3, <1>4, <1>5 DEF Rank
<1>7. \A i, j \in ps : i < j => Rank(ps, i) < Rank(ps, j)
  <2> SUFFICES ASSUME NEW i \in ps, NEW j \in ps, i < j
               PROVE  Cardinality(Upto(i)) < Cardinality(Upto(j))
    BY DEF Rank
  <2>0. i \in Nat /\ j \in Nat /\ \A k \in ps : k \in Nat
    OBVIOUS
  <2>1. Upto(i) \in SUBSET Upto(j) /\ j \in Upto(j) /\ j \notin Upto(i)
    <3>1. \A k \in Upto(i) : k \in Upto(j)
      BY <2>0
    <3>2. j \in Upto(j)
      BY <2>0
    <3>3. j \notin Upto(i)
      BY <2>0
    <3> QED BY <3>1, <3>2, <3>3
  <2>2. Cardinality(Upto(i)) \in Nat /\ Cardinality(Upto(j)) \in Nat
    BY <1>5
  <2> HIDE DEF Upto
  <2>3. /\ Cardinality(Upto(i)) <= Cardinality(Upto(j))
        /\ Cardinality(Upto(j)) = Cardinality(Upto(i)) => Upto(j) = Upto(i)
    BY <1>4, <2>1, FS_Subset
  <2> QED BY <2>1, <2>2, <2>3
<1>8. \A k \in 1 .. Cardinality(ps) : \E i \in ps : Rank(ps, i) = k
  <2> DEFINE m == Cardinality(ps)
             f == [i \in ps |-> Rank(ps, i)]
  <2>1. IsFiniteSet(1 .. m) /\ Cardinality(1 .. m) = m
    BY <1>3, FS_Interval
  <2>2. f \in Injection(ps, 1 .. m)
    <3>1. f \in [ps -> 1 .. m]
      BY <1>6
    <3>2. \A i, j \in ps : f[i] = f[j] => i = j
      BY <1>6, <1>7
    <3> QED BY <3>1, <3>2 DEF Injection, IsInjective
  <2>3. f \in Surjection(ps, 1 .. m)
    <3> HIDE DEF f
    <3> QED BY <2>1, <2>2, FS_Injection
  <2> QED BY <2>3 DEF Surjection
<1> QED BY <1>2, <1>3, <1>6, <1>7, <1>8

(* Keep(s, ps) is the subsequence of s at ps: nothing else, nothing less,  *)
(* and in order.                                                           *)
LEMMA KeepIs ==
  ASSUME NEW S, NEW s \in Seq(S), NEW ps \in SUBSET DOMAIN s
  PROVE  /\ Keep(s, ps) \in Seq(S)
         /\ Len(Keep(s, ps)) = Cardinality(ps)
         /\ Len(Keep(s, ps)) <= Len(s)
         /\ \E at \in [DOMAIN Keep(s, ps) -> ps] :
              /\ \A k \in DOMAIN Keep(s, ps) : Keep(s, ps)[k] = s[at[k]]
              /\ \A k, l \in DOMAIN Keep(s, ps) : k < l => at[k] < at[l]
              /\ \A i \in ps : \E k \in DOMAIN Keep(s, ps) : at[k] = i
<1> DEFINE n == Len(s)
           m == Cardinality(ps)
           at == [k \in 1 .. m |-> CHOOSE i \in ps : Rank(ps, i) = k]
<1>1. n \in Nat /\ ps \in SUBSET (1 .. n)
  OBVIOUS
<1>2. /\ m \in Nat /\ m <= n
      /\ \A i \in ps : Rank(ps, i) \in 1 .. m
      /\ \A i, j \in ps : i < j => Rank(ps, i) < Rank(ps, j)
      /\ \A k \in 1 .. m : \E i \in ps : Rank(ps, i) = k
  BY <1>1, Ranks
<1>3. Keep(s, ps) = [k \in 1 .. m |-> s[CHOOSE i \in ps : Rank(ps, i) = k]]
  BY DEF Keep, Rank
<1> HIDE DEF n, m
<1>4. \A k \in 1 .. m : at[k] \in ps /\ Rank(ps, at[k]) = k
  BY <1>2
<1>5. \A i \in ps : at[Rank(ps, i)] = i
  <2> TAKE i \in ps
  <2>1. at[Rank(ps, i)] \in ps /\ Rank(ps, at[Rank(ps, i)]) = Rank(ps, i)
    BY <1>2, <1>4
  <2> HIDE DEF at
  <2>2. PICK x : x = at[Rank(ps, i)]
    OBVIOUS
  <2>3. x \in Nat /\ i \in Nat /\ x \in ps /\ Rank(ps, x) = Rank(ps, i) /\ Rank(ps, i) \in Nat
    BY <1>1, <1>2, <2>1, <2>2, SMTT(40)
  <2>4. ~(x < i) /\ ~(i < x)
    BY <1>2, <2>3
  <2> QED BY <2>2, <2>3, <2>4
<1>6. Keep(s, ps) = [k \in 1 .. m |-> s[at[k]]]
  BY <1>3
<1>7. at \in [1 .. m -> ps]
  BY <1>4
<1> HIDE DEF at
<1>8. DOMAIN Keep(s, ps) = 1 .. m /\ \A k \in 1 .. m : Keep(s, ps)[k] = s[at[k]]
  BY <1>6
<1>9. \A k \in 1 .. m : s[at[k]] \in S
  BY <1>7
<1>10. Keep(s, ps) \in Seq(S)
  BY <1>2, <1>6, <1>9
<1>11. Len(Keep(s, ps)) = m
  BY <1>2, <1>6
<1>12. \A k, l \in 1 .. m : k < l => at[k] < at[l]
  <2> SUFFICES ASSUME NEW k \in 1 .. m, NEW l \in 1 .. m, k < l PROVE at[k] < at[l]
    OBVIOUS
  <2>1. /\ at[k] \in ps /\ at[l] \in ps /\ at[k] \in Nat /\ at[l] \in Nat
        /\ Rank(ps, at[k]) = k /\ Rank(ps, at[l]) = l
    BY <1>1, <1>4
  <2>2. ~(at[l] < at[k])
    BY <1>2, <2>1
  <2> QED BY <2>1, <2>2
<1>13. \A i \in ps : \E k \in 1 .. m : at[k] = i
  BY <1>2, <1>5
<1>14. \E f \in [DOMAIN Keep(s, ps) -> ps] :
         /\ \A k \in DOMAIN Keep(s, ps) : Keep(s, ps)[k] = s[f[k]]
         /\ \A k, l \in DOMAIN Keep(s, ps) : k < l => f[k] < f[l]
         /\ \A i \in ps : \E k \in DOMAIN Keep(s, ps) : f[k] = i
  <2>1. at \in [DOMAIN Keep(s, ps) -> ps]
    BY <1>7, <1>8
  <2>2. \A k \in DOMAIN Keep(s, ps) : Keep(s, ps)[k] = s[at[k]]
    BY <1>8
  <2>3. \A k, l \in DOMAIN Keep(s, ps) : k < l => at[k] < at[l]
    BY <1>8, <1>12
  <2>4. \A i \in ps : \E k \in DOMAIN Keep(s, ps) : at[k] = i
    BY <1>8, <1>13
  <2> WITNESS at \in [DOMAIN Keep(s, ps) -> ps]
  <2> QED BY <2>2, <2>3, <2>4
<1>15. Len(Keep(s, ps)) <= Len(s)
  BY <1>2, <1>11 DEF n
<1> QED BY <1>10, <1>11, <1>14, <1>15 DEF m

(* The diff has a run for every cell that differs from the baseline, and   *)
(* its runs carry what the grid shows (compute_diff_runs).                 *)
LEMMA DiffRuns ==
  ASSUME grid \in Grids
  PROVE  /\ compute_diff_runs \in Seq(Runs)
         /\ \A k \in DOMAIN compute_diff_runs :
              compute_diff_runs[k].val = grid[compute_diff_runs[k].cell]
         /\ \A c \in Cells :
              (last_acked_snapshot = NoGrid \/ last_acked_snapshot[c] # grid[c])
              => \E k \in DOMAIN compute_diff_runs : compute_diff_runs[k].cell = c
<1> DEFINE row == [c \in Cells |-> [cell |-> c, val |-> grid[c]]]
           ps == {c \in Cells : last_acked_snapshot = NoGrid \/ last_acked_snapshot[c] # grid[c]}
<1>1. NumCells \in Nat /\ Cells = 1 .. NumCells
  BY StateSyncAssumption DEF Cells
<1>2. /\ \A c \in Cells : row[c] = [cell |-> c, val |-> grid[c]] /\ row[c] \in Runs
      /\ DOMAIN row = Cells
  BY DEF Runs, Grids
<1>3. row \in Seq(Runs)
  <2> HIDE DEF row
  <2>1. row \in [1 .. NumCells -> Runs]
    <3>1. row = [c \in Cells |-> row[c]]
      BY DEF row
    <3> QED BY <1>1, <1>2, <3>1
  <2> QED BY <1>1, <2>1
<1>4. compute_diff_runs = Keep(row, ps)
  BY DEF compute_diff_runs, Baseline
<1>5. ps \in SUBSET DOMAIN row
  BY <1>2
<1>6. /\ \A c \in ps : c \in Cells
      /\ \A c \in Cells :
           (last_acked_snapshot = NoGrid \/ last_acked_snapshot[c] # grid[c]) => c \in ps
  OBVIOUS
<1> HIDE DEF row, ps
<1>7. PICK f \in [DOMAIN Keep(row, ps) -> ps] :
        /\ \A k \in DOMAIN Keep(row, ps) : Keep(row, ps)[k] = row[f[k]]
        /\ \A c \in ps : \E k \in DOMAIN Keep(row, ps) : f[k] = c
  BY <1>3, <1>5, KeepIs, SMTT(40)
<1>8. Keep(row, ps) \in Seq(Runs)
  BY <1>3, <1>5, KeepIs
<1>9. PICK Q : Q = Keep(row, ps)
  OBVIOUS
<1>10. \A k \in DOMAIN Q : f[k] \in Cells /\ Q[k] = [cell |-> f[k], val |-> grid[f[k]]]
  BY <1>2, <1>6, <1>7, <1>9
<1>11. \A k \in DOMAIN Q : Q[k].cell = f[k] /\ Q[k].val = grid[f[k]]
  BY <1>10
<1>12. \A c \in ps : \E k \in DOMAIN Q : Q[k].cell = c
  BY <1>7, <1>9, <1>11
<1>13. \A k \in DOMAIN Q : Q[k].val = grid[Q[k].cell]
  BY <1>11
<1> QED BY <1>4, <1>6, <1>8, <1>9, <1>12, <1>13

(* A tick handles at most MAX_RUNS runs, deferred ones first.              *)
LEMMA RunsOfTick ==
  ASSUME grid \in Grids, pending_deferred \in Seq(Runs)
  PROVE  /\ TickRuns \in Seq(Runs) /\ Len(TickRuns) <= MaxRuns
         /\ \A i \in DOMAIN TickRuns :
              \/ \E k \in DOMAIN pending_deferred : TickRuns[i] = pending_deferred[k]
              \/ TickRuns[i].val = grid[TickRuns[i].cell]
         /\ Len(pending_deferred \o compute_diff_runs) <= MaxRuns
            => TickRuns = pending_deferred \o compute_diff_runs
<1> DEFINE D == compute_diff_runs
           all == pending_deferred \o D
           m == IF Len(all) > MaxRuns THEN MaxRuns ELSE Len(all)
<1>1. MaxRuns \in Nat
  BY StateSyncAssumption
<1>2. D \in Seq(Runs) /\ \A k \in DOMAIN D : D[k].val = grid[D[k].cell]
  BY DiffRuns
<1>3. TickRuns = SubSeq(all, 1, m)
  BY DEF TickRuns
<1> HIDE DEF D
<1>4. /\ all \in Seq(Runs)
      /\ Len(all) = Len(pending_deferred) + Len(D)
      /\ \A i \in 1 .. Len(all) :
           all[i] = IF i <= Len(pending_deferred) THEN pending_deferred[i]
                                                  ELSE D[i - Len(pending_deferred)]
  BY <1>2
<1>5. \A i \in 1 .. Len(all) :
        \/ \E k \in DOMAIN pending_deferred : all[i] = pending_deferred[k]
        \/ all[i].val = grid[all[i].cell]
  <2> TAKE i \in 1 .. Len(all)
  <2>1. CASE i <= Len(pending_deferred)
    BY <1>4, <2>1
  <2>2. CASE i > Len(pending_deferred)
    <3>1. all[i] = D[i - Len(pending_deferred)] /\ i - Len(pending_deferred) \in DOMAIN D
      BY <1>2, <1>4, <2>2
    <3> QED BY <1>2, <3>1
  <2> QED BY <2>1, <2>2
<1> HIDE DEF all
<1>6. m \in Nat /\ m <= Len(all) /\ m <= MaxRuns
  BY <1>1, <1>4
<1>7. /\ TickRuns \in Seq(Runs) /\ Len(TickRuns) = m
      /\ \A i \in 1 .. m : TickRuns[i] = all[i]
  <2> HIDE DEF m
  <2> QED BY <1>3, <1>4, <1>6
<1>8. Len(all) <= MaxRuns => TickRuns = all
  BY <1>4, <1>7
<1>9. \A i \in DOMAIN TickRuns :
        \/ \E k \in DOMAIN pending_deferred : TickRuns[i] = pending_deferred[k]
        \/ TickRuns[i].val = grid[TickRuns[i].cell]
  BY <1>5, <1>6, <1>7
<1> QED BY <1>6, <1>7, <1>8, <1>9 DEF all, D

(* Runs left over are runs of the tick.                                    *)
LEMMA RunsInTick ==
  ASSUME NEW runs \in Seq(Runs), NEW packing, NEW ds
  PROVE  /\ RunsIn(runs, packing, ds) \in Seq(Runs)
         /\ Len(RunsIn(runs, packing, ds)) <= Len(runs)
         /\ \A k \in DOMAIN RunsIn(runs, packing, ds) :
              \E i \in DOMAIN runs : /\ packing[i] \in ds
                                     /\ RunsIn(runs, packing, ds)[k] = runs[i]
<1> DEFINE ps == {i \in DOMAIN runs : packing[i] \in ds}
<1>1. RunsIn(runs, packing, ds) = Keep(runs, ps) /\ ps \in SUBSET DOMAIN runs
  BY DEF RunsIn
<1>2. \A i \in ps : i \in DOMAIN runs /\ packing[i] \in ds
  OBVIOUS
<1> HIDE DEF ps
<1>3. /\ Keep(runs, ps) \in Seq(Runs) /\ Len(Keep(runs, ps)) <= Len(runs)
      /\ \E f \in [DOMAIN Keep(runs, ps) -> ps] :
           \A k \in DOMAIN Keep(runs, ps) : Keep(runs, ps)[k] = runs[f[k]]
  BY <1>1, KeepIs
<1> QED BY <1>1, <1>2, <1>3

(* A datagram shows, for every cell it has a run of, one of its runs.      *)
LEMMA ShownRun ==
  ASSUME NEW runs \in Seq(Runs), NEW is \in SUBSET DOMAIN runs
  PROVE  /\ DOMAIN RunsOf(runs, is) = {runs[i].cell : i \in is}
         /\ DOMAIN RunsOf(runs, is) \subseteq Cells
         /\ \A c \in DOMAIN RunsOf(runs, is) :
              /\ RunsOf(runs, is)[c] \in Values
              /\ \E i \in is : runs[i].cell = c /\ RunsOf(runs, is)[c] = runs[i].val
<1>1. RunsOf(runs, is) = [c \in {runs[i].cell : i \in is} |->
                            runs[CHOOSE i \in is : runs[i].cell = c].val]
  BY DEF RunsOf
<1>2. \A i \in DOMAIN runs : runs[i].cell \in Cells /\ runs[i].val \in Values
  <2>1. \A i \in DOMAIN runs : runs[i] \in Runs
    OBVIOUS
  <2> QED BY <2>1 DEF Runs
<1>3. \A c \in {runs[i].cell : i \in is} : \E i \in is : runs[i].cell = c
  OBVIOUS
<1>4. \A c \in {runs[i].cell : i \in is} : \E i \in is :
        runs[i].cell = c /\ RunsOf(runs, is)[c] = runs[i].val
  BY <1>1, <1>3
<1>5. DOMAIN RunsOf(runs, is) = {runs[i].cell : i \in is}
  BY <1>1
<1>6. {runs[i].cell : i \in is} \subseteq Cells
  BY <1>2
<1>7. \A c \in DOMAIN RunsOf(runs, is) : \E i \in is :
        /\ runs[i].cell = c
        /\ RunsOf(runs, is)[c] = runs[i].val
        /\ runs[i].val \in Values
  BY <1>2, <1>4, <1>5
<1> QED BY <1>5, <1>6, <1>7

(* Every datagram of a burst carries the tick's epoch and, for each cell   *)
(* it shows, a value.                                                      *)
LEMMA BurstTypes ==
  ASSUME NEW e, NEW runs \in Seq(Runs), NEW packing, NEW visible \in SUBSET DOMAIN runs,
         NEW d \in Datagrams(e, runs, packing, visible)
  PROVE  /\ d.epoch = e
         /\ DOMAIN d.runs \subseteq Cells
         /\ \A c \in DOMAIN d.runs : d.runs[c] \in Values
<1>1. PICK k : d = StateDiff(e, RunsOf(runs, {i \in visible : packing[i] = k}))
  BY Zenon DEF Datagrams
<1> DEFINE is == {i \in visible : packing[i] = k}
           r == RunsOf(runs, is)
<1>2. is \in SUBSET DOMAIN runs
  OBVIOUS
<1>3. d = [epoch |-> e, runs |-> r]
  BY <1>1 DEF StateDiff
<1> HIDE DEF is
<1>4. DOMAIN r \subseteq Cells /\ \A c \in DOMAIN r : r[c] \in Values
  BY <1>2, ShownRun
<1> HIDE DEF r
<1> QED BY <1>3, <1>4
-----------------------------------------------------------------------------
(* Types.  What the last tick saw is the grid of the newest epoch.         *)
LastSent ==
  last_sent_snapshot = IF current_epoch = 0 THEN NoGrid ELSE sent[current_epoch]

(* There are epochs left for the changes still to come, and one more if    *)
(* the next tick will take one.                                            *)
EpochRoom ==
  current_epoch + (MaxChanges - changes)
    + (IF grid # last_sent_snapshot \/ pending_deferred # << >> THEN 1 ELSE 0) <= MaxEpoch

(* Every request under way was counted.                                    *)
AskedFirst == requests <= asked

TypeInv == TypeOK /\ LastSent /\ EpochRoom /\ AskedFirst

(* A grid has cells: no terminal shows NoGrid.                             *)
LEMMA GridIsSome == \A g \in Grids : g # NoGrid
<1> SUFFICES ASSUME NEW g \in Grids PROVE g # NoGrid
  OBVIOUS
<1>1. 1 \in DOMAIN g
  BY StateSyncAssumption DEF Grids, Cells
<1>2. DOMAIN NoGrid = {}
  BY DEF NoGrid
<1> QED BY <1>1, <1>2

(* What a tick does to the epoch and to the history of grids sent.         *)
LEMMA TickEpoch ==
  ASSUME TypeInv, BuildDiff
  PROVE  /\ current_epoch' = NextEpoch
         /\ NextEpoch \in {current_epoch, current_epoch + 1}
         /\ NextEpoch \in 1 .. MaxEpoch
         /\ pending_deferred # << >> => NextEpoch = current_epoch + 1
         /\ sent' \in Seq(Grids) /\ Len(sent') = NextEpoch
         /\ sent'[NextEpoch] = grid
         /\ \A e \in 1 .. current_epoch : sent'[e] = sent[e]
<1>1. /\ current_epoch \in Nat /\ changes \in 0 .. MaxChanges
      /\ MaxEpoch \in Nat /\ MaxChanges \in Nat
      /\ sent \in Seq(Grids) /\ Len(sent) = current_epoch /\ grid \in Grids
  BY StateSyncAssumption DEF TypeInv, TypeOK
<1>2. /\ current_epoch' = NextEpoch
      /\ sent' = IF NextEpoch > current_epoch THEN Append(sent, grid) ELSE sent
  BY DEF BuildDiff
<1>3. CASE grid # last_sent_snapshot \/ pending_deferred # << >>
  <2>1. NextEpoch = current_epoch + 1
    BY <1>3 DEF NextEpoch
  <2>2. NextEpoch \in 1 .. MaxEpoch
    BY <1>1, <1>3, <2>1 DEF TypeInv, EpochRoom
  <2>3. sent' = Append(sent, grid)
    BY <1>1, <1>2, <2>1
  <2>4. /\ sent' \in Seq(Grids) /\ Len(sent') = current_epoch + 1
        /\ sent'[current_epoch + 1] = grid
        /\ \A e \in 1 .. current_epoch : sent'[e] = sent[e]
    BY <1>1, <2>3
  <2> QED BY <1>2, <2>1, <2>2, <2>4
<1>4. CASE grid = last_sent_snapshot /\ pending_deferred = << >>
  <2>1. NextEpoch = current_epoch
    BY <1>4 DEF NextEpoch
  <2>2. current_epoch # 0
    BY <1>1, <1>4, GridIsSome DEF TypeInv, LastSent
  <2>3. grid = sent[current_epoch]
    BY <1>4, <2>2 DEF TypeInv, LastSent
  <2>4. sent' = sent
    BY <1>1, <1>2, <2>1
  <2>5. current_epoch \in 1 .. MaxEpoch
    BY <1>1, <2>2 DEF TypeInv, TypeOK
  <2> QED BY <1>1, <1>2, <1>4, <2>1, <2>3, <2>4, <2>5
<1> QED BY <1>3, <1>4

(* The store after a tick: the new snapshot at its end, the oldest gone if *)
(* it was full.                                                            *)
LEMMA TickStore ==
  ASSUME TypeInv, BuildDiff
  PROVE  /\ epoch_snapshots' \in Seq([epoch : 1 .. MaxEpoch, cells : Grids])
         /\ Len(epoch_snapshots') <= SnapCap
         /\ \E o \in {0, 1} :
              /\ Len(epoch_snapshots') = Len(epoch_snapshots) + 1 - o
              /\ o <= Len(epoch_snapshots)
              /\ \A i \in 1 .. Len(epoch_snapshots) - o :
                   epoch_snapshots'[i] = epoch_snapshots[i + o]
              /\ epoch_snapshots'[Len(epoch_snapshots')].epoch = NextEpoch
              /\ epoch_snapshots'[Len(epoch_snapshots')].cells = grid
<1> DEFINE Snap == [epoch : 1 .. MaxEpoch, cells : Grids]
           new == [epoch |-> NextEpoch, cells |-> grid]
           S == epoch_snapshots
           more == Append(S, new)
<1>1. new \in Snap /\ new.epoch = NextEpoch /\ new.cells = grid
  BY TickEpoch DEF TypeInv, TypeOK
<1>2. S \in Seq(Snap) /\ Len(S) <= SnapCap /\ SnapCap \in Nat \ {0}
  BY StateSyncAssumption DEF TypeInv, TypeOK
<1>3. epoch_snapshots' = IF Len(more) > SnapCap THEN Tail(more) ELSE more
  BY DEF BuildDiff, StoreSnapshot
<1> HIDE DEF Snap, new
<1>4. /\ more \in Seq(Snap) /\ Len(more) = Len(S) + 1 /\ more[Len(S) + 1] = new
      /\ \A i \in 1 .. Len(S) : more[i] = S[i]
  BY <1>1, <1>2
<1>5. CASE Len(S) + 1 > SnapCap
  <2> HIDE DEF more
  <2>1. epoch_snapshots' = Tail(more)
    BY <1>3, <1>4, <1>5
  <2>2. /\ epoch_snapshots' \in Seq(Snap) /\ Len(epoch_snapshots') = Len(S)
        /\ \A i \in 1 .. Len(S) : epoch_snapshots'[i] = more[i + 1]
    BY <1>2, <1>4, <2>1
  <2>3. Len(S) >= 1
    BY <1>2, <1>5
  <2>4. epoch_snapshots'[Len(epoch_snapshots')] = new
    BY <1>2, <1>4, <2>2, <2>3
  <2>5. \A i \in 1 .. Len(S) - 1 : epoch_snapshots'[i] = S[i + 1]
    BY <1>2, <1>4, <2>2, <2>3
  <2>6. /\ Len(epoch_snapshots') = Len(S) + 1 - 1 /\ 1 <= Len(S)
        /\ Len(epoch_snapshots') <= SnapCap
    BY <1>2, <2>2, <2>3
  <2> QED BY <1>1, <2>2, <2>4, <2>5, <2>6 DEF Snap
<1>6. CASE Len(S) + 1 <= SnapCap
  <2> HIDE DEF more
  <2>1. epoch_snapshots' = more
    BY <1>2, <1>3, <1>4, <1>6
  <2>2. epoch_snapshots'[Len(epoch_snapshots')] = new
    BY <1>4, <2>1
  <2>3. \A i \in 1 .. Len(S) - 0 : epoch_snapshots'[i] = S[i + 0]
    BY <1>2, <1>4, <2>1
  <2>4. /\ Len(epoch_snapshots') = Len(S) + 1 - 0 /\ 0 <= Len(S)
        /\ Len(epoch_snapshots') <= SnapCap
    BY <1>2, <1>4, <1>6, <2>1
  <2> QED BY <1>1, <1>4, <2>1, <2>2, <2>3, <2>4 DEF Snap
<1> QED BY <1>2, <1>5, <1>6

(* A tick keeps the types, whatever it puts on the wire.                   *)
LEMMA TickTypes ==
  ASSUME TypeInv, BuildDiff, EpochsLeft,
         pending_deferred' \in Seq(Runs), Len(pending_deferred') <= MaxRuns,
         \A d \in toClient' : /\ d.epoch \in 1 .. MaxEpoch
                              /\ DOMAIN d.runs \subseteq Cells
                              /\ \A c \in DOMAIN d.runs : d.runs[c] \in Values,
         whole' \in BOOLEAN
  PROVE  TypeInv'
<1>1. /\ current_epoch' = NextEpoch /\ NextEpoch \in 1 .. MaxEpoch
      /\ sent' \in Seq(Grids) /\ Len(sent') = NextEpoch
      /\ sent'[NextEpoch] = grid
  BY TickEpoch
<1>2. /\ epoch_snapshots' \in Seq([epoch : 1 .. MaxEpoch, cells : Grids])
      /\ Len(epoch_snapshots') <= SnapCap
  BY TickStore
<1>3. /\ UNCHANGED <<grid, changes, last_acked_epoch, last_acked_snapshot, toServer>>
      /\ UNCHANGED <<screen, last_applied_epoch>>
      /\ UNCHANGED <<requests, pages, view, epoch_at_snapshot, pending_request, asked>>
      /\ last_sent_snapshot' = grid
  BY DEF BuildDiff, screenVars, scrollVars
<1>4. TypeOK'
  <2>1. /\ (grid \in Grids)'
        /\ (current_epoch \in 0 .. MaxEpoch)'
        /\ (last_acked_epoch \in 0 .. MaxEpoch)'
        /\ (last_acked_snapshot \in Grids \cup {NoGrid})'
        /\ (last_sent_snapshot \in Grids \cup {NoGrid})'
        /\ (toServer \subseteq 1 .. MaxEpoch)'
    BY <1>1, <1>3 DEF TypeInv, TypeOK
  <2>2. /\ (requests \in 0 .. MaxAsked)'
        /\ (pages \in Seq(0 .. MaxEpoch))'
        /\ (screen \in Grids)'
        /\ (last_applied_epoch \in 0 .. MaxEpoch)'
        /\ (view \in {"Live", "Active"})'
        /\ (epoch_at_snapshot \in 0 .. MaxEpoch)'
        /\ (pending_request \in BOOLEAN)'
        /\ (changes \in 0 .. MaxChanges)'
        /\ (asked \in 0 .. MaxAsked)'
    BY <1>3 DEF TypeInv, TypeOK
  <2> QED BY <1>1, <1>2, <2>1, <2>2 DEF TypeOK
<1>5. LastSent' /\ AskedFirst'
  BY <1>1, <1>3 DEF TypeInv, LastSent, AskedFirst
<1>6. EpochRoom'
  <2>1. /\ MaxEpoch \in Nat /\ MaxChanges \in Nat /\ changes \in 0 .. MaxChanges
        /\ current_epoch \in Nat
    BY StateSyncAssumption DEF TypeInv, TypeOK
  <2>2. CASE pending_deferred' # << >>
    BY <1>1, <1>3, <2>1, <2>2 DEF EpochsLeft, EpochRoom
  <2>3. CASE pending_deferred' = << >>
    <3>1. NextEpoch + (MaxChanges - changes) <= MaxEpoch
      BY <2>1 DEF TypeInv, EpochRoom, NextEpoch
    <3> QED BY <1>1, <1>3, <2>1, <2>3, <3>1 DEF EpochRoom
  <2> QED BY <2>2, <2>3
<1> QED BY <1>4, <1>5, <1>6 DEF TypeInv

(* A tick that sends its burst.                                            *)
LEMMA TickSendsTypes ==
  ASSUME TypeInv, TickSends
  PROVE  TypeInv'
<1>1. /\ pending_deferred \in Seq(Runs) /\ grid \in Grids /\ MaxRuns \in Nat
      /\ BuildDiff /\ EpochsLeft
  BY StateSyncAssumption DEF TypeInv, TypeOK, TickSends
<1>2. TickRuns \in Seq(Runs) /\ Len(TickRuns) <= MaxRuns
  BY <1>1, RunsOfTick
<1>3. PICK packing, visible :
        /\ visible \in Visible(TickRuns, packing)
        /\ toClient' = toClient \cup Datagrams(NextEpoch, TickRuns, packing, visible)
        /\ pending_deferred' = RunsIn(TickRuns, packing, {LeftOver})
  BY Zenon DEF TickSends
<1>4. whole' \in BOOLEAN
  BY DEF TickSends
<1>5. pending_deferred' \in Seq(Runs) /\ Len(pending_deferred') <= Len(TickRuns)
  BY <1>2, <1>3, RunsInTick
<1>6. \A d \in Datagrams(NextEpoch, TickRuns, packing, visible) :
        /\ d.epoch \in 1 .. MaxEpoch
        /\ DOMAIN d.runs \subseteq Cells
        /\ \A c \in DOMAIN d.runs : d.runs[c] \in Values
  <2>1. NextEpoch \in 1 .. MaxEpoch
    BY <1>1, TickEpoch
  <2>2. visible \in SUBSET DOMAIN TickRuns
    BY <1>3, Zenon DEF Visible
  <2> QED BY <1>2, <2>1, <2>2, BurstTypes
<1>7. \A d \in toClient' : /\ d.epoch \in 1 .. MaxEpoch
                           /\ DOMAIN d.runs \subseteq Cells
                           /\ \A c \in DOMAIN d.runs : d.runs[c] \in Values
  BY <1>3, <1>6 DEF TypeInv, TypeOK
<1>8. Len(pending_deferred') <= MaxRuns
  BY <1>1, <1>2, <1>5
<1> QED BY <1>1, <1>4, <1>5, <1>7, <1>8, TickTypes

(* A tick whose first datagram is refused.                                 *)
LEMMA TickTooLargeTypes ==
  ASSUME TypeInv, TickTooLarge
  PROVE  TypeInv'
<1>1. /\ pending_deferred \in Seq(Runs) /\ grid \in Grids /\ MaxRuns \in Nat
      /\ BuildDiff /\ EpochsLeft /\ UNCHANGED toClient
  BY StateSyncAssumption DEF TypeInv, TypeOK, TickTooLarge
<1>2. TickRuns \in Seq(Runs) /\ Len(TickRuns) <= MaxRuns
  BY <1>1, RunsOfTick
<1>3. PICK packing \in Encodings(TickRuns) :
        pending_deferred' = RunsIn(TickRuns, packing, 2 .. LeftOver)
  BY Zenon DEF TickTooLarge
<1>4. pending_deferred' \in Seq(Runs) /\ Len(pending_deferred') <= Len(TickRuns)
  BY <1>2, <1>3, RunsInTick
<1>5. Len(pending_deferred') <= MaxRuns
  BY <1>1, <1>2, <1>4
<1>6. \A d \in toClient' : /\ d.epoch \in 1 .. MaxEpoch
                           /\ DOMAIN d.runs \subseteq Cells
                           /\ \A c \in DOMAIN d.runs : d.runs[c] \in Values
  BY <1>1 DEF TypeInv, TypeOK
<1>7. whole' \in BOOLEAN
  BY DEF TickTooLarge
<1> QED BY <1>1, <1>4, <1>5, <1>6, <1>7, TickTypes


(* The two outcomes of an acknowledgement: its epoch is not in the store,  *)
(* or its grid becomes the baseline and the newer snapshots stay, in order. *)
AckMisses(e) ==
  /\ \A i \in DOMAIN epoch_snapshots : epoch_snapshots[i].epoch # e
  /\ UNCHANGED <<last_acked_snapshot, epoch_snapshots>>

AckHits(e) ==
  /\ \E i \in DOMAIN epoch_snapshots :
       /\ epoch_snapshots[i].epoch = e
       /\ last_acked_snapshot' = epoch_snapshots[i].cells
  /\ epoch_snapshots' \in Seq([epoch : 1 .. MaxEpoch, cells : Grids])
  /\ Len(epoch_snapshots') <= Len(epoch_snapshots)
  /\ \E f \in [DOMAIN epoch_snapshots' -> DOMAIN epoch_snapshots] :
       /\ \A k \in DOMAIN epoch_snapshots' :
            /\ epoch_snapshots'[k] = epoch_snapshots[f[k]]
            /\ epoch_snapshots[f[k]].epoch > e
       /\ \A k, l \in DOMAIN epoch_snapshots' : k < l => f[k] < f[l]
       /\ \A i \in DOMAIN epoch_snapshots :
            epoch_snapshots[i].epoch > e => \E k \in DOMAIN epoch_snapshots' : f[k] = i

(* An acknowledgement has one of them.                                     *)
LEMMA AckStore ==
  ASSUME TypeInv, NEW e, AdvanceBaseline(e)
  PROVE  AckMisses(e) \/ AckHits(e)
<1> DEFINE Snap == [epoch : 1 .. MaxEpoch, cells : Grids]
           S == epoch_snapshots
           T == epoch_snapshots'
           known == {s \in {S[i] : i \in DOMAIN S} : s.epoch = e}
           ps == {i \in DOMAIN S : S[i].epoch > e}
<1>1. S \in Seq(Snap)
  BY DEF TypeInv, TypeOK
<1>2. CASE known = {}
  <2>1. UNCHANGED <<last_acked_snapshot, epoch_snapshots>>
    BY <1>2 DEF AdvanceBaseline
  <2>2. \A i \in DOMAIN S : S[i].epoch # e
    BY <1>2
  <2> QED BY <2>1, <2>2 DEF AckMisses
<1>3. CASE known # {}
  <2>1. /\ last_acked_snapshot' = (CHOOSE s \in known : TRUE).cells
        /\ T = Keep(S, ps)
    BY <1>3 DEF AdvanceBaseline, NewerSnapshots
  <2>2. (CHOOSE s \in known : TRUE) \in known
    BY <1>3
  <2>3. \E i \in DOMAIN S : S[i].epoch = e /\ last_acked_snapshot' = S[i].cells
    BY <2>1, <2>2
  <2>4. ps \in SUBSET DOMAIN S
    OBVIOUS
  <2>5. /\ \A i \in ps : i \in DOMAIN S /\ S[i].epoch > e
        /\ \A i \in DOMAIN S : S[i].epoch > e => i \in ps
    OBVIOUS
  <2> HIDE DEF ps, Snap, T
  <2>6. /\ T \in Seq(Snap) /\ Len(T) <= Len(S)
        /\ \E f \in [DOMAIN T -> ps] :
             /\ \A k \in DOMAIN T : T[k] = S[f[k]]
             /\ \A k, l \in DOMAIN T : k < l => f[k] < f[l]
             /\ \A i \in ps : \E k \in DOMAIN T : f[k] = i
    BY <1>1, <2>1, <2>4, KeepIs
  <2>7. PICK f \in [DOMAIN T -> ps] :
             /\ \A k \in DOMAIN T : T[k] = S[f[k]]
             /\ \A k, l \in DOMAIN T : k < l => f[k] < f[l]
             /\ \A i \in ps : \E k \in DOMAIN T : f[k] = i
    BY <2>6
  <2>8. f \in [DOMAIN T -> DOMAIN S]
    BY <2>5, <2>7
  <2>9. \A k \in DOMAIN T : T[k] = S[f[k]] /\ S[f[k]].epoch > e
    BY <2>5, <2>7
  <2>10. \A i \in DOMAIN S : S[i].epoch > e => \E k \in DOMAIN T : f[k] = i
    BY <2>5, <2>7
  <2>11. \E g \in [DOMAIN T -> DOMAIN S] :
             /\ \A k \in DOMAIN T : T[k] = S[g[k]] /\ S[g[k]].epoch > e
             /\ \A k, l \in DOMAIN T : k < l => g[k] < g[l]
             /\ \A i \in DOMAIN S : S[i].epoch > e => \E k \in DOMAIN T : g[k] = i
    BY <2>7, <2>8, <2>9, <2>10
  <2> QED BY <2>3, <2>6, <2>11 DEF T, Snap, AckHits
<1> QED BY <1>2, <1>3

(* Acknowledgements move the baseline to a stored grid and shrink the store. *)
LEMMA AckTypes ==
  ASSUME TypeInv, NEW e \in toServer, RecvAck(e)
  PROVE  TypeInv'
<1>1. /\ toServer' = toServer \ {e}
      /\ last_acked_epoch' \in {last_acked_epoch, e}
      /\ UNCHANGED <<grid, changes, current_epoch, last_sent_snapshot, pending_deferred>>
      /\ UNCHANGED <<sent, toClient, screen, last_applied_epoch, whole>>
      /\ UNCHANGED <<requests, pages, view, epoch_at_snapshot, pending_request, asked>>
  BY DEF RecvAck, screenVars, scrollVars
<1>2. /\ last_acked_snapshot' \in Grids \cup {NoGrid}
      /\ epoch_snapshots' \in Seq([epoch : 1 .. MaxEpoch, cells : Grids])
      /\ Len(epoch_snapshots') <= SnapCap
  <2>0. /\ last_acked_snapshot \in Grids \cup {NoGrid}
        /\ epoch_snapshots \in Seq([epoch : 1 .. MaxEpoch, cells : Grids])
        /\ Len(epoch_snapshots) <= SnapCap /\ SnapCap \in Nat
    BY StateSyncAssumption DEF TypeInv, TypeOK
  <2>1. CASE e > last_acked_epoch
    <3>1. AdvanceBaseline(e)
      BY <2>1 DEF RecvAck
    <3>2. CASE UNCHANGED <<last_acked_snapshot, epoch_snapshots>>
      BY <2>0, <3>2
    <3>3. CASE /\ \E i \in DOMAIN epoch_snapshots :
                    last_acked_snapshot' = epoch_snapshots[i].cells
               /\ epoch_snapshots' \in Seq([epoch : 1 .. MaxEpoch, cells : Grids])
               /\ Len(epoch_snapshots') <= Len(epoch_snapshots)
      <4>1. PICK i \in DOMAIN epoch_snapshots : last_acked_snapshot' = epoch_snapshots[i].cells
        BY <3>3
      <4>2. epoch_snapshots[i] \in [epoch : 1 .. MaxEpoch, cells : Grids]
        <5> DEFINE Snap == [epoch : 1 .. MaxEpoch, cells : Grids]
        <5>1. epoch_snapshots \in Seq(Snap) /\ i \in DOMAIN epoch_snapshots
          BY <2>0
        <5> HIDE DEF Snap
        <5>2. epoch_snapshots[i] \in Snap
          BY <5>1
        <5> QED BY <5>2 DEF Snap
      <4>3. last_acked_snapshot' \in Grids
        BY <4>1, <4>2
      <4>4. Len(epoch_snapshots') <= SnapCap
        BY <2>0, <3>3
      <4> QED BY <3>3, <4>3, <4>4
    <3>4. \/ UNCHANGED <<last_acked_snapshot, epoch_snapshots>>
          \/ /\ \E i \in DOMAIN epoch_snapshots :
                  last_acked_snapshot' = epoch_snapshots[i].cells
             /\ epoch_snapshots' \in Seq([epoch : 1 .. MaxEpoch, cells : Grids])
             /\ Len(epoch_snapshots') <= Len(epoch_snapshots)
      BY <3>1, AckStore DEF AckMisses, AckHits
    <3> QED BY <3>2, <3>3, <3>4
  <2>2. CASE ~(e > last_acked_epoch)
    BY <2>0, <2>2 DEF RecvAck
  <2> QED BY <2>1, <2>2
<1>3. TypeOK'
  <2>1. /\ toServer \subseteq 1 .. MaxEpoch /\ last_acked_epoch \in 0 .. MaxEpoch
        /\ e \in 1 .. MaxEpoch /\ MaxEpoch \in Nat
    BY StateSyncAssumption DEF TypeInv, TypeOK
  <2>2. last_acked_epoch' \in 0 .. MaxEpoch /\ toServer' \subseteq 1 .. MaxEpoch
    BY <1>1, <2>1
  <2> QED BY <1>1, <1>2, <2>2 DEF TypeInv, TypeOK
<1>4. LastSent' /\ EpochRoom' /\ AskedFirst'
  BY <1>1 DEF TypeInv, LastSent, EpochRoom, AskedFirst
<1> QED BY <1>3, <1>4 DEF TypeInv

(* The shell changes a cell.                                               *)
LEMMA GridTypes ==
  ASSUME TypeInv, GridChanges
  PROVE  TypeInv'
<1>1. /\ changes < MaxChanges /\ changes' = changes + 1
      /\ UNCHANGED <<current_epoch, last_acked_epoch, last_acked_snapshot>>
      /\ UNCHANGED <<last_sent_snapshot, pending_deferred, epoch_snapshots, sent>>
      /\ UNCHANGED <<toClient, toServer, screen, last_applied_epoch, whole>>
      /\ UNCHANGED <<requests, pages, view, epoch_at_snapshot, pending_request, asked>>
  BY DEF GridChanges, syncVars, screenVars, scrollVars
<1>2. grid' \in Grids
  BY DEF TypeInv, TypeOK, GridChanges, Grids
<1>3. changes' \in 0 .. MaxChanges /\ changes \in Nat /\ MaxChanges \in Nat
  BY <1>1, StateSyncAssumption DEF TypeInv, TypeOK
<1>4. TypeOK'
  BY <1>1, <1>2, <1>3 DEF TypeInv, TypeOK
<1>5. LastSent' /\ AskedFirst'
  BY <1>1 DEF TypeInv, LastSent, AskedFirst
<1>6. EpochRoom'
  <2>1. current_epoch \in Nat /\ MaxEpoch \in Nat
    BY StateSyncAssumption DEF TypeInv, TypeOK
  <2>2. current_epoch + (MaxChanges - changes) <= MaxEpoch
    BY <1>3, <2>1 DEF TypeInv, EpochRoom
  <2>3. current_epoch + (MaxChanges - (changes + 1)) + 1 <= MaxEpoch
    BY <1>3, <2>1, <2>2
  <2> QED BY <1>1, <1>3, <2>1, <2>3 DEF EpochRoom
<1> QED BY <1>4, <1>5, <1>6 DEF TypeInv

(* A tick with nothing to send forgets what was deferred.                  *)
LEMMA SkipTypes ==
  ASSUME TypeInv, TickSkips
  PROVE  TypeInv'
<1>1. /\ pending_deferred' = << >>
      /\ UNCHANGED <<grid, changes, current_epoch, last_acked_epoch, last_acked_snapshot>>
      /\ UNCHANGED <<last_sent_snapshot, epoch_snapshots, sent>>
      /\ UNCHANGED <<toClient, toServer, screen, last_applied_epoch, whole>>
      /\ UNCHANGED <<requests, pages, view, epoch_at_snapshot, pending_request, asked>>
  BY DEF TickSkips, screenVars, scrollVars
<1>2. pending_deferred' \in Seq(Runs) /\ Len(pending_deferred') <= MaxRuns
  BY <1>1, StateSyncAssumption
<1>3. TypeOK'
  BY <1>1, <1>2 DEF TypeInv, TypeOK
<1>4. EpochRoom'
  <2>1. /\ MaxEpoch \in Nat /\ MaxChanges \in Nat /\ changes \in 0 .. MaxChanges
        /\ current_epoch \in Nat
    BY StateSyncAssumption DEF TypeInv, TypeOK
  <2> QED BY <1>1, <2>1 DEF TypeInv, EpochRoom
<1>5. LastSent' /\ AskedFirst'
  BY <1>1 DEF TypeInv, LastSent, AskedFirst
<1> QED BY <1>3, <1>4, <1>5 DEF TypeInv

(* A datagram leaves the network.                                          *)
LEMMA DatagramTypes ==
  ASSUME TypeInv, NEW d \in toClient,
         LoseDiff(d) \/ DiscardStale(d) \/ SuppressDiff(d) \/ ApplyDiff(d)
  PROVE  TypeInv'
<1>1. /\ d.epoch \in 1 .. MaxEpoch /\ MaxEpoch \in Nat
      /\ \A c \in DOMAIN d.runs : d.runs[c] \in Values
  BY StateSyncAssumption DEF TypeInv, TypeOK
<1>2. /\ UNCHANGED <<grid, changes, current_epoch, last_acked_epoch, last_acked_snapshot>>
      /\ UNCHANGED <<last_sent_snapshot, pending_deferred, epoch_snapshots, sent>>
      /\ UNCHANGED <<requests, pages, asked>>
      /\ toClient' = toClient \ {d}
      /\ toServer' \in {toServer, toServer \cup {d.epoch}}
      /\ whole' \in {whole, FALSE}
  BY DEF LoseDiff, DiscardStale, SuppressDiff, ApplyDiff, syncVars, scrollVars
<1>3. /\ last_applied_epoch' \in {last_applied_epoch, d.epoch}
      /\ view' \in {view, "Live"}
      /\ epoch_at_snapshot' \in {epoch_at_snapshot, 0}
      /\ pending_request' \in {pending_request, FALSE}
  BY DEF LoseDiff, DiscardStale, SuppressDiff, ApplyDiff, screenVars, scrollVars
<1>4. screen' \in Grids
  <2>1. screen \in Grids
    BY DEF TypeInv, TypeOK
  <2>2. CASE UNCHANGED screen
    BY <2>1, <2>2
  <2>3. CASE screen' = [c \in Cells |-> IF c \in DOMAIN d.runs THEN d.runs[c] ELSE screen[c]]
    BY <1>1, <2>1, <2>3 DEF Grids
  <2> QED BY <2>2, <2>3 DEF LoseDiff, DiscardStale, SuppressDiff, ApplyDiff, screenVars
<1>5. TypeOK'
  <2>0. /\ toServer \subseteq 1 .. MaxEpoch
        /\ last_applied_epoch \in 0 .. MaxEpoch /\ epoch_at_snapshot \in 0 .. MaxEpoch
        /\ view \in {"Live", "Active"} /\ pending_request \in BOOLEAN /\ whole \in BOOLEAN
    BY DEF TypeInv, TypeOK
  <2>1. /\ toServer' \subseteq 1 .. MaxEpoch
        /\ last_applied_epoch' \in 0 .. MaxEpoch
        /\ epoch_at_snapshot' \in 0 .. MaxEpoch
    BY <1>1, <1>2, <1>3, <2>0
  <2>3. /\ view' \in {"Live", "Active"}
        /\ pending_request' \in BOOLEAN
        /\ whole' \in BOOLEAN
    BY <1>2, <1>3, <2>0
  <2>2. \A x \in toClient' : /\ x.epoch \in 1 .. MaxEpoch
                             /\ DOMAIN x.runs \subseteq Cells
                             /\ \A c \in DOMAIN x.runs : x.runs[c] \in Values
    BY <1>2 DEF TypeInv, TypeOK
  <2> QED BY <1>2, <1>4, <2>1, <2>2, <2>3 DEF TypeInv, TypeOK
<1>6. LastSent' /\ EpochRoom' /\ AskedFirst'
  BY <1>2 DEF TypeInv, LastSent, EpochRoom, AskedFirst
<1> QED BY <1>5, <1>6 DEF TypeInv

(* The scrollback channel and the view.                                    *)
LEMMA ScrollTypes ==
  ASSUME TypeInv, ServePage \/ EnterScrollback \/ Prefetch \/ RecvPage \/ SnapBack
  PROVE  TypeInv'
<1>1. /\ UNCHANGED <<grid, changes, current_epoch, last_acked_epoch, last_acked_snapshot>>
      /\ UNCHANGED <<last_sent_snapshot, pending_deferred, epoch_snapshots, sent>>
      /\ UNCHANGED <<toClient, toServer, screen, last_applied_epoch, whole>>
  BY DEF ServePage, EnterScrollback, Prefetch, RecvPage, SnapBack, syncVars, screenVars
<1>2. /\ requests \in 0 .. MaxAsked /\ asked \in 0 .. MaxAsked /\ requests <= asked
      /\ pages \in Seq(0 .. MaxEpoch)
      /\ current_epoch \in 0 .. MaxEpoch /\ last_applied_epoch \in 0 .. MaxEpoch
      /\ epoch_at_snapshot \in 0 .. MaxEpoch
      /\ view \in {"Live", "Active"} /\ pending_request \in BOOLEAN
      /\ MaxAsked \in Nat /\ MaxEpoch \in Nat
  BY StateSyncAssumption DEF TypeInv, TypeOK, AskedFirst
<1>3. /\ requests' \in 0 .. MaxAsked /\ asked' \in 0 .. MaxAsked /\ requests' <= asked'
      /\ pages' \in Seq(0 .. MaxEpoch)
      /\ epoch_at_snapshot' \in 0 .. MaxEpoch
      /\ view' \in {"Live", "Active"} /\ pending_request' \in BOOLEAN
  <2>1. CASE ServePage
    <3>1. /\ requests > 0 /\ requests' = requests - 1
          /\ pages' = Append(pages, current_epoch)
          /\ UNCHANGED <<view, epoch_at_snapshot, pending_request, asked>>
      BY <2>1 DEF ServePage
    <3>2. pages' \in Seq(0 .. MaxEpoch)
      BY <1>2, <3>1
    <3> QED BY <1>2, <3>1, <3>2
  <2>2. CASE EnterScrollback \/ Prefetch
    <3>1. /\ asked < MaxAsked /\ requests' = requests + 1 /\ asked' = asked + 1
          /\ view' \in {view, "Active"} /\ pending_request' = TRUE
          /\ epoch_at_snapshot' \in {epoch_at_snapshot, last_applied_epoch}
          /\ UNCHANGED pages
      BY <2>2 DEF EnterScrollback, Prefetch
    <3>2. requests' \in 0 .. MaxAsked /\ asked' \in 0 .. MaxAsked /\ requests' <= asked'
      BY <1>2, <3>1
    <3> QED BY <1>2, <3>1, <3>2
  <2>3. CASE RecvPage
    <3>1. /\ pages # << >> /\ pages' = Tail(pages)
          /\ epoch_at_snapshot' \in {epoch_at_snapshot, Head(pages)}
          /\ pending_request' \in {pending_request, FALSE}
          /\ UNCHANGED <<requests, view, asked>>
      BY <2>3 DEF RecvPage
    <3>2. pages' \in Seq(0 .. MaxEpoch) /\ Head(pages) \in 0 .. MaxEpoch
      BY <1>2, <3>1
    <3>3. epoch_at_snapshot' \in 0 .. MaxEpoch
      BY <1>2, <3>1, <3>2
    <3>4. pending_request' \in BOOLEAN
      BY <1>2, <3>1
    <3> QED BY <1>2, <3>1, <3>2, <3>3, <3>4
  <2>4. CASE SnapBack
    <3>1. /\ view' = "Live" /\ epoch_at_snapshot' = 0 /\ pending_request' = FALSE
          /\ UNCHANGED <<requests, pages, asked>>
      BY <2>4 DEF SnapBack
    <3>2. epoch_at_snapshot' \in 0 .. MaxEpoch
      BY <1>2, <3>1
    <3>3. view' \in {"Live", "Active"} /\ pending_request' \in BOOLEAN
      BY <3>1
    <3> QED BY <1>2, <3>1, <3>2, <3>3
  <2> QED BY <2>1, <2>2, <2>3, <2>4
<1>4. TypeOK'
  BY <1>1, <1>3 DEF TypeInv, TypeOK
<1>5. LastSent' /\ EpochRoom'
  BY <1>1 DEF TypeInv, LastSent, EpochRoom
<1>6. AskedFirst'
  BY <1>3 DEF AskedFirst
<1> QED BY <1>4, <1>5, <1>6 DEF TypeInv

(* Every step keeps the types.                                             *)
LEMMA NextTypes == TypeInv /\ [Next]_vars => TypeInv'
<1> SUFFICES ASSUME TypeInv, [Next]_vars
             PROVE  TypeInv'
  OBVIOUS
<1>1. CASE UNCHANGED vars
  BY <1>1 DEF vars, syncVars, screenVars, scrollVars, TypeInv, TypeOK, LastSent, EpochRoom,
              AskedFirst
<1> QED
  BY <1>1, GridTypes, SkipTypes, TickSendsTypes, TickTooLargeTypes, AckTypes, ScrollTypes,
     DatagramTypes DEF Next, DatagramEnds

(* The types at the start.                                                 *)
LEMMA InitTypes == Init => TypeInv
<1> SUFFICES ASSUME Init
             PROVE  TypeInv
  OBVIOUS
<1>1. /\ [c \in Cells |-> Blank] \in Grids
      /\ MaxRuns \in Nat /\ SnapCap \in Nat /\ MaxEpoch \in Nat /\ MaxChanges \in Nat
      /\ MaxAsked \in Nat /\ MaxEpoch > MaxChanges
  BY StateSyncAssumption DEF Grids
<1>2. TypeOK
  <2>1. /\ grid \in Grids
        /\ screen \in Grids
        /\ last_acked_snapshot \in Grids \cup {NoGrid}
        /\ last_sent_snapshot \in Grids \cup {NoGrid}
    BY <1>1 DEF Init
  <2>2. /\ pending_deferred \in Seq(Runs) /\ Len(pending_deferred) <= MaxRuns
        /\ epoch_snapshots \in Seq([epoch : 1 .. MaxEpoch, cells : Grids])
        /\ Len(epoch_snapshots) <= SnapCap
    BY <1>1 DEF Init
  <2>3. /\ sent \in Seq(Grids) /\ Len(sent) = current_epoch
        /\ pages \in Seq(0 .. MaxEpoch)
    BY DEF Init
  <2>4. /\ current_epoch \in 0 .. MaxEpoch /\ last_acked_epoch \in 0 .. MaxEpoch
        /\ last_applied_epoch \in 0 .. MaxEpoch /\ epoch_at_snapshot \in 0 .. MaxEpoch
        /\ requests \in 0 .. MaxAsked /\ asked \in 0 .. MaxAsked
        /\ changes \in 0 .. MaxChanges
    BY <1>1 DEF Init
  <2>5. /\ toServer \subseteq 1 .. MaxEpoch
        /\ \A d \in toClient : FALSE
        /\ view \in {"Live", "Active"}
        /\ pending_request \in BOOLEAN /\ whole \in BOOLEAN
    BY DEF Init
  <2> QED BY <2>1, <2>2, <2>3, <2>4, <2>5 DEF TypeOK
<1>3. LastSent
  BY DEF Init, LastSent
<1>4. EpochRoom /\ AskedFirst
  BY <1>1 DEF Init, EpochRoom, AskedFirst
<1> QED BY <1>2, <1>3, <1>4 DEF TypeInv

(* Every variable keeps its shape; the store never exceeds                 *)
(* EPOCH_SNAPSHOT_CAP and no tick defers more than MAX_RUNS runs.          *)
THEOREM TypeCorrect == Spec => []TypeOK
<1>1. TypeInv => TypeOK
  BY DEF TypeInv
<1> QED BY <1>1, InitTypes, NextTypes, PTL DEF Spec

-----------------------------------------------------------------------------
(* The snapshot store.  Its entries are in the order of their epochs.      *)
StoreOrdered ==
  /\ \A i \in DOMAIN epoch_snapshots : epoch_snapshots[i].epoch <= current_epoch
  /\ \A i, j \in DOMAIN epoch_snapshots :
       i <= j => epoch_snapshots[i].epoch <= epoch_snapshots[j].epoch

(* An epoch that can still be acknowledged is stored, or evicted together  *)
(* with all that were older: an acknowledgement that finds nothing leaves  *)
(* nothing older than itself behind.                                       *)
EvictedInOrder ==
  \A e \in last_acked_epoch + 1 .. current_epoch :
    \/ \E i \in DOMAIN epoch_snapshots : epoch_snapshots[i].epoch = e
    \/ \A i \in DOMAIN epoch_snapshots : epoch_snapshots[i].epoch > e

(* The newest epoch never goes unfound: once it is acknowledged its grid   *)
(* is the baseline, so that a tick with the same grid is skipped.          *)
NewestBaseline ==
  last_acked_epoch = current_epoch /\ current_epoch > 0 =>
    last_acked_snapshot = sent[current_epoch]

StoreInv == BaselineWasSent /\ StoreOrdered /\ EvictedInOrder /\ NewestBaseline

(* Numbers, for the steps below.                                           *)
LEMMA Numbers ==
  ASSUME TypeInv, EpochInv
  PROVE  /\ current_epoch \in Nat /\ last_acked_epoch \in Nat /\ last_applied_epoch \in Nat
         /\ last_acked_epoch <= current_epoch /\ last_applied_epoch <= current_epoch
         /\ \A i \in DOMAIN epoch_snapshots : epoch_snapshots[i].epoch \in Nat
         /\ epoch_snapshots \in Seq([epoch : 1 .. MaxEpoch, cells : Grids])
         /\ Len(epoch_snapshots) \in Nat
         /\ DOMAIN epoch_snapshots = 1 .. Len(epoch_snapshots)
         /\ sent \in Seq(Grids) /\ Len(sent) = current_epoch
<1> DEFINE Snap == [epoch : 1 .. MaxEpoch, cells : Grids]
<1>1. epoch_snapshots \in Seq(Snap) /\ sent \in Seq(Grids) /\ Len(sent) = current_epoch
  BY DEF TypeInv, TypeOK
<1>2. \A s \in Snap : s.epoch \in Nat
  OBVIOUS
<1> HIDE DEF Snap
<1>3. /\ \A i \in DOMAIN epoch_snapshots : epoch_snapshots[i].epoch \in Nat
      /\ Len(epoch_snapshots) \in Nat
      /\ DOMAIN epoch_snapshots = 1 .. Len(epoch_snapshots)
  BY <1>1, <1>2
<1> QED BY <1>1, <1>3 DEF EpochInv, EpochsBounded, Snap

(* A tick appends its snapshot; what it evicts was the oldest.             *)
LEMMA TickBaseline ==
  ASSUME TypeInv, EpochInv, StoreInv, BuildDiff
  PROVE  StoreInv'
<1> DEFINE S == epoch_snapshots
           T == epoch_snapshots'
<1>1. /\ current_epoch' = NextEpoch
      /\ NextEpoch \in {current_epoch, current_epoch + 1} /\ NextEpoch \in Nat \ {0}
      /\ sent'[NextEpoch] = grid
      /\ \A e \in 1 .. current_epoch : sent'[e] = sent[e]
  BY TickEpoch
<1>2. UNCHANGED <<last_acked_epoch, last_acked_snapshot>>
  BY DEF BuildDiff
<1>3. /\ current_epoch \in Nat /\ last_acked_epoch \in Nat
      /\ last_acked_epoch <= current_epoch
      /\ \A i \in DOMAIN S : S[i].epoch \in Nat
      /\ Len(S) \in Nat /\ DOMAIN S = 1 .. Len(S)
  BY Numbers
<1>4. PICK o \in {0, 1} :
        /\ Len(T) = Len(S) + 1 - o
        /\ o <= Len(S)
        /\ \A i \in 1 .. Len(S) - o : T[i] = S[i + o]
        /\ T[Len(T)].epoch = NextEpoch
        /\ T[Len(T)].cells = grid
  BY TickStore
<1>5. DOMAIN T = 1 .. Len(T) /\ Len(T) \in Nat \ {0}
  <2>1. T \in Seq([epoch : 1 .. MaxEpoch, cells : Grids])
    BY TickStore
  <2> QED BY <1>3, <1>4, <2>1
<1>6. /\ \A i \in DOMAIN S : /\ S[i].cells = sent[S[i].epoch]
                             /\ S[i].epoch > last_acked_epoch /\ S[i].epoch <= current_epoch
      /\ \A i, j \in DOMAIN S : i <= j => S[i].epoch <= S[j].epoch
  BY DEF StoreInv, BaselineWasSent, StoreOrdered
<1>7. \A i \in DOMAIN T : \/ i = Len(T)
                          \/ i \in 1 .. Len(S) - o /\ i + o \in DOMAIN S /\ T[i] = S[i + o]
  <2> SUFFICES ASSUME NEW i \in DOMAIN T, i # Len(T)
               PROVE  i \in 1 .. Len(S) - o /\ i + o \in DOMAIN S /\ T[i] = S[i + o]
    OBVIOUS
  <2> HIDE DEF S, T
  <2>1. PICK n : n = Len(S)
    OBVIOUS
  <2>2. PICK m : m = Len(T)
    OBVIOUS
  <2>3. n \in Nat /\ m \in Nat /\ m = n + 1 - o /\ o \in {0, 1} /\ i \in 1 .. m /\ i # m
    BY <1>3, <1>4, <1>5, <2>1, <2>2
  <2>4. i \in 1 .. n - o /\ i + o \in 1 .. n
    BY <2>3
  <2> QED BY <1>3, <1>4, <2>1, <2>4
<1>8. NextEpoch > last_acked_epoch
  <2>1. CASE NextEpoch = current_epoch + 1
    BY <1>3, <2>1
  <2>2. CASE NextEpoch = current_epoch /\ last_acked_epoch = current_epoch
    <3>1. grid = last_sent_snapshot
      BY <1>3, <2>2 DEF NextEpoch
    <3>2. current_epoch > 0 /\ last_sent_snapshot = sent[current_epoch]
      BY <1>1, <1>3, <2>2 DEF TypeInv, LastSent
    <3>3. last_acked_snapshot = sent[current_epoch]
      BY <2>2, <3>2 DEF StoreInv, NewestBaseline
    <3>4. Settled
      BY <1>3, <2>2, <3>1, <3>2, <3>3 DEF Settled
    <3> QED BY <3>4 DEF BuildDiff
  <2> QED BY <1>1, <1>3, <2>1, <2>2
<1> HIDE DEF T
<1>9. \A i \in DOMAIN T : /\ T[i].cells = sent'[T[i].epoch]
                          /\ T[i].epoch > last_acked_epoch /\ T[i].epoch <= NextEpoch
                          /\ T[i].epoch \in Nat
  <2> TAKE i \in DOMAIN T
  <2>1. CASE i = Len(T)
    BY <1>1, <1>4, <1>8, <2>1
  <2>2. CASE i \in 1 .. Len(S) - o /\ i + o \in DOMAIN S /\ T[i] = S[i + o]
    <3>1. /\ S[i + o].cells = sent[S[i + o].epoch] /\ S[i + o].epoch \in Nat
          /\ S[i + o].epoch > last_acked_epoch /\ S[i + o].epoch <= current_epoch
      BY <1>3, <1>6, <2>2
    <3>2. S[i + o].epoch \in 1 .. current_epoch /\ S[i + o].epoch <= NextEpoch
      BY <1>1, <1>3, <3>1
    <3>3. sent'[S[i + o].epoch] = sent[S[i + o].epoch]
      BY <1>1, <3>2
    <3> QED BY <2>2, <3>1, <3>2, <3>3
  <2> QED BY <1>7, <2>1, <2>2
<1>10. \A i, j \in DOMAIN T : i <= j => T[i].epoch <= T[j].epoch
  <2> SUFFICES ASSUME NEW i \in DOMAIN T, NEW j \in DOMAIN T, i <= j
               PROVE  T[i].epoch <= T[j].epoch
    OBVIOUS
  <2>1. CASE j = Len(T)
    BY <1>4, <1>9, <2>1
  <2>2. CASE j # Len(T)
    <3>1. /\ i + o \in DOMAIN S /\ T[i] = S[i + o]
          /\ j + o \in DOMAIN S /\ T[j] = S[j + o]
          /\ i + o <= j + o
      BY <1>5, <1>7, <2>2
    <3> QED BY <1>6, <3>1
  <2> QED BY <2>1, <2>2
<1>11. \A e \in last_acked_epoch + 1 .. NextEpoch :
         \/ \E i \in DOMAIN T : T[i].epoch = e
         \/ \A i \in DOMAIN T : T[i].epoch > e
  <2> TAKE e \in last_acked_epoch + 1 .. NextEpoch
  <2>1. CASE e = NextEpoch
    <3>1. Len(T) \in DOMAIN T
      BY <1>5
    <3>2. T[Len(T)].epoch = e
      BY <1>4, <2>1
    <3> QED BY <3>1, <3>2
  <2>2. CASE e # NextEpoch
    <3>1. e \in last_acked_epoch + 1 .. current_epoch /\ e < NextEpoch
      BY <1>1, <1>3, <2>2
    <3>2. CASE \A i \in DOMAIN S : S[i].epoch > e
      BY <1>4, <1>7, <3>1, <3>2
    <3>3. CASE \E i \in DOMAIN S : S[i].epoch = e
      <4>1. PICK i \in DOMAIN S : S[i].epoch = e
        BY <3>3
      <4>2. CASE \E j \in DOMAIN S : S[j].epoch = e /\ j > o
        <5>1. PICK j \in DOMAIN S : S[j].epoch = e /\ j > o
          BY <4>2
        <5>2. j - o \in 1 .. Len(S) - o /\ j - o \in DOMAIN T
          BY <1>3, <1>4, <1>5, <5>1
        <5>3. T[j - o] = S[j]
          BY <1>3, <1>4, <5>2
        <5> QED BY <5>1, <5>2, <5>3
      <4>3. CASE ~\E j \in DOMAIN S : S[j].epoch = e /\ j > o
        <5>1. i <= o
          BY <1>3, <4>1, <4>3
        <5>2. \A j \in DOMAIN S : j > o => S[j].epoch > e
          <6> SUFFICES ASSUME NEW j \in DOMAIN S, j > o PROVE S[j].epoch > e
            OBVIOUS
          <6>1. S[i].epoch <= S[j].epoch
            BY <1>3, <1>6, <4>1, <5>1
          <6>2. S[j].epoch # e /\ S[j].epoch \in Nat /\ e \in Nat
            BY <1>3, <3>1, <4>3
          <6> QED BY <4>1, <6>1, <6>2
        <5>3. \A k \in 1 .. Len(S) - o : k + o > o
          BY <1>3
        <5> QED BY <1>4, <1>7, <3>1, <5>2, <5>3
      <4> QED BY <4>2, <4>3
    <3> QED BY <3>1, <3>2, <3>3 DEF StoreInv, EvictedInOrder
  <2> QED BY <2>1, <2>2
<1>12. last_acked_snapshot' # NoGrid =>
         \E e \in 1 .. last_acked_epoch' : last_acked_snapshot' = sent'[e]
  <2> SUFFICES ASSUME last_acked_snapshot # NoGrid
               PROVE  \E e \in 1 .. last_acked_epoch : last_acked_snapshot = sent'[e]
    BY <1>2
  <2>1. PICK e \in 1 .. last_acked_epoch : last_acked_snapshot = sent[e]
    BY DEF StoreInv, BaselineWasSent
  <2>2. e \in 1 .. current_epoch
    BY <1>3
  <2> QED BY <1>1, <2>1, <2>2
<1>13. BaselineWasSent'
  BY <1>1, <1>2, <1>4, <1>5, <1>9, <1>12 DEF BaselineWasSent, T
<1>14. StoreOrdered'
  BY <1>1, <1>9, <1>10 DEF StoreOrdered, T
<1>15. EvictedInOrder'
  BY <1>1, <1>2, <1>11 DEF EvictedInOrder, T
<1>16. NewestBaseline'
  BY <1>1, <1>2, <1>3, <1>8 DEF NewestBaseline
<1> QED BY <1>13, <1>14, <1>15, <1>16 DEF StoreInv

(* An acknowledgement moves the baseline to the grid of its epoch, or      *)
(* finds nothing because that and everything older was evicted.            *)
LEMMA AckBaseline ==
  ASSUME TypeInv, EpochInv, StoreInv, NEW e \in toServer, RecvAck(e)
  PROVE  StoreInv'
<1> DEFINE S == epoch_snapshots
           T == epoch_snapshots'
<1>1. /\ current_epoch \in Nat /\ last_acked_epoch \in Nat
      /\ last_acked_epoch <= current_epoch
      /\ \A i \in DOMAIN S : S[i].epoch \in Nat
      /\ Len(S) \in Nat /\ DOMAIN S = 1 .. Len(S)
      /\ e \in Nat /\ e <= current_epoch
  BY Numbers DEF EpochInv, EpochsBounded
<1>2. UNCHANGED <<current_epoch, sent>>
  BY DEF RecvAck
<1>3. CASE e <= last_acked_epoch
  <2>1. UNCHANGED <<last_acked_epoch, last_acked_snapshot, epoch_snapshots>>
    BY <1>1, <1>3 DEF RecvAck
  <2> QED BY <1>2, <2>1 DEF StoreInv, BaselineWasSent, StoreOrdered, EvictedInOrder,
                            NewestBaseline
<1>4. CASE e > last_acked_epoch
  <2>1. last_acked_epoch' = e /\ AdvanceBaseline(e)
    BY <1>4 DEF RecvAck
  <2>2. /\ \A i \in DOMAIN S : /\ S[i].cells = sent[S[i].epoch]
                               /\ S[i].epoch > last_acked_epoch /\ S[i].epoch <= current_epoch
        /\ \A i, j \in DOMAIN S : i <= j => S[i].epoch <= S[j].epoch
        /\ S # << >> /\ S[Len(S)].epoch = current_epoch
        /\ last_acked_snapshot # NoGrid =>
             \E x \in 1 .. last_acked_epoch : last_acked_snapshot = sent[x]
    BY <1>1, <1>4 DEF StoreInv, BaselineWasSent, StoreOrdered
  <2>3. Len(S) \in DOMAIN S
    BY <1>1, <2>2 DEF TypeInv, TypeOK
  <2>4. CASE AckMisses(e)
    <3>0. /\ \A i \in DOMAIN S : S[i].epoch # e
          /\ UNCHANGED <<last_acked_snapshot, epoch_snapshots>>
      BY <2>4 DEF AckMisses
    <3>1. e \in last_acked_epoch + 1 .. current_epoch
      BY <1>1, <1>4
    <3>2. \A i \in DOMAIN S : S[i].epoch > e
      BY <3>0, <3>1 DEF StoreInv, EvictedInOrder
    <3>3. \A x \in 1 .. last_acked_epoch : x \in 1 .. e
      BY <1>1, <1>4
    <3>4. BaselineWasSent'
      BY <1>2, <2>1, <2>2, <3>0, <3>2, <3>3 DEF BaselineWasSent
    <3>5. StoreOrdered'
      BY <1>2, <3>0 DEF StoreInv, StoreOrdered
    <3>6. \A x \in e + 1 .. current_epoch : x \in last_acked_epoch + 1 .. current_epoch
      BY <1>1, <1>4
    <3>7. EvictedInOrder'
      BY <1>2, <2>1, <3>0, <3>6 DEF StoreInv, EvictedInOrder
    <3>8. e # current_epoch
      BY <2>2, <2>3, <3>0
    <3>9. NewestBaseline'
      BY <1>2, <2>1, <3>8 DEF NewestBaseline
    <3> QED BY <3>4, <3>5, <3>7, <3>9 DEF StoreInv
  <2>5. CASE AckHits(e)
    <3>0. /\ \E i \in DOMAIN S : S[i].epoch = e /\ last_acked_snapshot' = S[i].cells
          /\ T \in Seq([epoch : 1 .. MaxEpoch, cells : Grids])
      BY <2>5 DEF AckHits
    <3>1. PICK f \in [DOMAIN T -> DOMAIN S] :
            /\ \A k \in DOMAIN T : T[k] = S[f[k]] /\ S[f[k]].epoch > e
            /\ \A k, l \in DOMAIN T : k < l => f[k] < f[l]
            /\ \A i \in DOMAIN S : S[i].epoch > e => \E k \in DOMAIN T : f[k] = i
      BY <2>5 DEF AckHits
    <3>2. DOMAIN T = 1 .. Len(T) /\ Len(T) \in Nat
      BY <3>0
    <3>3. last_acked_snapshot' = sent[e] /\ e \in 1 .. e
      BY <1>1, <1>4, <2>2, <3>0
    <3> HIDE DEF T
    <3>4. \A k \in DOMAIN T : /\ f[k] \in DOMAIN S
                              /\ T[k].cells = sent[T[k].epoch]
                              /\ T[k].epoch > e /\ T[k].epoch <= current_epoch
      BY <2>2, <3>1
    <3>5. \A k, l \in DOMAIN T : k <= l => T[k].epoch <= T[l].epoch
      <4> SUFFICES ASSUME NEW k \in DOMAIN T, NEW l \in DOMAIN T, k <= l
                   PROVE  T[k].epoch <= T[l].epoch
        OBVIOUS
      <4>1. f[k] \in Nat /\ f[l] \in Nat /\ (k = l \/ k < l)
        BY <1>1, <3>2, <3>4
      <4>2. f[k] <= f[l]
        BY <3>1, <4>1
      <4> QED BY <2>2, <3>1, <4>2
    <3>6. e < current_epoch => T # << >> /\ T[Len(T)].epoch = current_epoch
      <4> SUFFICES ASSUME e < current_epoch
                   PROVE  T # << >> /\ T[Len(T)].epoch = current_epoch
        OBVIOUS
      <4>1. PICK k \in DOMAIN T : f[k] = Len(S)
        BY <2>2, <2>3, <3>1
      <4>2. Len(T) \in DOMAIN T /\ k <= Len(T) /\ k \in Nat
        BY <3>2, <4>1
      <4>3. ~(k < Len(T))
        <5>1. f[Len(T)] \in 1 .. Len(S)
          BY <1>1, <3>4, <4>2
        <5>2. k < Len(T) => Len(S) < f[Len(T)]
          BY <3>1, <4>1, <4>2
        <5> QED BY <1>1, <5>1, <5>2
      <4>4. k = Len(T)
        BY <3>2, <4>2, <4>3
      <4>5. T[Len(T)].epoch = current_epoch
        BY <2>2, <3>1, <4>1, <4>4
      <4>6. T # << >>
        BY <4>2
      <4> QED BY <4>5, <4>6
    <3>7. BaselineWasSent'
      <4>1. \E x \in 1 .. e : last_acked_snapshot' = sent[x]
        BY <3>3
      <4> QED BY <1>2, <2>1, <3>4, <3>6, <4>1 DEF BaselineWasSent, T
    <3>8. StoreOrdered'
      BY <1>2, <3>4, <3>5 DEF StoreOrdered, T
    <3>9. EvictedInOrder'
      <4>1. \A x \in e + 1 .. current_epoch :
              \/ \E k \in DOMAIN T : T[k].epoch = x
              \/ \A k \in DOMAIN T : T[k].epoch > x
        <5> TAKE x \in e + 1 .. current_epoch
        <5>1. x \in last_acked_epoch + 1 .. current_epoch /\ x > e
          BY <1>1, <1>4
        <5>2. CASE \A i \in DOMAIN S : S[i].epoch > x
          BY <3>1, <3>4, <5>2
        <5>3. CASE \E i \in DOMAIN S : S[i].epoch = x
          BY <3>1, <5>1, <5>3
        <5> QED BY <5>1, <5>2, <5>3 DEF StoreInv, EvictedInOrder
      <4> QED BY <1>2, <2>1, <4>1 DEF EvictedInOrder, T
    <3>10. NewestBaseline'
      BY <1>2, <2>1, <3>3 DEF NewestBaseline
    <3> QED BY <3>7, <3>8, <3>9, <3>10 DEF StoreInv
  <2> QED BY <2>1, <2>4, <2>5, AckStore
<1> QED BY <1>1, <1>3, <1>4

(* Every step keeps the store.                                             *)
LEMMA NextBaseline == TypeInv /\ EpochInv /\ StoreInv /\ [Next]_vars => StoreInv'
<1> SUFFICES ASSUME TypeInv, EpochInv, StoreInv, [Next]_vars
             PROVE  StoreInv'
  OBVIOUS
<1>1. CASE UNCHANGED <<current_epoch, last_acked_epoch, last_acked_snapshot,
                       epoch_snapshots, sent>>
  BY <1>1 DEF StoreInv, BaselineWasSent, StoreOrdered, EvictedInOrder, NewestBaseline
<1>2. CASE TickSends \/ TickTooLarge
  BY <1>2, TickBaseline DEF TickSends, TickTooLarge
<1>3. CASE \E e \in toServer : RecvAck(e)
  BY <1>3, AckBaseline
<1> QED
  BY <1>1, <1>2, <1>3
  DEF Next, vars, syncVars, GridChanges, TickSkips, ServePage, DatagramEnds, LoseDiff,
      DiscardStale, SuppressDiff, ApplyDiff, EnterScrollback, Prefetch, RecvPage, SnapBack

(* The store is empty at the start.                                        *)
LEMMA InitBaseline == Init => StoreInv
  BY DEF Init, StoreInv, BaselineWasSent, StoreOrdered, EvictedInOrder, NewestBaseline

(* The baseline of the diffs is a grid as it was sent with an epoch the    *)
(* client acknowledged, whatever was evicted, lost or reordered, and the   *)
(* acknowledgement of the newest epoch always finds its snapshot.          *)
THEOREM Baselines == Spec => []BaselineWasSent
<1>1. StoreInv => BaselineWasSent
  BY DEF StoreInv
<1> QED
  BY <1>1, InitEpochs, NextEpochs, InitTypes, NextTypes, InitBaseline, NextBaseline, PTL DEF Spec

-----------------------------------------------------------------------------
(* The screen.  Without suppressed diffs, the client has applied whatever  *)
(* it acknowledges, and something at least as new.                         *)
AckedWasApplied == \A e \in toServer \cup {last_acked_epoch} : e <= last_applied_epoch

(* Without a divided diff no run is deferred.                              *)
NoneDeferred == DOMAIN pending_deferred = {}

(* A datagram turns any grid from its baseline b on into its own: the      *)
(* cells it leaves out are those of b, and b is not newer than the screen. *)
Fits(d) ==
  \E b \in 0 .. last_applied_epoch :
    /\ b <= d.epoch
    /\ \A c \in Cells :
         IF c \in DOMAIN d.runs
         THEN d.runs[c] = sent[d.epoch][c]
         ELSE b > 0 /\ sent[b][c] = sent[d.epoch][c]

DiffsFit == \A d \in toClient : Fits(d)

DisplayInv ==
  /\ whole => AckedWasApplied /\ NoneDeferred /\ DiffsFit
  /\ ScreenIsSnapshot

(* History only grows: what returned before has still returned.            *)
LEMMA NoReturnBefore ==
  ASSUME TypeInv, BuildDiff, NoReturn'
  PROVE  NoReturn
<1>1. /\ current_epoch \in Nat /\ current_epoch' \in {current_epoch, current_epoch + 1}
      /\ \A e \in 1 .. current_epoch : sent'[e] = sent[e]
  BY TickEpoch, SMTT(40) DEF TypeInv, TypeOK
<1>2. 1 .. current_epoch \subseteq 1 .. current_epoch'
  BY <1>1
<1> SUFFICES ASSUME NEW c \in Cells, NEW i \in 1 .. current_epoch,
                    NEW j \in 1 .. current_epoch, NEW k \in 1 .. current_epoch,
                    i < j, j < k, sent[i][c] = sent[k][c]
             PROVE  sent[j][c] = sent[i][c]
  BY DEF NoReturn
<1>3. sent'[i][c] = sent'[k][c] /\ sent'[j][c] = sent[j][c] /\ sent'[i][c] = sent[i][c]
  BY <1>1
<1>4. sent'[j][c] = sent'[i][c]
  BY <1>2, <1>3 DEF NoReturn
<1> QED BY <1>3, <1>4

(* The datagram of an undivided tick shows the cells that differ from the  *)
(* baseline, as they are in the grid.                                      *)
LEMMA TickShows ==
  ASSUME TypeInv, NoneDeferred, TickRuns = pending_deferred \o compute_diff_runs,
         NEW is \in SUBSET DOMAIN TickRuns,
         \A i \in DOMAIN TickRuns : \E j \in is : TickRuns[i].cell = TickRuns[j].cell,
         NEW c \in Cells
  PROVE  \/ c \in DOMAIN RunsOf(TickRuns, is) /\ RunsOf(TickRuns, is)[c] = grid[c]
         \/ /\ c \notin DOMAIN RunsOf(TickRuns, is)
            /\ last_acked_snapshot # NoGrid /\ last_acked_snapshot[c] = grid[c]
<1> DEFINE D == compute_diff_runs
<1>1. grid \in Grids /\ pending_deferred \in Seq(Runs)
  BY DEF TypeInv, TypeOK
<1>2. /\ D \in Seq(Runs)
      /\ \A k \in DOMAIN D : D[k].val = grid[D[k].cell]
      /\ (last_acked_snapshot = NoGrid \/ last_acked_snapshot[c] # grid[c])
         => \E k \in DOMAIN D : D[k].cell = c
  BY <1>1, DiffRuns
<1> HIDE DEF D
<1>3. TickRuns = D
  <2>1. pending_deferred = << >>
    BY <1>1 DEF NoneDeferred
  <2>2. TickRuns = << >> \o D
    BY <2>1 DEF D
  <2>3. PICK E \in Seq(Runs) : E = D
    BY <1>2
  <2>4. << >> \o E = E
    OBVIOUS
  <2> QED BY <2>2, <2>3, <2>4
<1>4. PICK r : r = RunsOf(TickRuns, is)
  OBVIOUS
<1>5. /\ DOMAIN r = {D[i].cell : i \in is}
      /\ \A x \in DOMAIN r : \E i \in is : D[i].cell = x /\ r[x] = D[i].val
  <2>1. r = RunsOf(D, is) /\ is \in SUBSET DOMAIN D
    BY <1>3, <1>4
  <2>2. /\ DOMAIN RunsOf(D, is) = {D[i].cell : i \in is}
        /\ \A x \in DOMAIN RunsOf(D, is) :
             \E i \in is : D[i].cell = x /\ RunsOf(D, is)[x] = D[i].val
    BY <1>2, <2>1, ShownRun
  <2> QED BY <2>1, <2>2
<1>6. \A i \in DOMAIN D : D[i].cell \in DOMAIN r
  BY <1>3, <1>5
<1>7. c \in DOMAIN r => r[c] = grid[c]
  <2> SUFFICES ASSUME c \in DOMAIN r PROVE r[c] = grid[c]
    OBVIOUS
  <2>1. PICK i \in is : D[i].cell = c /\ r[c] = D[i].val
    BY <1>5, Zenon
  <2>2. i \in DOMAIN D
    BY <1>3
  <2> QED BY <1>2, <2>1, <2>2, Zenon
<1>8. c \notin DOMAIN r => last_acked_snapshot # NoGrid /\ last_acked_snapshot[c] = grid[c]
  BY <1>2, <1>6
<1> QED BY <1>4, <1>7, <1>8

(* The datagram of a tick: either the cell is there, as in the grid, or    *)
(* the cell is as in the baseline.                                         *)
Shows(r, c) ==
  \/ c \in DOMAIN r /\ r[c] = grid[c]
  \/ /\ c \notin DOMAIN r
     /\ last_acked_snapshot # NoGrid /\ last_acked_snapshot[c] = grid[c]

(* The datagram of a tick that fits into one brings any screen between its *)
(* baseline and the new epoch to the new epoch's grid.                     *)
LEMMA NewFits ==
  ASSUME TypeInv, EpochInv, StoreInv, AckedWasApplied, BuildDiff,
         NEW r, \A c \in Cells : Shows(r, c),
         NEW d, d = StateDiff(NextEpoch, r)
  PROVE  Fits(d)'
<1>1. PICK n : n = NextEpoch
  OBVIOUS
<1>3. d.epoch = n /\ d.runs = r
  BY <1>1 DEF StateDiff
<1>4. /\ current_epoch' = n /\ n \in Nat \ {0} /\ n \in {current_epoch, current_epoch + 1}
      /\ sent'[n] = grid
      /\ \A e \in 1 .. current_epoch : sent'[e] = sent[e]
  BY <1>1, TickEpoch
<1>5. /\ current_epoch \in Nat /\ last_acked_epoch \in Nat /\ last_applied_epoch \in Nat
      /\ last_acked_epoch <= current_epoch /\ last_applied_epoch <= current_epoch
      /\ last_acked_epoch <= last_applied_epoch
      /\ last_applied_epoch' = last_applied_epoch
  BY Numbers DEF AckedWasApplied, BuildDiff, screenVars
<1>6. PICK b \in 0 .. last_acked_epoch :
        /\ last_acked_snapshot # NoGrid => b > 0 /\ last_acked_snapshot = sent[b]
  <2>1. CASE last_acked_snapshot = NoGrid
    <3>1. 0 \in 0 .. last_acked_epoch
      BY <1>5
    <3> QED BY <2>1, <3>1
  <2>2. CASE last_acked_snapshot # NoGrid
    <3>1. PICK b \in 1 .. last_acked_epoch : last_acked_snapshot = sent[b]
      BY <2>2 DEF StoreInv, BaselineWasSent
    <3>2. b \in 0 .. last_acked_epoch /\ b > 0
      BY <1>5
    <3> QED BY <3>1, <3>2
  <2> QED BY <2>1, <2>2
<1>7. b \in 0 .. last_applied_epoch' /\ b <= n /\ b \in Nat /\ b <= current_epoch
  BY <1>4, <1>5, <1>6
<1>8. \A c \in Cells :
        IF c \in DOMAIN r
        THEN r[c] = sent'[n][c]
        ELSE b > 0 /\ sent'[b][c] = sent'[n][c]
  <2> TAKE c \in Cells
  <2>1. CASE c \in DOMAIN r /\ r[c] = grid[c]
    BY <1>4, <2>1
  <2>2. CASE /\ c \notin DOMAIN r
             /\ last_acked_snapshot # NoGrid /\ last_acked_snapshot[c] = grid[c]
    <3>1. b > 0 /\ sent[b][c] = grid[c]
      BY <1>6, <2>2
    <3>2. b \in 1 .. current_epoch /\ sent'[b] = sent[b]
      BY <1>4, <1>7, <3>1
    <3> QED BY <1>4, <2>2, <3>1, <3>2
  <2> QED BY <2>1, <2>2 DEF Shows
<1>9. \E x \in 0 .. last_applied_epoch' :
        /\ x <= d.epoch
        /\ \A c \in Cells :
             IF c \in DOMAIN d.runs
             THEN d.runs[c] = sent'[d.epoch][c]
             ELSE x > 0 /\ sent'[x][c] = sent'[d.epoch][c]
  BY <1>3, <1>7, <1>8
<1> QED BY <1>9 DEF Fits

(* A tick leaves the datagrams under way fitting.                          *)
LEMMA OldFits ==
  ASSUME TypeInv, EpochInv, BuildDiff, NEW d \in toClient, Fits(d)
  PROVE  Fits(d)'
<1>1. /\ current_epoch \in Nat /\ last_applied_epoch \in Nat
      /\ last_applied_epoch <= current_epoch /\ last_applied_epoch' = last_applied_epoch
  BY Numbers DEF BuildDiff, screenVars
<1>2. \A e \in 1 .. current_epoch : sent'[e] = sent[e]
  BY TickEpoch
<1>3. d.epoch \in 1 .. current_epoch
  BY DEF EpochInv, EpochsBounded, TypeInv, TypeOK
<1>4. PICK b \in 0 .. last_applied_epoch :
        /\ b <= d.epoch
        /\ \A c \in Cells :
             IF c \in DOMAIN d.runs
             THEN d.runs[c] = sent[d.epoch][c]
             ELSE b > 0 /\ sent[b][c] = sent[d.epoch][c]
  BY DEF Fits
<1>5. sent'[d.epoch] = sent[d.epoch]
  BY <1>2, <1>3
<1>6. b > 0 => sent'[b] = sent[b]
  BY <1>1, <1>2
<1>8. \A c \in Cells :
        IF c \in DOMAIN d.runs
        THEN d.runs[c] = sent'[d.epoch][c]
        ELSE b > 0 /\ sent'[b][c] = sent'[d.epoch][c]
  BY <1>4, <1>5, <1>6
<1>9. b \in 0 .. last_applied_epoch'
  BY <1>1
<1> QED BY <1>4, <1>8, <1>9 DEF Fits

(* A tick does not touch the screen, nor the grid of the epoch it shows.   *)
LEMMA TickKeepsScreen ==
  ASSUME TypeInv, EpochInv, ScreenIsSnapshot, BuildDiff, whole' => whole
  PROVE  ScreenIsSnapshot'
<1>1. UNCHANGED <<screen, last_applied_epoch>>
  BY DEF BuildDiff, screenVars
<1>2. /\ current_epoch \in Nat /\ last_applied_epoch \in Nat
      /\ last_applied_epoch <= current_epoch
  BY Numbers
<1>3. last_applied_epoch > 0 => sent'[last_applied_epoch] = sent[last_applied_epoch]
  BY <1>2, TickEpoch
<1>4. NoReturn' => NoReturn
  BY NoReturnBefore
<1> QED BY <1>1, <1>3, <1>4 DEF ScreenIsSnapshot

(* An undivided tick: one datagram, and nothing is deferred.               *)
LEMMA OneDatagram ==
  ASSUME TypeInv, TickSends, whole', NoneDeferred
  PROVE  /\ \E r : /\ \A c \in Cells : Shows(r, c)
                   /\ \A d \in toClient' : d \in toClient \/ d = StateDiff(NextEpoch, r)
         /\ NoneDeferred'
<1>1. /\ grid \in Grids /\ pending_deferred \in Seq(Runs)
      /\ BurstCap \in Nat \ {0} /\ LeftOver # 1
  BY StateSyncAssumption DEF TypeInv, TypeOK, LeftOver
<1>2. PICK packing, visible :
        /\ visible \in Visible(TickRuns, packing)
        /\ toClient' = toClient \cup Datagrams(NextEpoch, TickRuns, packing, visible)
        /\ pending_deferred' = RunsIn(TickRuns, packing, {LeftOver})
        /\ whole' = (/\ whole
                     /\ \A i \in DOMAIN TickRuns : packing[i] = 1
                     /\ Len(pending_deferred \o compute_diff_runs) <= MaxRuns)
  BY Zenon DEF TickSends
<1>3. /\ \A i \in DOMAIN TickRuns : packing[i] = 1
      /\ Len(pending_deferred \o compute_diff_runs) <= MaxRuns
  BY <1>2
<1>4. TickRuns = pending_deferred \o compute_diff_runs /\ TickRuns \in Seq(Runs)
  BY <1>1, <1>3, RunsOfTick
<1>5. NoneDeferred'
  <2>1. \A k \in DOMAIN RunsIn(TickRuns, packing, {LeftOver}) :
          \E i \in DOMAIN TickRuns : packing[i] \in {LeftOver}
    BY <1>4, RunsInTick
  <2>2. \A k \in DOMAIN pending_deferred' : FALSE
    BY <1>1, <1>2, <1>3, <2>1
  <2> QED BY <2>2 DEF NoneDeferred
<1>6. /\ visible \in SUBSET DOMAIN TickRuns
      /\ \A i \in DOMAIN TickRuns : \E j \in visible : TickRuns[i].cell = TickRuns[j].cell
  BY <1>2, Zenon DEF Visible
<1>7. \A c \in Cells : Shows(RunsOf(TickRuns, visible), c)
  BY <1>4, <1>6, TickShows DEF Shows
<1>8. \A d \in Datagrams(NextEpoch, TickRuns, packing, visible) :
        d = StateDiff(NextEpoch, RunsOf(TickRuns, visible))
  <2> TAKE d \in Datagrams(NextEpoch, TickRuns, packing, visible)
  <2>1. PICK k \in {1} \cup ({packing[i] : i \in DOMAIN TickRuns} \ {LeftOver}) :
          d = StateDiff(NextEpoch, RunsOf(TickRuns, {i \in visible : packing[i] = k}))
    BY Zenon DEF Datagrams
  <2>2. k = 1
    BY <1>3, <2>1
  <2>3. {i \in visible : packing[i] = k} = visible
    BY <1>3, <1>6, <2>2
  <2> QED BY <2>1, <2>3
<1> QED BY <1>2, <1>5, <1>7, <1>8

(* A tick that sends keeps the screen's invariant.                         *)
LEMMA TickSendsDisplay ==
  ASSUME TypeInv, EpochInv, StoreInv, DisplayInv, TickSends
  PROVE  DisplayInv'
<1>1. BuildDiff
  BY DEF TickSends
<1>2. /\ UNCHANGED <<last_acked_epoch, toServer, screen, last_applied_epoch>>
      /\ current_epoch \in Nat /\ last_applied_epoch \in Nat
      /\ last_applied_epoch <= current_epoch
  BY <1>1, Numbers DEF BuildDiff, screenVars
<1>3. CASE ~whole'
  BY <1>3 DEF DisplayInv, ScreenIsSnapshot
<1>4. CASE whole'
  <2>1. AckedWasApplied /\ NoneDeferred /\ DiffsFit
    <3>1. whole
      BY <1>4 DEF TickSends
    <3> QED BY <3>1 DEF DisplayInv
  <2>2. /\ \E r : /\ \A c \in Cells : Shows(r, c)
                  /\ \A d \in toClient' : d \in toClient \/ d = StateDiff(NextEpoch, r)
        /\ NoneDeferred'
    BY <1>4, <2>1, OneDatagram
  <2>3. AckedWasApplied'
    BY <1>2, <2>1 DEF AckedWasApplied
  <2>5. DiffsFit'
    <3> SUFFICES ASSUME NEW d \in toClient' PROVE Fits(d)'
      BY DEF DiffsFit
    <3>1. CASE d \in toClient
      BY <1>1, <2>1, <3>1, OldFits DEF DiffsFit
    <3>2. CASE d \notin toClient
      <4>1. PICK r : (\A c \in Cells : Shows(r, c)) /\ d = StateDiff(NextEpoch, r)
        BY <2>2, <3>2
      <4> QED BY <1>1, <2>1, <4>1, NewFits
    <3> QED BY <3>1, <3>2
  <2>6. ScreenIsSnapshot'
    BY <1>1, TickKeepsScreen DEF DisplayInv, TickSends
  <2> QED BY <2>2, <2>3, <2>5, <2>6 DEF DisplayInv
<1> QED BY <1>3, <1>4

(* A refused tick that would have fitted into one datagram defers nothing. *)
LEMMA TickTooLargeDisplay ==
  ASSUME TypeInv, EpochInv, StoreInv, DisplayInv, TickTooLarge
  PROVE  DisplayInv'
<1>1. BuildDiff /\ UNCHANGED toClient /\ (whole' => whole)
  BY DEF TickTooLarge
<1>2. UNCHANGED <<last_acked_epoch, toServer, screen, last_applied_epoch>>
  BY <1>1 DEF BuildDiff, screenVars
<1>3. ScreenIsSnapshot'
  BY <1>1, TickKeepsScreen DEF DisplayInv
<1>4. CASE ~whole'
  BY <1>3, <1>4 DEF DisplayInv
<1>5. CASE whole'
  <2>1. AckedWasApplied /\ NoneDeferred /\ DiffsFit
    BY <1>1, <1>5 DEF DisplayInv
  <2>2. AckedWasApplied'
    BY <1>2, <2>1 DEF AckedWasApplied
  <2>3. DiffsFit'
    <3> SUFFICES ASSUME NEW d \in toClient PROVE Fits(d)'
      BY <1>1 DEF DiffsFit
    <3> QED BY <1>1, <2>1, OldFits DEF DiffsFit
  <2>4. NoneDeferred'
    <3>1. grid \in Grids /\ pending_deferred \in Seq(Runs)
      BY DEF TypeInv, TypeOK
    <3>2. TickRuns \in Seq(Runs)
      BY <3>1, RunsOfTick
    <3>3. PICK packing \in Encodings(TickRuns) :
            /\ pending_deferred' = RunsIn(TickRuns, packing, 2 .. LeftOver)
            /\ whole' = (whole /\ \A i \in DOMAIN TickRuns : packing[i] = 1)
      BY Zenon DEF TickTooLarge
    <3>4. \A i \in DOMAIN TickRuns : packing[i] = 1
      BY <1>5, <3>3
    <3>5. \A k \in DOMAIN RunsIn(TickRuns, packing, 2 .. LeftOver) :
            \E i \in DOMAIN TickRuns : packing[i] \in 2 .. LeftOver
      BY <3>2, RunsInTick
    <3>6. \A k \in DOMAIN pending_deferred' : FALSE
      BY <3>3, <3>4, <3>5
    <3> QED BY <3>6 DEF NoneDeferred
  <2> QED BY <1>3, <2>1, <2>2, <2>3, <2>4 DEF DisplayInv
<1> QED BY <1>4, <1>5

(* The client applies a datagram: the cells it has come from it, the       *)
(* others have not changed since its baseline, hence not since the epoch   *)
(* on the screen.                                                          *)
LEMMA ApplyDisplay ==
  ASSUME TypeInv, EpochInv, DisplayInv, NEW d \in toClient, ApplyDiff(d)
  PROVE  DisplayInv'
<1>1. /\ d.epoch > last_applied_epoch
      /\ toClient' = toClient \ {d} /\ toServer' = toServer \cup {d.epoch}
      /\ screen' = [c \in Cells |-> IF c \in DOMAIN d.runs THEN d.runs[c] ELSE screen[c]]
      /\ last_applied_epoch' = d.epoch
      /\ UNCHANGED <<current_epoch, last_acked_epoch, pending_deferred, sent, whole>>
  BY DEF ApplyDiff, Fresh, syncVars
<1>2. /\ current_epoch \in Nat /\ last_applied_epoch \in Nat /\ d.epoch \in 1 .. current_epoch
      /\ sent \in Seq(Grids) /\ Len(sent) = current_epoch
      /\ last_acked_epoch \in Nat
      /\ \A e \in toServer : e \in Nat
  BY Numbers DEF EpochInv, EpochsBounded, TypeInv, TypeOK
<1>3. CASE ~whole
  BY <1>1, <1>3 DEF DisplayInv, ScreenIsSnapshot
<1>4. CASE whole
  <2>1. AckedWasApplied /\ NoneDeferred /\ DiffsFit
    BY <1>4 DEF DisplayInv
  <2>2. AckedWasApplied'
    BY <1>1, <1>2, <2>1 DEF AckedWasApplied
  <2>3. NoneDeferred'
    BY <1>1, <2>1 DEF NoneDeferred
  <2>4. NoReturn' <=> NoReturn
    BY <1>1 DEF NoReturn
  <2>5. 0 .. last_applied_epoch \subseteq 0 .. last_applied_epoch'
    BY <1>1, <1>2
  <2>6. DiffsFit'
    BY <1>1, <2>1, <2>4, <2>5 DEF DiffsFit, Fits
  <2>7. ScreenIsSnapshot'
    <3> SUFFICES ASSUME NoReturn PROVE screen' = sent[d.epoch]
      BY <1>1, <2>4 DEF ScreenIsSnapshot
    <3>1. PICK b \in 0 .. last_applied_epoch :
            /\ b <= d.epoch
            /\ \A c \in Cells :
                 IF c \in DOMAIN d.runs
                 THEN d.runs[c] = sent[d.epoch][c]
                 ELSE b > 0 /\ sent[b][c] = sent[d.epoch][c]
      BY <2>1 DEF DiffsFit, Fits
    <3>2. \A c \in Cells : screen'[c] = sent[d.epoch][c]
      <4> TAKE c \in Cells
      <4>1. CASE c \in DOMAIN d.runs
        BY <1>1, <3>1, <4>1
      <4>2. CASE c \notin DOMAIN d.runs
        <5>1. screen'[c] = screen[c] /\ b > 0 /\ sent[b][c] = sent[d.epoch][c]
          BY <1>1, <3>1, <4>2
        <5>2. last_applied_epoch > 0 /\ b <= last_applied_epoch
          BY <1>2, <5>1
        <5>3. screen = sent[last_applied_epoch]
          BY <1>4, <5>2 DEF DisplayInv, ScreenIsSnapshot
        <5>4. /\ b \in 1 .. current_epoch /\ last_applied_epoch \in 1 .. current_epoch
              /\ last_applied_epoch < d.epoch
          BY <1>1, <1>2, <5>1, <5>2
        <5>5. sent[last_applied_epoch][c] = sent[b][c]
          <6>1. CASE b = last_applied_epoch
            BY <6>1
          <6>2. CASE b < last_applied_epoch
            BY <1>2, <5>1, <5>4, <6>2 DEF NoReturn
          <6> QED BY <1>2, <5>2, <5>4, <6>1, <6>2
        <5> QED BY <5>1, <5>3, <5>5
      <4> QED BY <4>1, <4>2
    <3>3. sent[d.epoch] \in [Cells -> Values]
      BY <1>2 DEF Grids
    <3>4. screen' = [c \in Cells |-> screen'[c]]
      BY <1>1
    <3> QED BY <3>2, <3>3, <3>4
  <2> QED BY <2>2, <2>3, <2>6, <2>7 DEF DisplayInv
<1> QED BY <1>3, <1>4

(* Lost, discarded and suppressed datagrams.                               *)
LEMMA DropDisplay ==
  ASSUME DisplayInv, NEW d \in toClient, LoseDiff(d) \/ DiscardStale(d) \/ SuppressDiff(d)
  PROVE  DisplayInv'
<1>1. /\ toClient' \subseteq toClient
      /\ UNCHANGED <<current_epoch, last_acked_epoch, pending_deferred, sent>>
      /\ UNCHANGED <<screen, last_applied_epoch>>
      /\ ~whole' \/ UNCHANGED <<whole, toServer>>
  BY DEF LoseDiff, DiscardStale, SuppressDiff, syncVars, screenVars
<1>2. NoReturn' <=> NoReturn
  BY <1>1 DEF NoReturn
<1>3. CASE ~whole'
  BY <1>3 DEF DisplayInv, ScreenIsSnapshot
<1>4. CASE UNCHANGED <<whole, toServer>>
  <2>1. ScreenIsSnapshot'
    BY <1>1, <1>2, <1>4 DEF DisplayInv, ScreenIsSnapshot
  <2>2. whole' => AckedWasApplied' /\ NoneDeferred'
    BY <1>1, <1>4 DEF DisplayInv, AckedWasApplied, NoneDeferred
  <2>3. whole' => DiffsFit'
    BY <1>1, <1>2, <1>4 DEF DisplayInv, DiffsFit, Fits
  <2> QED BY <2>1, <2>2, <2>3 DEF DisplayInv
<1> QED BY <1>1, <1>3, <1>4

(* An acknowledgement moves from the network into last_acked_epoch.        *)
LEMMA AckDisplay ==
  ASSUME DisplayInv, NEW e \in toServer, RecvAck(e)
  PROVE  DisplayInv'
<1>1. /\ toServer' \subseteq toServer /\ last_acked_epoch' \in {last_acked_epoch, e}
      /\ UNCHANGED <<current_epoch, pending_deferred, sent, toClient>>
      /\ UNCHANGED <<screen, last_applied_epoch, whole>>
  BY DEF RecvAck, screenVars
<1>2. NoReturn' <=> NoReturn
  BY <1>1 DEF NoReturn
<1>3. ScreenIsSnapshot'
  BY <1>1, <1>2 DEF DisplayInv, ScreenIsSnapshot
<1>4. whole' => AckedWasApplied'
  BY <1>1 DEF DisplayInv, AckedWasApplied
<1>5. whole' => NoneDeferred'
  BY <1>1 DEF DisplayInv, NoneDeferred
<1>6. whole' => DiffsFit'
  BY <1>1, <1>2 DEF DisplayInv, DiffsFit, Fits
<1> QED BY <1>3, <1>4, <1>5, <1>6 DEF DisplayInv

(* The other steps change nothing the screen depends on; a skipped tick    *)
(* forgets what was deferred.                                              *)
LEMMA OtherDisplay ==
  ASSUME DisplayInv,
         \/ GridChanges \/ TickSkips \/ ServePage \/ EnterScrollback \/ Prefetch
         \/ RecvPage \/ SnapBack \/ UNCHANGED vars
  PROVE  DisplayInv'
<1>1. /\ UNCHANGED <<current_epoch, last_acked_epoch, sent, toClient, toServer>>
      /\ UNCHANGED <<screen, last_applied_epoch, whole>>
      /\ UNCHANGED pending_deferred \/ pending_deferred' = << >>
  BY DEF GridChanges, TickSkips, ServePage, EnterScrollback, Prefetch, RecvPage, SnapBack,
         vars, syncVars, screenVars
<1>2. NoReturn' <=> NoReturn
  BY <1>1 DEF NoReturn
<1>3. ScreenIsSnapshot'
  BY <1>1, <1>2 DEF DisplayInv, ScreenIsSnapshot
<1>4. whole' => AckedWasApplied'
  BY <1>1 DEF DisplayInv, AckedWasApplied
<1>5. whole' => NoneDeferred'
  BY <1>1 DEF DisplayInv, NoneDeferred
<1>6. whole' => DiffsFit'
  BY <1>1, <1>2 DEF DisplayInv, DiffsFit, Fits
<1> QED BY <1>3, <1>4, <1>5, <1>6 DEF DisplayInv

(* Every step keeps the screen's invariant.                                *)
LEMMA NextDisplay ==
  TypeInv /\ EpochInv /\ StoreInv /\ DisplayInv /\ [Next]_vars => DisplayInv'
<1> SUFFICES ASSUME TypeInv, EpochInv, StoreInv, DisplayInv, [Next]_vars
             PROVE  DisplayInv'
  OBVIOUS
<1>1. CASE DatagramEnds
  BY <1>1, ApplyDisplay, DropDisplay DEF DatagramEnds
<1>2. CASE \E e \in toServer : RecvAck(e)
  BY <1>2, AckDisplay
<1>3. CASE TickSends \/ TickTooLarge
  BY <1>3, TickSendsDisplay, TickTooLargeDisplay
<1> QED BY <1>1, <1>2, <1>3, OtherDisplay DEF Next

(* Nothing is applied at the start.                                        *)
LEMMA InitDisplay == Init => DisplayInv
  BY DEF Init, DisplayInv, ScreenIsSnapshot, AckedWasApplied, NoneDeferred, DiffsFit

IInv == TypeInv /\ EpochInv /\ StoreInv /\ DisplayInv

(* All four parts hold together.                                           *)
THEOREM Invariance == Spec => []IInv
<1>1. Init => IInv
  BY InitTypes, InitEpochs, InitBaseline, InitDisplay DEF IInv
<1>2. IInv /\ [Next]_vars => IInv'
  BY NextTypes, NextEpochs, NextBaseline, NextDisplay DEF IInv
<1> QED BY <1>1, <1>2, PTL DEF Spec

(* As long as no diff was split, cut or acknowledged unapplied and no cell *)
(* returned to an earlier value, the screen is the grid of the epoch last  *)
(* applied, whatever datagrams and acknowledgements were lost or overtaken. *)
THEOREM Screens == Spec => []ScreenIsSnapshot
<1>1. IInv => ScreenIsSnapshot
  BY DEF IInv, DisplayInv
<1> QED BY <1>1, Invariance, PTL
=============================================================================
