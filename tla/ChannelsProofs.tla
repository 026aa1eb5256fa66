--------------------------- MODULE ChannelsProofs ---------------------------
(***************************************************************************)
(* Proofs about Channels, for every window, chunk, page size, history and  *)
(* queue capacity the assumption admits.  The invariant has four parts:    *)
(* types, the phases of the channel's life, the requests and pages under   *)
(* way, and the credit.                                                    *)
(***************************************************************************)
EXTENDS Channels, FiniteSetTheorems, FunctionTheorems, TLAPS

Frames(ts) == [t : ts, n : Nat]
Pages == [lines : Seq(Nat), total : Nat, size : Nat \ {0}]
Reads == {"aligned", "partial", "torn"}
Views == [active : BOOLEAN, held : Seq(Nat), pending : BOOLEAN, total : Nat]
Drains == [pc : {"off", "loop", "grant", "flush", "finish", "report", "gone"},
           drained : Nat, grant : Nat]
Tasks == [pc : {"off", "bind", "serve", "wait", "write", "finish", "report", "gone"},
          credit : Nat, page : Pages \cup {NoPage}]

ClientTypes ==
  /\ cpump \in {"start", "opening", "run", "done"}
  /\ drain \in Drains
  /\ reqq \in Seq(Nat) /\ pageq \in Seq(Pages)
  /\ cctrl \in Seq(Frames({"ScrollbackCredit", "ChannelClose"}))
  /\ view \in Views
  /\ pageups \in Nat /\ reentered \in BOOLEAN
  /\ pageRead \in Reads /\ entered \in Nat

StreamTypes ==
  /\ c2s \in Seq(Frames({"ChannelOpen", "ScrollbackCredit", "ChannelClose"}))
  /\ s2c \in Seq(Frames({"ChannelAccept", "ChannelReject", "ChannelClose"}))
  /\ up \in Seq(Nat) /\ down \in Seq(Pages)
  /\ bound \in {"none", "flight", "bound", "reset"}
  /\ upEOF \in BOOLEAN /\ downEOF \in BOOLEAN

ServerTypes ==
  /\ spump \in {"run", "ChannelClose", "ended"}
  /\ mapped \in BOOLEAN
  /\ task \in Tasks
  /\ task.pc \in {"wait", "write"} => task.page \in Pages
  /\ evq \in Seq(Frames({"Stream", "ScrollbackCredit", "ChannelClose"}))
  /\ sctrl \in Seq(Frames({"ChannelClose"}))
  /\ reqRead \in Reads /\ printed \in Nat /\ dropped \in 0 .. printed

TypeInv == ClientTypes /\ StreamTypes /\ ServerTypes

\* The task has not begun to end.
Working == task.pc \in {"off", "bind", "serve", "wait", "write"}

\* The drain task has not begun to end.
Draining == drain.pc \in {"off", "loop", "grant"}

Has(q, t) == \E i \in DOMAIN q : q[i].t = t

\* The two pumps end together, and the view with them.
PumpInv ==
  /\ cpump = "done" <=> Ended
  /\ Ended => ~view.active

\* Until ChannelAccept arrives the client only waits for it.
OffInv ==
  /\ cpump \in {"start", "opening"} => drain.pc = "off"
  /\ drain.pc = "off" => bound = "none" /\ up = <<>> /\ cctrl = <<>> /\ ~view.active

\* The client sends one ChannelOpen, and until it is accepted nothing else.
OpenInv ==
  /\ cpump = "start" => c2s = <<>> /\ task.pc = "off"
  /\ task.pc = "off" => /\ drain.pc = "off" /\ ~mapped
                        /\ c2s \in {<<>>, <<Open>>}
                        /\ \A i \in DOMAIN s2c : s2c[i] # Accept
  /\ task.pc # "off" => ~Has(c2s, "ChannelOpen")

\* While the task works and no page was read in part and dropped nothing ends but with the
\* session: its map entry stays, the stream is not reset, the drain task goes on and no
\* close is under way.
WorkInv ==
  /\ Working /\ ~Ended /\ pageRead # "torn" =>
       /\ Draining /\ spump = "run"
       /\ bound # "reset" /\ ~downEOF /\ ~upEOF
       /\ task.pc # "off" => mapped
  /\ Draining => ~Has(cctrl, "ChannelClose") /\ ~Has(c2s, "ChannelClose")
  /\ task.pc # "gone" => sctrl = <<>>

\* The task's queue: its stream once, while it waits for it, and credits afterwards.
QueueInv ==
  /\ task.pc = "off" => evq = <<>>
  /\ task.pc = "bind" => evq = IF bound = "bound" THEN <<Stream>> ELSE <<>>
  /\ Serving /\ pageRead # "torn" => \A i \in DOMAIN evq : evq[i].t = "ScrollbackCredit"
  /\ Serving \/ (task.pc \notin {"off", "bind"} /\ ~Ended) => bound = "bound"

PhaseInv == PumpInv /\ OffInv /\ OpenInv /\ WorkInv /\ QueueInv

\* A page is held by the task only between the request and its end.
PageInv == task.pc \in {"off", "bind", "serve", "gone"} => task.page = NoPage

\* Before the user first pages up nothing was asked for.
ViewInv ==
  /\ ~view.active => view = Live
  /\ pageups = 0 => /\ ~view.active /\ ~reentered /\ task.page = NoPage
                    /\ reqq = <<>> /\ up = <<>> /\ down = <<>> /\ pageq = <<>>

\* The view was entered with what had been printed by then.
HistoryInv == entered <= printed

\* A page is read in part only while it is on the stream.
ReadInv == pageRead = "partial" => down # <<>>

\* Requests and pages under way, and that the requests ask for what comes before the lines
\* held and the pages go before them.
Count(b) == IF b THEN 1 ELSE 0
UnderWay == Len(reqq) + Len(up) + Len(down) + Len(pageq) + Count(task.page # NoPage)
Fits(page, held, old, new) == Tiles(page.lines \o held, old, new)
AllFor(held) ==
  /\ \A i \in DOMAIN reqq : reqq[i] = Len(held)
  /\ \A i \in DOMAIN up : up[i] = Len(held)
  /\ \A i \in DOMAIN down : Fits(down[i], held, entered, printed)
  /\ \A i \in DOMAIN pageq : Fits(pageq[i], held, entered, printed)
  /\ task.page # NoPage => Fits(task.page, held, entered, printed)

\* Until the view is left and entered again at most one request or page is under way, and
\* it is the one an Active view waits for.
FlowInv ==
  ~reentered /\ reqRead # "torn" =>
    /\ UnderWay <= 1
    /\ view.active => UnderWay <= Count(view.pending) /\ AllFor(view.held)

RequestInv == PageInv /\ ViewInv /\ HistoryInv /\ ReadInv /\ FlowInv /\ PagesArrive

\* The drain task has bytes to grant exactly where it grants them, a chunk at a time
\* until it ends, and keeps less than a chunk.
DrainInv ==
  /\ drain.grant > 0 <=> drain.pc \in {"grant", "flush"}
  /\ drain.pc = "grant" => drain.grant >= Chunk
  /\ drain.drained > 0 => drain.pc = "loop"
  /\ drain.drained < Chunk

\* Before the task has its stream no page was sent, and none read.
Early == task.pc \in {"off", "bind"}
EarlyInv ==
  Early => down = <<>> /\ drain.drained = 0 /\ drain.grant = 0 /\ pageRead = "aligned"

\* Frames other than credits grant nothing; before the task serves there are no credits,
\* and every credit but the drain task's last is worth a chunk.
Fair(m, early, steady) ==
  /\ m.t # "ScrollbackCredit" => m.n = 0
  /\ early => m.n = 0
  /\ steady /\ m.t = "ScrollbackCredit" => m.n >= Chunk
GrantInv ==
  /\ \A i \in DOMAIN cctrl : Fair(cctrl[i], Early, Draining)
  /\ \A i \in DOMAIN c2s : Fair(c2s[i], Early, Draining)
  /\ \A i \in DOMAIN evq : Fair(evq[i], Early, Draining)

\* The task waits for credit, or writes, by the price of its page.
PriceInv ==
  /\ task.pc = "wait" => task.credit < task.page.size
  /\ task.pc = "write" => task.credit >= task.page.size

\* The credit is conserved until the drain task drops a read or begins to end.
SumInv ==
  Serving /\ Draining /\ pageRead # "torn" =>
    task.credit + PageBytes + drain.drained + drain.grant + Granted = Window

CreditInv == DrainInv /\ EarlyInv /\ GrantInv /\ PriceInv /\ SumInv

IInv == TypeInv /\ PhaseInv /\ RequestInv /\ CreditInv

-----------------------------------------------------------------------------
(* Sums.                                                                   *)

\* The units of one element, and of all.
UnitsAt(s, i) == {i} \X (1 .. s[i])
Units(s) == UNION {UnitsAt(s, i) : i \in DOMAIN s}

(* A unit is a position and a place in the element there.                  *)
LEMMA UnitsAre ==
  ASSUME NEW s \in Seq(Nat), NEW u
  PROVE  u \in Units(s) <=> \E i \in DOMAIN s, j \in Nat : j \in 1 .. s[i] /\ u = <<i, j>>
BY DEF Units, UnitsAt

(* A sequence has finitely many units: its sum is a number.                *)
LEMMA SumType ==
  ASSUME NEW s \in Seq(Nat)
  PROVE  IsFiniteSet(Units(s)) /\ Sum(s) = Cardinality(Units(s)) /\ Sum(s) \in Nat
<1>1. DOMAIN s = 1 .. Len(s) /\ Len(s) \in Nat /\ \A i \in DOMAIN s : s[i] \in Nat
  OBVIOUS
<1>2. \A i \in DOMAIN s : IsFiniteSet(UnitsAt(s, i))
  <2> TAKE i \in DOMAIN s
  <2>1. IsFiniteSet({i})
    BY FS_Singleton
  <2>2. IsFiniteSet(1 .. s[i])
    BY <1>1, FS_Interval
  <2> QED BY <2>1, <2>2, FS_Product DEF UnitsAt
<1>3. IsFiniteSet(Units(s))
  <2> DEFINE T == {UnitsAt(s, i) : i \in DOMAIN s}
             f == [i \in DOMAIN s |-> UnitsAt(s, i)]
  <2>1. IsFiniteSet(DOMAIN s)
    BY <1>1, FS_Interval
  <2>2. f \in Surjection(DOMAIN s, T)
    <3>1. f \in [DOMAIN s -> T] /\ \A t \in T : \E i \in DOMAIN s : f[i] = t
      OBVIOUS
    <3> QED BY <3>1, Fun_IsSurj
  <2>3. IsFiniteSet(T)
    <3> HIDE DEF T, f
    <3> QED BY <2>1, <2>2, FS_Surjection
  <2>4. \A t \in T : IsFiniteSet(t)
    BY <1>2
  <2> HIDE DEF T
  <2>5. IsFiniteSet(UNION T)
    BY <2>3, <2>4, FS_UNION
  <2> QED BY <2>5 DEF Units, T
<1>4. Sum(s) = Cardinality(Units(s))
  BY DEF Sum, Units, UnitsAt
<1> QED BY <1>3, <1>4, FS_CardinalityType

(* An empty sequence sums to zero, and so does a sequence of zeros.        *)
LEMMA SumZero ==
  ASSUME NEW s \in Seq(Nat), \A i \in DOMAIN s : s[i] = 0
  PROVE  Sum(s) = 0
<1>1. \A u : u \notin Units(s)
  BY UnitsAre
<1>2. Units(s) = {}
  BY <1>1
<1> QED BY <1>2, SumType, FS_EmptySet

(* One more element at the end adds its value.                             *)
LEMMA SumGrows ==
  ASSUME NEW s \in Seq(Nat), NEW r \in Seq(Nat), NEW n \in Nat
  PROVE  Len(r) = Len(s) + 1 /\ r[Len(s) + 1] = n /\ (\A i \in DOMAIN s : r[i] = s[i])
           => Sum(r) = Sum(s) + n
<1>1. SUFFICES ASSUME Len(r) = Len(s) + 1, r[Len(s) + 1] = n, \A i \in DOMAIN s : r[i] = s[i]
               PROVE  Sum(r) = Sum(s) + n
  OBVIOUS
<1> DEFINE l == Len(s) + 1
           new == {l} \X (1 .. n)
<1>2. /\ r \in Seq(Nat) /\ DOMAIN r = 1 .. l /\ DOMAIN s = 1 .. (l - 1)
      /\ r[l] = n /\ \A i \in DOMAIN s : r[i] = s[i]
      /\ l \in Nat \ {0} /\ l \notin DOMAIN s
  BY <1>1
<1>3. IsFiniteSet(new) /\ Cardinality(new) = n
  <2>1. IsFiniteSet({l}) /\ Cardinality({l}) = 1
    BY FS_Singleton
  <2>2. IsFiniteSet(1 .. n) /\ Cardinality(1 .. n) = n
    BY FS_Interval
  <2>3. IsFiniteSet(new) /\ Cardinality(new) = Cardinality({l}) * Cardinality(1 .. n)
    BY <2>1, <2>2, FS_Product
  <2>4. Cardinality(new) = 1 * n
    BY <2>1, <2>2, <2>3
  <2> QED BY <2>3, <2>4
<1>4. \A u : u \in new <=> \E j \in 1 .. n : u = <<l, j>>
  OBVIOUS
<1> HIDE DEF l, new
<1>5. Units(r) = Units(s) \cup new
  <2>1. ASSUME NEW u \in Units(r) PROVE u \in Units(s) \cup new
    <3>1. PICK i \in DOMAIN r, j \in Nat : j \in 1 .. r[i] /\ u = <<i, j>>
      <4>1. r \in Seq(Nat)
        BY <1>2
      <4> QED BY <2>1, <4>1, UnitsAre
    <3>2. CASE i = l
      BY <1>2, <1>4, <3>1, <3>2
    <3>3. CASE i # l
      <4>1. i \in DOMAIN s
        BY <1>2, <3>1, <3>3
      <4> QED BY <1>2, <3>1, <4>1, UnitsAre
    <3> QED BY <3>2, <3>3
  <2>2. ASSUME NEW u \in Units(s) PROVE u \in Units(r)
    <3>1. PICK i \in DOMAIN s, j \in Nat : j \in 1 .. s[i] /\ u = <<i, j>>
      BY UnitsAre
    <3>2. i \in DOMAIN r /\ j \in 1 .. r[i]
      BY <1>2, <3>1
    <3> QED BY <1>2, <3>1, <3>2, UnitsAre
  <2>3. ASSUME NEW u \in new PROVE u \in Units(r)
    <3>1. PICK j \in 1 .. n : u = <<l, j>>
      BY <1>4
    <3>2. l \in DOMAIN r /\ j \in 1 .. r[l]
      BY <1>2
    <3> QED BY <1>2, <3>1, <3>2, UnitsAre
  <2> QED BY <2>1, <2>2, <2>3
<1>6. Units(s) \cap new = {}
  <2> SUFFICES ASSUME NEW u \in Units(s), u \in new PROVE FALSE
    OBVIOUS
  <2>1. PICK i \in DOMAIN s, j \in Nat : j \in 1 .. s[i] /\ u = <<i, j>>
    BY UnitsAre
  <2>2. PICK k \in 1 .. n : u = <<l, k>>
    BY <1>4
  <2> QED BY <1>2, <2>1, <2>2
<1>7. IsFiniteSet(Units(s)) /\ Sum(s) = Cardinality(Units(s)) /\ Sum(s) \in Nat
  BY SumType
<1>8. Sum(r) = Cardinality(Units(r))
  BY <1>2, SumType
<1>9. Cardinality(Units(r)) = Cardinality(Units(s)) + Cardinality(new) - 0
  <2>1. Cardinality(Units(s) \cup new)
          = Cardinality(Units(s)) + Cardinality(new) - Cardinality(Units(s) \cap new)
    BY <1>3, <1>7, FS_Union
  <2> QED BY <1>5, <1>6, <2>1, FS_EmptySet
<1> QED BY <1>3, <1>7, <1>8, <1>9

(* Taking the first element off takes its value off.                       *)
LEMMA SumShifts ==
  ASSUME NEW s \in Seq(Nat), NEW r \in Seq(Nat), NEW h \in Nat
  PROVE  Len(s) = Len(r) + 1 /\ s[1] = h /\ (\A i \in DOMAIN r : r[i] = s[i + 1])
           => Sum(s) = h + Sum(r)
<1>1. SUFFICES ASSUME Len(s) = Len(r) + 1, s[1] = h, \A i \in DOMAIN r : r[i] = s[i + 1]
               PROVE  Sum(s) = h + Sum(r)
  OBVIOUS
<1>2. /\ r \in Seq(Nat) /\ h \in Nat /\ s[1] = h /\ 1 \in DOMAIN s
      /\ \A i \in DOMAIN r : i \in Nat /\ i + 1 \in DOMAIN s /\ i + 1 # 1 /\ r[i] = s[i + 1]
      /\ \A i \in DOMAIN s : i # 1 => i - 1 \in DOMAIN r /\ i \in Nat
  BY <1>1
<1> DEFINE new == {1} \X (1 .. h)
           rest == Units(s) \ new
           f == [u \in Units(r) |-> <<u[1] + 1, u[2]>>]
<1>3. IsFiniteSet(new) /\ Cardinality(new) = h
  <2>1. IsFiniteSet({1}) /\ Cardinality({1}) = 1
    BY FS_Singleton
  <2>2. IsFiniteSet(1 .. h) /\ Cardinality(1 .. h) = h
    BY <1>2, FS_Interval
  <2>3. IsFiniteSet(new) /\ Cardinality(new) = Cardinality({1}) * Cardinality(1 .. h)
    BY <2>1, <2>2, FS_Product
  <2>4. Cardinality(new) = 1 * h
    BY <2>1, <2>2, <2>3
  <2> QED BY <1>2, <2>3, <2>4
<1>4. \A u : u \in new <=> \E j \in 1 .. h : u = <<1, j>>
  OBVIOUS
<1>5. \A u : u \in rest <=> u \in Units(s) /\ u \notin new
  OBVIOUS
<1>6. \A u \in Units(r) : f[u] = <<u[1] + 1, u[2]>>
  OBVIOUS
<1>7. f = [u \in Units(r) |-> f[u]]
  OBVIOUS
<1> HIDE DEF new, rest, f
<1>8. new \subseteq Units(s)
  <2> SUFFICES ASSUME NEW u \in new PROVE u \in Units(s)
    OBVIOUS
  <2>1. PICK j \in 1 .. h : u = <<1, j>>
    BY <1>4
  <2> QED BY <1>2, <2>1, UnitsAre
<1>9. \A u \in Units(r) : \E i \in DOMAIN r, j \in Nat :
          j \in 1 .. r[i] /\ u = <<i, j>> /\ f[u] = <<i + 1, j>>
  <2> TAKE u \in Units(r)
  <2>1. PICK i \in DOMAIN r, j \in Nat : j \in 1 .. r[i] /\ u = <<i, j>>
    BY <1>2, UnitsAre
  <2>2. f[u] = <<i + 1, j>>
    BY <1>6, <2>1
  <2> QED BY <2>1, <2>2
<1>10. ASSUME NEW u \in Units(r) PROVE f[u] \in rest
  <2>1. PICK i \in DOMAIN r, j \in Nat : j \in 1 .. r[i] /\ u = <<i, j>> /\ f[u] = <<i + 1, j>>
    BY <1>9
  <2>2. i + 1 \in DOMAIN s /\ j \in 1 .. s[i + 1] /\ i + 1 # 1
    BY <1>2, <2>1
  <2>3. f[u] \in Units(s)
    BY <2>1, <2>2, UnitsAre
  <2>4. f[u] \notin new
    BY <1>4, <2>1, <2>2
  <2> QED BY <1>5, <2>3, <2>4
<1>11. ASSUME NEW u \in Units(r), NEW v \in Units(r), f[u] = f[v] PROVE u = v
  <2>1. PICK i \in DOMAIN r, j \in Nat : j \in 1 .. r[i] /\ u = <<i, j>> /\ f[u] = <<i + 1, j>>
    BY <1>9
  <2>2. PICK k \in DOMAIN r, m \in Nat : m \in 1 .. r[k] /\ v = <<k, m>> /\ f[v] = <<k + 1, m>>
    BY <1>9
  <2>3. i + 1 = k + 1 /\ j = m
    BY <1>11, <2>1, <2>2
  <2>4. i = k
    BY <1>2, <2>3
  <2> QED BY <2>1, <2>2, <2>3, <2>4
<1>12. ASSUME NEW v \in rest PROVE \E u \in Units(r) : f[u] = v
  <2>1. PICK i \in DOMAIN s, j \in Nat : j \in 1 .. s[i] /\ v = <<i, j>>
    BY <1>5, UnitsAre
  <2>2. i # 1
    BY <1>2, <1>4, <1>5, <2>1
  <2>3. i - 1 \in DOMAIN r /\ j \in 1 .. r[i - 1] /\ i - 1 + 1 = i
    BY <1>2, <2>1, <2>2, SMTT(40)
  <2>4. <<i - 1, j>> \in Units(r)
    BY <1>2, <2>3, UnitsAre
  <2>5. f[<<i - 1, j>>] = v
    BY <1>6, <2>1, <2>3, <2>4
  <2> QED BY <2>4, <2>5
<1>13. f \in Bijection(Units(r), rest)
  <2>1. f \in [Units(r) -> rest]
    BY <1>7, <1>10
  <2> QED BY <1>11, <1>12, <2>1, Fun_IsBij
<1>14. Cardinality(rest) = Cardinality(Units(r))
  <2>1. ExistsBijection(Units(r), rest)
    BY <1>13, Fun_ExistsBij
  <2> QED BY <1>2, <2>1, SumType, FS_Bijection
<1>15. Cardinality(rest) = Cardinality(Units(s)) - Cardinality(new)
  <2>1. Units(s) \cap new = new
    BY <1>8
  <2>2. rest = Units(s) \ new
    BY DEF rest
  <2>3. IsFiniteSet(Units(s))
    BY SumType
  <2>4. Cardinality(Units(s) \ new) = Cardinality(Units(s)) - Cardinality(Units(s) \cap new)
    BY <2>3, FS_Difference
  <2> QED BY <2>1, <2>2, <2>4
<1>16. Sum(s) = Cardinality(Units(s)) /\ Sum(s) \in Nat
  BY SumType
<1>17. Sum(r) = Cardinality(Units(r)) /\ Sum(r) \in Nat
  BY <1>2, SumType
<1>18. h \in Nat /\ Sum(r) = Sum(s) - h
  BY <1>2, <1>3, <1>14, <1>15, <1>16, <1>17
<1> QED BY <1>16, <1>17, <1>18

(* At least n elements, each at least c, sum to at least n * c.            *)
LEMMA SumAtLeast ==
  ASSUME NEW s \in Seq(Nat), NEW n \in Nat, NEW c \in Nat,
         n <= Len(s), \A i \in DOMAIN s : s[i] >= c
  PROVE  Sum(s) >= n * c
<1> DEFINE block == (1 .. n) \X (1 .. c)
<1>1. \A u \in block : u \in Units(s)
  <2> TAKE u \in block
  <2>1. PICK i \in 1 .. n, j \in 1 .. c : u = <<i, j>>
    OBVIOUS
  <2>2. i \in DOMAIN s /\ s[i] \in Nat
    OBVIOUS
  <2>3. j \in 1 .. s[i]
    BY <2>2
  <2> QED BY <2>1, <2>2, <2>3, UnitsAre
<1>2. /\ IsFiniteSet(1 .. n) /\ Cardinality(1 .. n) = n
      /\ IsFiniteSet(1 .. c) /\ Cardinality(1 .. c) = c
  BY FS_Interval
<1>3. Cardinality(block) = Cardinality(1 .. n) * Cardinality(1 .. c)
  BY <1>2, FS_Product
<1> HIDE DEF block
<1>4. Cardinality(block) <= Cardinality(Units(s)) /\ Cardinality(block) \in Nat
  <2>1. block \in SUBSET Units(s)
    BY <1>1
  <2> QED BY <2>1, SumType, FS_Subset, FS_CardinalityType
<1>5. Sum(s) = Cardinality(Units(s)) /\ Sum(s) \in Nat
  BY SumType
<1>6. Cardinality(block) = n * c
  BY <1>2, <1>3
<1> QED BY <1>4, <1>5, <1>6

(* The numbers a queue of frames grants.                                   *)
LEMMA GrantsType ==
  ASSUME NEW T, NEW q \in Seq(Frames(T))
  PROVE  /\ Grants(q) \in Seq(Nat) /\ Sum(Grants(q)) \in Nat /\ Len(Grants(q)) = Len(q)
         /\ \A i \in 1 .. Len(q) : Grants(q)[i] = q[i].n
<1>1. Len(q) \in Nat /\ DOMAIN q = 1 .. Len(q) /\ \A i \in 1 .. Len(q) : q[i].n \in Nat
  <2>1. Len(q) \in Nat /\ DOMAIN q = 1 .. Len(q) /\ \A i \in 1 .. Len(q) : q[i] \in Frames(T)
    OBVIOUS
  <2> QED BY <2>1 DEF Frames
<1>2. Grants(q) = [i \in 1 .. Len(q) |-> q[i].n]
  BY <1>1 DEF Grants
<1>3. Grants(q) \in [1 .. Len(q) -> Nat]
  BY <1>1, <1>2
<1>4. Grants(q) \in Seq(Nat) /\ Len(Grants(q)) = Len(q)
  BY <1>1, <1>3
<1> QED BY <1>2, <1>4, SumType

(* A frame appended adds its grant.                                        *)
LEMMA GrantsAppend ==
  ASSUME NEW T, NEW q \in Seq(Frames(T)), NEW m \in Frames(T)
  PROVE  Sum(Grants(Append(q, m))) = Sum(Grants(q)) + m.n
<1>1. PICK r : r = Append(q, m)
  OBVIOUS
<1>2. /\ r \in Seq(Frames(T)) /\ Len(r) = Len(q) + 1 /\ Len(q) \in Nat
      /\ r[Len(q) + 1] = m /\ \A i \in 1 .. Len(q) : r[i] = q[i]
  BY <1>1
<1>3. m.n \in Nat
  BY DEF Frames
<1>4. /\ Grants(q) \in Seq(Nat) /\ Len(Grants(q)) = Len(q)
      /\ \A i \in 1 .. Len(q) : Grants(q)[i] = q[i].n
  BY GrantsType
<1>5. /\ Grants(r) \in Seq(Nat) /\ Len(Grants(r)) = Len(r)
      /\ \A i \in 1 .. Len(r) : Grants(r)[i] = r[i].n
  BY <1>2, GrantsType
<1>6. /\ Grants(r)[Len(q) + 1] = m.n
      /\ \A i \in DOMAIN Grants(q) : Grants(r)[i] = Grants(q)[i]
  <2>1. Len(q) + 1 \in 1 .. Len(r) /\ \A i \in 1 .. Len(q) : i \in 1 .. Len(r)
    BY <1>2
  <2>2. DOMAIN Grants(q) = 1 .. Len(q)
    BY <1>4
  <2> QED BY <1>2, <1>4, <1>5, <2>1, <2>2
<1>7. Len(Grants(r)) = Len(Grants(q)) + 1 /\ Grants(q) \in Seq(Nat) /\ Grants(r) \in Seq(Nat)
  BY <1>2, <1>4, <1>5
<1>8. Grants(r)[Len(Grants(q)) + 1] = m.n
  BY <1>4, <1>6
<1>9. Sum(Grants(r)) = Sum(Grants(q)) + m.n
  BY <1>3, <1>6, <1>7, <1>8, SumGrows
<1> QED BY <1>1, <1>9

(* The first frame taken off takes its grant off.                          *)
LEMMA GrantsTail ==
  ASSUME NEW T, NEW q \in Seq(Frames(T)), q # <<>>
  PROVE  Sum(Grants(q)) = Head(q).n + Sum(Grants(Tail(q)))
<1>1. PICK r : r = Tail(q)
  OBVIOUS
<1>2. /\ r \in Seq(Frames(T)) /\ Len(q) = Len(r) + 1 /\ Len(r) \in Nat
      /\ Head(q) = q[1] /\ \A i \in 1 .. Len(r) : r[i] = q[i + 1]
  BY <1>1
<1>3. Head(q).n \in Nat
  <2>1. Head(q) \in Frames(T)
    OBVIOUS
  <2> QED BY <2>1 DEF Frames
<1>4. /\ Grants(q) \in Seq(Nat) /\ Len(Grants(q)) = Len(q)
      /\ \A i \in 1 .. Len(q) : Grants(q)[i] = q[i].n
  BY GrantsType
<1>5. /\ Grants(r) \in Seq(Nat) /\ Len(Grants(r)) = Len(r)
      /\ \A i \in 1 .. Len(r) : Grants(r)[i] = r[i].n
  BY <1>2, GrantsType
<1>6. /\ Grants(q)[1] = Head(q).n
      /\ \A i \in DOMAIN Grants(r) : Grants(r)[i] = Grants(q)[i + 1]
  <2>1. 1 \in 1 .. Len(q) /\ \A i \in 1 .. Len(r) : i + 1 \in 1 .. Len(q)
    BY <1>2
  <2>2. DOMAIN Grants(r) = 1 .. Len(r)
    BY <1>5
  <2> QED BY <1>2, <1>4, <1>5, <2>1, <2>2
<1>7. Len(Grants(q)) = Len(Grants(r)) + 1 /\ Grants(q) \in Seq(Nat) /\ Grants(r) \in Seq(Nat)
  BY <1>2, <1>4, <1>5
<1>8. Sum(Grants(q)) = Head(q).n + Sum(Grants(r))
  BY <1>3, <1>6, <1>7, SumShifts
<1> QED BY <1>1, <1>8

(* The sizes of a queue of pages, likewise.                                *)
LEMMA PageSizesOfType ==
  ASSUME NEW q \in Seq(Pages)
  PROVE  /\ PageSizesOf(q) \in Seq(Nat) /\ Sum(PageSizesOf(q)) \in Nat
         /\ Len(PageSizesOf(q)) = Len(q)
         /\ \A i \in 1 .. Len(q) : PageSizesOf(q)[i] = q[i].size
<1>1. Len(q) \in Nat /\ DOMAIN q = 1 .. Len(q) /\ \A i \in 1 .. Len(q) : q[i].size \in Nat
  <2>1. Len(q) \in Nat /\ DOMAIN q = 1 .. Len(q) /\ \A i \in 1 .. Len(q) : q[i] \in Pages
    OBVIOUS
  <2> QED BY <2>1 DEF Pages
<1>2. PageSizesOf(q) = [i \in 1 .. Len(q) |-> q[i].size]
  BY <1>1 DEF PageSizesOf
<1>3. PageSizesOf(q) \in [1 .. Len(q) -> Nat]
  BY <1>1, <1>2
<1>4. PageSizesOf(q) \in Seq(Nat) /\ Len(PageSizesOf(q)) = Len(q)
  BY <1>1, <1>3
<1> QED BY <1>2, <1>4, SumType

(* A page appended adds its size.                                          *)
LEMMA PageSizesOfAppend ==
  ASSUME NEW q \in Seq(Pages), NEW m \in Pages
  PROVE  Sum(PageSizesOf(Append(q, m))) = Sum(PageSizesOf(q)) + m.size
<1>1. PICK r : r = Append(q, m)
  OBVIOUS
<1>2. /\ r \in Seq(Pages) /\ Len(r) = Len(q) + 1 /\ Len(q) \in Nat
      /\ r[Len(q) + 1] = m /\ \A i \in 1 .. Len(q) : r[i] = q[i]
  BY <1>1
<1>3. m.size \in Nat
  BY DEF Pages
<1>4. /\ PageSizesOf(q) \in Seq(Nat) /\ Len(PageSizesOf(q)) = Len(q)
      /\ \A i \in 1 .. Len(q) : PageSizesOf(q)[i] = q[i].size
  BY PageSizesOfType
<1>5. /\ PageSizesOf(r) \in Seq(Nat) /\ Len(PageSizesOf(r)) = Len(r)
      /\ \A i \in 1 .. Len(r) : PageSizesOf(r)[i] = r[i].size
  BY <1>2, PageSizesOfType
<1>6. /\ PageSizesOf(r)[Len(q) + 1] = m.size
      /\ \A i \in DOMAIN PageSizesOf(q) : PageSizesOf(r)[i] = PageSizesOf(q)[i]
  <2>1. Len(q) + 1 \in 1 .. Len(r) /\ \A i \in 1 .. Len(q) : i \in 1 .. Len(r)
    BY <1>2
  <2>2. DOMAIN PageSizesOf(q) = 1 .. Len(q)
    BY <1>4
  <2> QED BY <1>2, <1>4, <1>5, <2>1, <2>2
<1>7. /\ Len(PageSizesOf(r)) = Len(PageSizesOf(q)) + 1
      /\ PageSizesOf(q) \in Seq(Nat) /\ PageSizesOf(r) \in Seq(Nat)
  BY <1>2, <1>4, <1>5
<1>8. PageSizesOf(r)[Len(PageSizesOf(q)) + 1] = m.size
  BY <1>4, <1>6
<1>9. Sum(PageSizesOf(r)) = Sum(PageSizesOf(q)) + m.size
  BY <1>3, <1>6, <1>7, <1>8, SumGrows
<1> QED BY <1>1, <1>9

(* The first page taken off takes its size off.                            *)
LEMMA PageSizesOfTail ==
  ASSUME NEW q \in Seq(Pages), q # <<>>
  PROVE  Sum(PageSizesOf(q)) = Head(q).size + Sum(PageSizesOf(Tail(q)))
<1>1. PICK r : r = Tail(q)
  OBVIOUS
<1>2. /\ r \in Seq(Pages) /\ Len(q) = Len(r) + 1 /\ Len(r) \in Nat
      /\ Head(q) = q[1] /\ \A i \in 1 .. Len(r) : r[i] = q[i + 1]
  BY <1>1
<1>3. Head(q).size \in Nat
  <2>1. Head(q) \in Pages
    OBVIOUS
  <2> QED BY <2>1 DEF Pages
<1>4. /\ PageSizesOf(q) \in Seq(Nat) /\ Len(PageSizesOf(q)) = Len(q)
      /\ \A i \in 1 .. Len(q) : PageSizesOf(q)[i] = q[i].size
  BY PageSizesOfType
<1>5. /\ PageSizesOf(r) \in Seq(Nat) /\ Len(PageSizesOf(r)) = Len(r)
      /\ \A i \in 1 .. Len(r) : PageSizesOf(r)[i] = r[i].size
  BY <1>2, PageSizesOfType
<1>6. /\ PageSizesOf(q)[1] = Head(q).size
      /\ \A i \in DOMAIN PageSizesOf(r) : PageSizesOf(r)[i] = PageSizesOf(q)[i + 1]
  <2>1. 1 \in 1 .. Len(q) /\ \A i \in 1 .. Len(r) : i + 1 \in 1 .. Len(q)
    BY <1>2
  <2>2. DOMAIN PageSizesOf(r) = 1 .. Len(r)
    BY <1>5
  <2> QED BY <1>2, <1>4, <1>5, <2>1, <2>2
<1>7. /\ Len(PageSizesOf(q)) = Len(PageSizesOf(r)) + 1
      /\ PageSizesOf(q) \in Seq(Nat) /\ PageSizesOf(r) \in Seq(Nat)
  BY <1>2, <1>4, <1>5
<1>8. Sum(PageSizesOf(q)) = Head(q).size + Sum(PageSizesOf(r))
  BY <1>3, <1>6, <1>7, SumShifts
<1> QED BY <1>1, <1>8

-----------------------------------------------------------------------------
(* Types.                                                                  *)

(* The first frame of a queue, and the rest.                               *)
LEMMA FirstOf ==
  ASSUME NEW S, NEW q \in Seq(S), q # <<>>
  PROVE  /\ Head(q) \in S /\ Head(q) = q[1] /\ 1 \in DOMAIN q
         /\ Tail(q) \in Seq(S) /\ Len(Tail(q)) = Len(q) - 1 /\ Len(q) > 0
         /\ \A i \in DOMAIN Tail(q) : i + 1 \in DOMAIN q /\ Tail(q)[i] = q[i + 1]
OBVIOUS

(* A frame appended to a queue.                                            *)
LEMMA LastOf ==
  ASSUME NEW S, NEW q \in Seq(S), NEW m \in S
  PROVE  /\ Append(q, m) \in Seq(S) /\ Len(Append(q, m)) = Len(q) + 1 /\ Append(q, m) # <<>>
         /\ \A i \in DOMAIN Append(q, m) :
              \/ i \in DOMAIN q /\ Append(q, m)[i] = q[i]
              \/ Append(q, m)[i] = m
OBVIOUS

(* A queue is not empty after an append.                                   *)
LEMMA NotEmpty ==
  ASSUME NEW S, NEW q \in Seq(S), NEW m \in S
  PROVE  Append(q, m) # <<>>
BY LastOf

(* A try_send either appends the frame or leaves the queue, which was full. *)
LEMMA TrySent ==
  ASSUME NEW S, NEW q \in Seq(S), NEW m \in S, NEW cap \in Nat \ {0}
  PROVE  /\ TrySend(q, cap, m) \in Seq(S) /\ TrySend(q, cap, m) # <<>>
         /\ Len(TrySend(q, cap, m)) <= Len(q) + 1
         /\ \A i \in DOMAIN TrySend(q, cap, m) :
              \/ i \in DOMAIN q /\ TrySend(q, cap, m)[i] = q[i]
              \/ TrySend(q, cap, m)[i] = m
<1>1. CASE Len(q) < cap
  BY <1>1, LastOf DEF TrySend
<1>2. CASE ~(Len(q) < cap)
  BY <1>2 DEF TrySend
<1> QED BY <1>1, <1>2

(* The drain task's record after each way out of its loop.                 *)
LEMMA ExitType ==
  ASSUME NEW d \in Drains
  PROVE  Exit(d) \in Drains /\ Exit(d).pc \in {"flush", "finish"} /\ Exit(d).drained = 0
         /\ Exit(d).grant = d.drained /\ (Exit(d).pc = "flush" <=> d.drained > 0)
BY DEF Exit, Drains

(* The drain task's record after it counted n bytes.                       *)
LEMMA Counted ==
  ASSUME drain \in Drains, NEW n \in Nat \ {0}, CountBytes(n)
  PROVE  /\ drain' \in Drains
         /\ \E d \in Nat \ {0} :
              /\ d = drain.drained + n /\ [drain EXCEPT !.drained = d] \in Drains
              /\ \/ cpump = "done" /\ drain' = Exit([drain EXCEPT !.drained = d])
                 \/ d >= Chunk /\ drain' = [pc |-> "grant", drained |-> 0, grant |-> d]
                 \/ ~(d >= Chunk) /\ drain' = [drain EXCEPT !.drained = d]
<1>1. PICK d \in Nat \ {0} : d = drain.drained + n
  <2>1. drain.drained \in Nat
    BY DEF Drains
  <2> QED BY <2>1
<1>2. [drain EXCEPT !.drained = d] \in Drains
  BY DEF Drains
<1>3. \/ cpump = "done" /\ drain' = Exit([drain EXCEPT !.drained = d])
      \/ d >= Chunk /\ drain' = [pc |-> "grant", drained |-> 0, grant |-> d]
      \/ ~(d >= Chunk) /\ drain' = [drain EXCEPT !.drained = d]
  BY <1>1 DEF CountBytes, Replenish
<1>4. drain' \in Drains
  <2>1. [pc |-> "grant", drained |-> 0, grant |-> d] \in Drains
    BY DEF Drains
  <2> QED BY <1>2, <1>3, <2>1, ExitType
<1> QED BY <1>1, <1>2, <1>3, <1>4

(* The lines of a page are numbers: they are printed and not dropped.      *)
LEMMA LinesAre ==
  ASSUME printed \in Nat, dropped \in 0 .. printed, NEW from \in Nat
  PROVE  /\ LinesBefore(from) \in Seq(Nat)
         /\ LinesBefore(from) # <<>> => Len(LinesBefore(from)) + from <= printed
         /\ \A i \in DOMAIN LinesBefore(from) :
              LinesBefore(from)[i] = printed - from - Len(LinesBefore(from)) + i
<1>1. PICK newest \in Int : newest = printed - from
  OBVIOUS
<1>2. PageLines \in Nat \ {0}
  BY ChannelsAssumption
<1>3. PICK oldest \in Int :
        oldest = IF newest - (PageLines - 1) > dropped THEN newest - (PageLines - 1) ELSE dropped + 1
  <2>1. newest - (PageLines - 1) \in Int /\ dropped + 1 \in Int
    BY <1>2
  <2> QED BY <2>1, Zenon
<1>4. CASE from >= printed - dropped
  BY <1>4 DEF LinesBefore
<1>5. CASE ~(from >= printed - dropped)
  <2>1. LinesBefore(from) = [k \in 1 .. newest - oldest + 1 |-> oldest + (k - 1)]
    BY <1>1, <1>3, <1>5 DEF LinesBefore
  <2>2. oldest >= 1 /\ oldest <= newest
    BY <1>1, <1>2, <1>3, <1>5
  <2>3. PICK len \in Nat : len = newest - oldest + 1
    BY <2>2
  <2>4. LinesBefore(from) = [k \in 1 .. len |-> oldest + (k - 1)]
    BY <2>1, <2>3
  <2>5. \A k \in 1 .. len : oldest + (k - 1) \in Nat
    BY <2>2
  <2>6. LinesBefore(from) \in Seq(Nat) /\ Len(LinesBefore(from)) = len
    BY <2>4, <2>5
  <2>7. \A i \in 1 .. len : LinesBefore(from)[i] = oldest + (i - 1)
    BY <2>4
  <2> QED BY <1>1, <2>2, <2>3, <2>6, <2>7
<1> QED BY <1>4, <1>5

(* A page made of what the history holds, and the task that holds it.      *)
LEMMA MadePage ==
  ASSUME ServerTypes, NEW from \in Nat, MakePage(from)
  PROVE  /\ task' \in Tasks /\ task'.page \in Pages /\ task'.page # NoPage
         /\ task'.page.lines = LinesBefore(from) /\ task'.credit = task.credit
         /\ task'.pc = IF task.credit < task'.page.size THEN "wait" ELSE "write"
<1>1. PICK size \in PageSizes :
        task' = [task EXCEPT
                   !.page = [lines |-> LinesBefore(from), total |-> printed - dropped,
                             size |-> size],
                   !.pc = IF task.credit < size THEN "wait" ELSE "write"]
  BY DEF MakePage
<1>2. size \in Nat \ {0}
  BY ChannelsAssumption
<1>3. printed - dropped \in Nat /\ LinesBefore(from) \in Seq(Nat)
  BY LinesAre DEF ServerTypes
<1>4. PICK page : page = [lines |-> LinesBefore(from), total |-> printed - dropped, size |-> size]
  OBVIOUS
<1>5. /\ page \in Pages /\ page # NoPage /\ page.lines = LinesBefore(from) /\ page.size = size
  BY <1>2, <1>3, <1>4 DEF Pages, NoPage
<1>6. /\ task' = [task EXCEPT !.page = page, !.pc = IF task.credit < size THEN "wait" ELSE "write"]
  BY <1>1, <1>4
<1>7. /\ task'.page = page /\ task'.credit = task.credit
      /\ task'.pc = IF task.credit < size THEN "wait" ELSE "write"
  BY <1>6 DEF ServerTypes, Tasks
<1>8. task' \in Tasks
  BY <1>5, <1>6 DEF ServerTypes, Tasks
<1> QED BY <1>5, <1>7, <1>8

(* What the sender task makes of a request: a page, the end, or nothing.   *)
LEMMA SenderOutcome ==
  ASSUME TypeInv, ServeRequest \/ SenderMisreads
  PROVE  /\ task.pc = "serve" /\ task' \in Tasks /\ task'.credit = task.credit
         /\ \/ task'.page \in Pages /\ task'.page # NoPage
               /\ task'.pc = IF task.credit < task'.page.size THEN "wait" ELSE "write"
            \/ SenderMisreads /\ task'.page = task.page /\ task'.pc \in {"serve", "finish"}
         /\ up # <<>> /\ up' = Tail(up)
         /\ UNCHANGED <<clientVars, c2s, s2c, down, bound, upEOF, downEOF, spump, mapped, evq,
                        sctrl, history>>
<1>1. ServerTypes /\ task \in Tasks
  BY DEF TypeInv, ServerTypes
<1>2. CASE ServeRequest
  <2>1. Head(up) \in Nat
    BY <1>2, FirstOf DEF ServeRequest, TypeInv, StreamTypes
  <2>2. MakePage(Head(up))
    BY <1>2 DEF ServeRequest
  <2>3. /\ task' \in Tasks /\ task'.page \in Pages /\ task'.page # NoPage
        /\ task'.credit = task.credit
        /\ task'.pc = IF task.credit < task'.page.size THEN "wait" ELSE "write"
    BY <1>1, <2>1, <2>2, MadePage
  <2> QED BY <1>2, <2>3 DEF ServeRequest
<1>3. CASE SenderMisreads
  <2>1. CASE \E from \in 0 .. MaxLines : MakePage(from)
    <3>1. PICK from \in Nat : MakePage(from)
      BY <2>1, ChannelsAssumption
    <3>2. /\ task' \in Tasks /\ task'.page \in Pages /\ task'.page # NoPage
          /\ task'.credit = task.credit
          /\ task'.pc = IF task.credit < task'.page.size THEN "wait" ELSE "write"
      BY <1>1, <3>1, MadePage
    <3> QED BY <1>3, <3>2 DEF SenderMisreads
  <2>2. CASE UNCHANGED task
    BY <1>1, <1>3, <2>2 DEF SenderMisreads
  <2>3. CASE Task("finish")
    <3>1. task' \in Tasks /\ task'.credit = task.credit /\ task'.page = task.page
          /\ task'.pc = "finish"
      BY <1>1, <2>3 DEF Task, Tasks
    <3> QED BY <1>3, <3>1 DEF SenderMisreads
  <2> QED BY <1>3, <2>1, <2>2, <2>3 DEF SenderMisreads
<1> QED BY <1>2, <1>3

(* The actions of the server leave the client alone.                       *)
LEMMA ServerOnly ==
  ASSUME ServerPump \/ SenderTask \/ Output \/ Done
  PROVE  UNCHANGED clientVars
BY DEF ServerPump, SenderTask, RecvChannelOpen, RecvCredit, RecvChannelClose, BindStream,
       PumpResumes, WriteControl, AwaitStream, TaskEvents, ServeRequest, SenderReads,
       SenderMisreads, WritePage, SenderEnds, TaskFinishes, TaskReports, Output, ScrollUp,
       ClearScrollback, Done, vars

(* The actions of the client leave the server alone.                       *)
LEMMA ClientOnly ==
  ASSUME ClientPump \/ User \/ DrainTask \/ Done
  PROVE  UNCHANGED serverVars
BY DEF ClientPump, User, DrainTask, SendChannelOpen, AwaitChannelAccept, IgnoreFrame,
       EnterScrollback, PageUp, SnapBack, RecvPage, ForwardControl, DrainRequest, DrainPage,
       DrainReads, DrainMisreads, DrainEnds, DrainGrants, DrainFinishes, DrainReports, Done,
       vars

(* A step keeps the client's types.                                        *)
LEMMA ClientTypesStep ==
  ASSUME TypeInv, Next
  PROVE  ClientTypes'
<1> ReqCap \in Nat \ {0} /\ PageCap \in Nat \ {0}
  BY ChannelsAssumption
<1> USE DEF TypeInv, ClientTypes
<1>1. CASE SendChannelOpen
  BY <1>1 DEF SendChannelOpen
<1>2. CASE AwaitChannelAccept
  BY <1>2 DEF AwaitChannelAccept, Drains
<1>3. CASE IgnoreFrame
  BY <1>3 DEF IgnoreFrame, clientVars
<1>4. CASE RecvPage
  <2>1. pageq' \in Seq(Pages) /\ Head(pageq) \in Pages
    BY <1>4, FirstOf DEF RecvPage
  <2>2. view' \in Views
    <3>1. PICK lines \in Seq(Nat), held \in Seq(Nat), total \in Nat :
            lines = Head(pageq).lines /\ held = view.held /\ total = Head(pageq).total
      BY <2>1 DEF Pages, Views
    <3>2. Head(pageq).lines \o view.held \in Seq(Nat) /\ Head(pageq).total \in Nat
      BY <3>1
    <3> QED BY <1>4, <3>2 DEF RecvPage, Views
  <2> QED BY <1>4, <2>1, <2>2 DEF RecvPage
<1>5. CASE ForwardControl
  BY <1>5, FirstOf DEF ForwardControl
<1>6. CASE EnterScrollback
  <2>1. reqq' \in Seq(Nat)
    BY <1>6, TrySent DEF EnterScrollback, RequestPage
  <2>2. entered' \in Nat
    BY <1>6 DEF EnterScrollback, ServerTypes
  <2> QED BY <1>6, <2>1, <2>2 DEF EnterScrollback, Views
<1>7. CASE PageUp
  <2>1. Len(view.held) \in Nat
    BY DEF Views
  <2>2. reqq' \in Seq(Nat)
    <3>1. TrySend(reqq, ReqCap, Len(view.held)) \in Seq(Nat)
      BY <2>1, TrySent
    <3> QED BY <1>7, <3>1 DEF PageUp, RequestPage
  <2>3. view' \in Views
    BY <1>7 DEF PageUp, Views
  <2> QED BY <1>7, <2>2, <2>3 DEF PageUp
<1>8. CASE SnapBack
  BY <1>8 DEF SnapBack, Views, Live
<1>9. CASE DrainRequest
  BY <1>9, FirstOf, ExitType DEF DrainRequest, Reads
<1>10. CASE DrainPage
  <2>1. Head(down) \in Pages
    BY <1>10, FirstOf DEF DrainPage, StreamTypes
  <2>2. pageq' \in Seq(Pages)
    BY <1>10, <2>1, TrySent DEF DrainPage
  <2>3. drain' \in Drains
    <3>1. PICK n \in Nat \ {0} : n = WireBytes(Head(down)) /\ CountBytes(n)
      BY <1>10, <2>1 DEF DrainPage, WireBytes, Pages
    <3> QED BY <3>1, Counted
  <2> QED BY <1>10, <2>2, <2>3 DEF DrainPage, Reads
<1>11. CASE DrainEnds
  BY <1>11, ExitType DEF DrainEnds
<1>12. CASE DrainGrants
  <2>1. Credit(drain.grant) \in Frames({"ScrollbackCredit", "ChannelClose"})
    BY DEF Credit, Frames, Drains
  <2>2. cctrl' \in Seq(Frames({"ScrollbackCredit", "ChannelClose"}))
    <3>1. Append(cctrl, Credit(drain.grant)) \in Seq(Frames({"ScrollbackCredit", "ChannelClose"}))
      BY <2>1, LastOf
    <3> QED BY <1>12, <3>1 DEF DrainGrants
  <2>3. drain' \in Drains
    BY <1>12 DEF DrainGrants, Drains
  <2> QED BY <1>12, <2>2, <2>3 DEF DrainGrants
<1>13. CASE DrainFinishes
  BY <1>13 DEF DrainFinishes, Drain, Drains
<1>14. CASE DrainReports
  <2>1. Close \in Frames({"ScrollbackCredit", "ChannelClose"})
    BY DEF Close, Frames
  <2>2. cctrl' \in Seq(Frames({"ScrollbackCredit", "ChannelClose"}))
    <3>1. Append(cctrl, Close) \in Seq(Frames({"ScrollbackCredit", "ChannelClose"}))
      BY <2>1, LastOf
    <3> QED BY <1>14, <3>1 DEF DrainReports
  <2>3. drain' \in Drains
    BY <1>14 DEF DrainReports, Drain, Drains
  <2> QED BY <1>14, <2>2, <2>3 DEF DrainReports
<1>15. CASE ServerPump \/ SenderTask \/ Output \/ Done
  BY <1>15, ServerOnly DEF clientVars
<1>16. CASE SessionEnds
  BY <1>16 DEF SessionEnds, Live, Views
<1>17. CASE DrainReads
  BY <1>17 DEF DrainReads, Reads
<1>18. CASE DrainMisreads
  <2>1. \A n \in PageSizes : n \in Nat \ {0} /\ Garbage(n) \in Pages
    <3> TAKE n \in PageSizes
    <3>1. n \in Nat \ {0} /\ <<0>> \in Seq(Nat)
      BY ChannelsAssumption
    <3> QED BY <3>1 DEF Garbage, Pages
  <2>2. drain' \in Drains
    <3>1. \/ drain' = drain \/ drain' = Exit(drain)
          \/ \E n \in PageSizes : CountBytes(n)
      BY <1>18 DEF DrainMisreads
    <3> QED BY <2>1, <3>1, ExitType, Counted
  <2>3. pageq' \in Seq(Pages)
    <3>1. pageq' = pageq \/ \E n \in PageSizes : pageq' = TrySend(pageq, PageCap, Garbage(n))
      BY <1>18 DEF DrainMisreads
    <3> QED BY <2>1, <3>1, TrySent
  <2> QED BY <1>18, <2>2, <2>3 DEF DrainMisreads
<1> QED BY <1>1, <1>2, <1>3, <1>4, <1>5, <1>6, <1>7, <1>8, <1>9, <1>10, <1>11, <1>12, <1>13,
           <1>14, <1>15, <1>16, <1>17, <1>18 DEF Next, ClientPump, User, DrainTask

(* A step keeps the streams' types.                                        *)
LEMMA StreamTypesStep ==
  ASSUME TypeInv, Next
  PROVE  StreamTypes'
<1> DEFINE C2S == Frames({"ChannelOpen", "ScrollbackCredit", "ChannelClose"})
           S2C == Frames({"ChannelAccept", "ChannelReject", "ChannelClose"})
<1>1. /\ Open \in C2S /\ Accept \in S2C /\ Reject \in S2C
      /\ \A m \in Frames({"ScrollbackCredit", "ChannelClose"}) : m \in C2S
      /\ \A m \in Frames({"ChannelClose"}) : m \in S2C
  BY DEF Frames, Open, Accept, Reject
<1>2. /\ c2s \in Seq(C2S) /\ s2c \in Seq(S2C) /\ up \in Seq(Nat) /\ down \in Seq(Pages)
      /\ bound \in {"none", "flight", "bound", "reset"}
      /\ upEOF \in BOOLEAN /\ downEOF \in BOOLEAN
  BY DEF TypeInv, StreamTypes
<1> SUFFICES /\ c2s' \in Seq(C2S) /\ s2c' \in Seq(S2C) /\ up' \in Seq(Nat) /\ down' \in Seq(Pages)
             /\ bound' \in {"none", "flight", "bound", "reset"}
             /\ upEOF' \in BOOLEAN /\ downEOF' \in BOOLEAN
  BY DEF StreamTypes
<1> HIDE DEF C2S, S2C
<1>3. CASE UNCHANGED streamVars
  BY <1>2, <1>3 DEF streamVars
<1>4. CASE SendChannelOpen
  BY <1>1, <1>2, <1>4, LastOf DEF SendChannelOpen
<1>5. CASE AwaitChannelAccept
  BY <1>2, <1>5, FirstOf DEF AwaitChannelAccept
<1>6. CASE IgnoreFrame
  BY <1>2, <1>6, FirstOf DEF IgnoreFrame
<1>7. CASE ForwardControl
  <2>1. Head(cctrl) \in C2S
    BY <1>1, <1>7, FirstOf DEF ForwardControl, TypeInv, ClientTypes
  <2> QED BY <1>2, <1>7, <2>1, LastOf DEF ForwardControl
<1>8. CASE DrainRequest
  <2>1. Head(reqq) \in Nat
    BY <1>8, FirstOf DEF DrainRequest, TypeInv, ClientTypes
  <2>2. up' \in Seq(Nat)
    <3>1. Append(up, Head(reqq)) \in Seq(Nat)
      BY <1>2, <2>1, LastOf
    <3> QED BY <1>2, <1>8, <3>1 DEF DrainRequest
  <2> QED BY <1>2, <1>8, <2>2 DEF DrainRequest
<1>9. CASE DrainPage \/ DrainMisreads
  BY <1>2, <1>9, FirstOf DEF DrainPage, DrainMisreads
<1>10. CASE DrainFinishes
  BY <1>2, <1>10 DEF DrainFinishes
<1>11. CASE RecvChannelOpen
  <2>1. c2s' \in Seq(C2S)
    BY <1>2, <1>11, FirstOf DEF RecvChannelOpen, ServerReads
  <2>2. s2c' \in Seq(S2C)
    <3>1. Append(s2c, Accept) \in Seq(S2C) /\ Append(s2c, Reject) \in Seq(S2C)
      BY <1>1, <1>2, LastOf
    <3> QED BY <1>11, <3>1 DEF RecvChannelOpen
  <2> QED BY <1>2, <1>11, <2>1, <2>2 DEF RecvChannelOpen
<1>12. CASE RecvCredit \/ RecvChannelClose
  BY <1>2, <1>12, FirstOf DEF RecvCredit, RecvChannelClose, ServerReads
<1>13. CASE BindStream
  BY <1>2, <1>13 DEF BindStream
<1>14. CASE WriteControl
  <2>1. Head(sctrl) \in S2C
    BY <1>1, <1>14, FirstOf DEF WriteControl, TypeInv, ServerTypes
  <2> QED BY <1>2, <1>14, <2>1, LastOf DEF WriteControl
<1>15. CASE ServeRequest \/ SenderMisreads
  BY <1>2, <1>15, FirstOf DEF ServeRequest, SenderMisreads
<1>16. CASE WritePage
  <2>1. task.page \in Pages
    BY <1>16 DEF WritePage, TypeInv, ServerTypes
  <2> QED BY <1>2, <1>16, <2>1, LastOf DEF WritePage
<1>17. CASE TaskFinishes
  BY <1>2, <1>17 DEF TaskFinishes
<1>18. CASE \/ EnterScrollback \/ PageUp \/ SnapBack \/ RecvPage
            \/ DrainReads \/ DrainEnds \/ DrainGrants \/ DrainReports
            \/ PumpResumes \/ AwaitStream \/ TaskEvents \/ SenderReads \/ SenderEnds \/ TaskReports
            \/ Output \/ SessionEnds \/ Done
  BY <1>3, <1>18 DEF EnterScrollback, PageUp, SnapBack, RecvPage, DrainReads, DrainEnds,
     DrainGrants, DrainReports, PumpResumes, AwaitStream, TaskEvents, SenderReads, SenderEnds,
     TaskReports, SessionEnds,
     Output, ScrollUp, ClearScrollback, Done, vars
<1> QED BY <1>4, <1>5, <1>6, <1>7, <1>8, <1>9, <1>10, <1>11, <1>12, <1>13, <1>14, <1>15, <1>16,
           <1>17, <1>18
        DEF Next, ClientPump, User, DrainTask, ServerPump, SenderTask

(* The stream is bound while the task waits for it, with an empty queue.   *)
LEMMA BindRoom ==
  ASSUME TypeInv, OffInv, OpenInv, QueueInv, spump = "run", bound = "flight"
  PROVE  task.pc = "bind" /\ evq = <<>> /\ Len(evq) = 0
<1>1. task.pc # "off"
  BY DEF OffInv, OpenInv
<1>2. task.pc = "bind"
  BY <1>1 DEF QueueInv, Ended
<1> QED BY <1>2 DEF QueueInv

(* A step keeps the server's types.  The pump never blocks on a Stream, and a page is   *)
(* written only with the credit for it.                                                 *)
LEMMA ServerTypesStep ==
  ASSUME IInv, Next
  PROVE  ServerTypes'
<1> DEFINE EVQ == Frames({"Stream", "ScrollbackCredit", "ChannelClose"})
           SCTRL == Frames({"ChannelClose"})
<1>1. /\ Close \in EVQ /\ Stream \in EVQ /\ Close \in SCTRL
      /\ [t |-> "ChannelClose", n |-> 0] = Close
  BY DEF Frames, Close, Stream
<1>2. /\ spump \in {"run", "ChannelClose", "ended"} /\ mapped \in BOOLEAN
      /\ task \in Tasks /\ (task.pc \in {"wait", "write"} => task.page \in Pages)
      /\ evq \in Seq(EVQ) /\ sctrl \in Seq(SCTRL)
      /\ reqRead \in Reads /\ printed \in Nat /\ dropped \in 0 .. printed
  BY DEF IInv, TypeInv, ServerTypes
<1> SUFFICES /\ spump' \in {"run", "ChannelClose", "ended"} /\ mapped' \in BOOLEAN
             /\ task' \in Tasks /\ (task'.pc \in {"wait", "write"} => task'.page \in Pages)
             /\ evq' \in Seq(EVQ) /\ sctrl' \in Seq(SCTRL)
             /\ reqRead' \in Reads /\ printed' \in Nat /\ dropped' \in 0 .. printed'
  BY DEF ServerTypes
<1> HIDE DEF EVQ, SCTRL
<1> USE DEF history
<1>3. \A q : q = evq \/ q = Append(evq, Close) \/ q = Append(evq, Stream) => q \in Seq(EVQ)
  <2>1. Append(evq, Close) \in Seq(EVQ)
    BY <1>1, <1>2, LastOf
  <2>2. Append(evq, Stream) \in Seq(EVQ)
    BY <1>1, <1>2, LastOf
  <2> QED BY <1>2, <2>1, <2>2
<1>4. evq # <<>> => Tail(evq) \in Seq(EVQ) /\ Head(evq) \in EVQ
  BY <1>2, FirstOf
<1>5. CASE ClientPump \/ User \/ DrainTask \/ Done
  BY <1>2, <1>5, ClientOnly DEF serverVars
<1>6. CASE RecvChannelOpen
  BY <1>2, <1>6 DEF RecvChannelOpen, Tasks
<1>7. CASE RecvCredit
  <2>1. Head(c2s) \in EVQ
    <3>1. Head(c2s) \in Frames({"ChannelOpen", "ScrollbackCredit", "ChannelClose"})
      BY <1>7, FirstOf DEF RecvCredit, ServerReads, IInv, TypeInv, StreamTypes
    <3>2. Head(c2s).t = "ScrollbackCredit"
      BY <1>7 DEF RecvCredit, ServerReads
    <3> QED BY <3>1, <3>2 DEF EVQ, Frames
  <2>2. TrySend(evq, EventCap, Head(c2s)) \in Seq(EVQ)
    BY <1>2, <2>1, ChannelsAssumption, TrySent
  <2> QED BY <1>2, <1>7, <2>2 DEF RecvCredit
<1>8. CASE RecvChannelClose
  <2>1. evq' \in Seq(EVQ) /\ spump' \in {"run", "ChannelClose", "ended"}
    BY <1>2, <1>3, <1>8 DEF RecvChannelClose, HandOn, Close
  <2> QED BY <1>2, <1>8, <2>1 DEF RecvChannelClose
<1>9. CASE BindStream
  <2>1. Len(evq) < EventCap
    <3>1. evq = <<>> /\ Len(evq) = 0
      BY <1>9, BindRoom DEF BindStream, IInv, PhaseInv
    <3> QED BY <3>1, ChannelsAssumption
  <2>2. evq' \in Seq(EVQ) /\ spump' \in {"run", "ChannelClose", "ended"}
    BY <1>2, <1>3, <1>9, <2>1 DEF BindStream, HandOn
  <2> QED BY <1>2, <1>9, <2>2 DEF BindStream
<1>10. CASE PumpResumes
  <2>1. spump = "ChannelClose"
    BY <1>2, <1>10 DEF PumpResumes
  <2> QED BY <1>1, <1>2, <1>3, <1>10, <2>1 DEF PumpResumes
<1>11. CASE WriteControl
  BY <1>2, <1>11, FirstOf DEF WriteControl
<1>12. CASE AwaitStream
  <2>1. task' \in Tasks /\ task'.pc \notin {"wait", "write"}
    BY <1>2, <1>12, ChannelsAssumption DEF AwaitStream, Task, Tasks
  <2>2. evq' \in Seq(EVQ)
    BY <1>2, <1>4, <1>12 DEF AwaitStream
  <2> QED BY <1>2, <1>12, <2>1, <2>2 DEF AwaitStream
<1>13. CASE TaskEvents
  <2>1. TaskEvent.n \in Nat
    <3>1. Head(evq) \in EVQ => Head(evq).n \in Nat
      BY DEF EVQ, Frames
    <3> QED BY <1>4, <3>1 DEF TaskEvent, Close
  <2>2. task' \in Tasks /\ task'.page = task.page
    <3>1. \A pc \in {"wait", "serve", "write", "finish"} :
            /\ [task EXCEPT !.pc = pc] \in Tasks
            /\ [task EXCEPT !.pc = pc].page = task.page
      BY <1>2 DEF Tasks
    <3>2. PICK more : more = task.credit + TaskEvent.n
      OBVIOUS
    <3>3. more \in Nat
      BY <1>2, <2>1, <3>2 DEF Tasks
    <3>4. \A pc \in {"wait", "serve", "write"} :
            /\ [task EXCEPT !.credit = more, !.pc = pc] \in Tasks
            /\ [task EXCEPT !.credit = more, !.pc = pc].page = task.page
      BY <1>2, <3>3 DEF Tasks
    <3> QED BY <1>2, <1>13, <3>1, <3>2, <3>4 DEF TaskEvents
  <2>3. evq' \in Seq(EVQ)
    BY <1>2, <1>4, <1>13 DEF TaskEvents
  <2>4. task'.pc \in {"wait", "write"} => task.pc = "wait"
    BY <1>2, <1>13 DEF TaskEvents, Tasks
  <2> QED BY <1>2, <1>13, <2>2, <2>3, <2>4 DEF TaskEvents, Reads
<1>14. CASE ServeRequest \/ SenderMisreads
  <2>1. TypeInv
    BY DEF IInv
  <2>2. task' \in Tasks /\ (task'.pc \in {"wait", "write"} => task'.page \in Pages)
    BY <1>14, <2>1, SenderOutcome
  <2>3. reqRead' \in Reads
    BY <1>2, <1>14 DEF ServeRequest, SenderMisreads, Reads
  <2> QED BY <1>2, <1>14, <2>1, <2>2, <2>3, SenderOutcome
<1>15. CASE WritePage
  <2>1. task.credit - task.page.size \in Nat
    <3>1. task.credit \in Nat /\ task.page.size \in Nat /\ task.credit >= task.page.size
      BY <1>2, <1>15 DEF WritePage, IInv, CreditInv, PriceInv, Tasks, Pages
    <3> QED BY <3>1
  <2> QED BY <1>2, <1>15, <2>1 DEF WritePage, Tasks
<1>16. CASE SenderEnds
  BY <1>2, <1>16 DEF SenderEnds, Task, Tasks
<1>17. CASE TaskFinishes
  BY <1>2, <1>17 DEF TaskFinishes, Task, Tasks
<1>18. CASE TaskReports
  <2>1. Append(sctrl, Close) \in Seq(SCTRL) /\ <<>> \in Seq(EVQ)
    BY <1>1, <1>2, LastOf
  <2> QED BY <1>2, <1>18, <2>1 DEF TaskReports, Tasks
<1>19. CASE SessionEnds
  BY <1>2, <1>19 DEF SessionEnds
<1>20. CASE SenderReads
  BY <1>2, <1>20 DEF SenderReads, Reads
<1>21. CASE Output
  BY <1>2, <1>21 DEF Output, ScrollUp, ClearScrollback
<1> QED BY <1>5, <1>6, <1>7, <1>8, <1>9, <1>10, <1>11, <1>12, <1>13, <1>14, <1>15, <1>16,
           <1>17, <1>18, <1>19, <1>20, <1>21
        DEF Next, ServerPump, SenderTask

-----------------------------------------------------------------------------
(* Phases.                                                                 *)

(* Frames of a kind do not appear by taking one off or adding another.     *)
LEMMA HasRules ==
  ASSUME NEW S, NEW q \in Seq(S), NEW t, ~Has(q, t)
  PROVE  /\ q # <<>> => ~Has(Tail(q), t)
         /\ \A m \in S : m.t # t => ~Has(Append(q, m), t)
BY FirstOf, LastOf DEF Has

(* The sender task on its queue, by what it reads there.                    *)
LEMMA AwaitStreamOutcome ==
  ASSUME TypeInv, AwaitStream
  PROVE  /\ task.pc = "bind"
         /\ \/ /\ evq # <<>> /\ evq' = Tail(evq) /\ Head(evq).t = "Stream"
               /\ task'.pc = "serve" /\ task'.credit = Window
            \/ /\ evq # <<>> /\ evq' = Tail(evq) /\ Head(evq).t = "ChannelClose"
               /\ task'.pc = "report" /\ task'.credit = task.credit
            \/ /\ evq = <<>> /\ evq' = <<>> /\ Ended
               /\ task'.pc = "report" /\ task'.credit = task.credit
            \/ evq # <<>> /\ evq' = Tail(evq) /\ task' = task
         /\ task'.page = task.page
BY DEF AwaitStream, Task, TaskEvent, Close, TypeInv, ServerTypes, Tasks

(* The sender task on its queue while it serves.                           *)
LEMMA TaskEventsOutcome ==
  ASSUME TypeInv, TaskEvents
  PROVE  /\ task.pc \in {"serve", "wait"}
         /\ \/ /\ evq = <<>> \/ (evq # <<>> /\ Head(evq).t = "ChannelClose")
               /\ task'.pc = "finish" /\ task'.credit = task.credit
               /\ evq' = <<>> \/ evq' = Tail(evq)
            \/ /\ evq # <<>> /\ evq' = Tail(evq) /\ Head(evq).t = "ScrollbackCredit"
               /\ task'.credit = task.credit + Head(evq).n
               /\ task'.pc = IF task.pc = "wait" /\ task'.credit >= task.page.size
                             THEN "write" ELSE task.pc
            \/ evq # <<>> /\ evq' = Tail(evq) /\ Head(evq).t = "Stream" /\ task' = task
         /\ task'.page = task.page
<1>1. task \in Tasks
  BY DEF TypeInv, ServerTypes
<1>2. CASE evq = <<>>
  BY <1>1, <1>2 DEF TaskEvents, TaskEvent, Close, Tasks
<1>3. CASE evq # <<>>
  <2>1. /\ TaskEvent = Head(evq) /\ evq' = Tail(evq)
        /\ Head(evq).t \in {"Stream", "ScrollbackCredit", "ChannelClose"}
    <3>1. Head(evq) \in Frames({"Stream", "ScrollbackCredit", "ChannelClose"})
      BY <1>3, FirstOf DEF TypeInv, ServerTypes
    <3> QED BY <1>3, <3>1 DEF TaskEvents, TaskEvent, Frames
  <2>2. CASE Head(evq).t = "ChannelClose"
    BY <1>1, <1>3, <2>1, <2>2 DEF TaskEvents, Tasks
  <2>3. CASE Head(evq).t = "ScrollbackCredit"
    <3>1. PICK more : more = task.credit + Head(evq).n
      OBVIOUS
    <3>2. task' = [task EXCEPT !.credit = more,
                     !.pc = IF task.pc = "wait" /\ more >= task.page.size
                            THEN "write" ELSE task.pc]
      BY <1>1, <2>1, <2>3, <3>1 DEF TaskEvents, Tasks
    <3>3. /\ task'.credit = more /\ task'.page = task.page
          /\ task'.pc = IF task.pc = "wait" /\ more >= task.page.size THEN "write" ELSE task.pc
      BY <1>1, <3>2 DEF Tasks
    <3> QED BY <1>3, <2>1, <2>3, <3>1, <3>3 DEF TaskEvents
  <2>4. CASE Head(evq).t = "Stream"
    BY <1>1, <1>3, <2>1, <2>4 DEF TaskEvents, Tasks
  <2> QED BY <2>1, <2>2, <2>3, <2>4
<1> QED BY <1>2, <1>3

(* The steps of the drain task, by where it is before and after.           *)
LEMMA DrainOutcome ==
  ASSUME TypeInv, DrainTask
  PROVE  \/ /\ drain.pc = "loop" /\ ~DrainFinishes /\ ~DrainReports
            /\ \/ drain'.pc \in {"loop", "grant"}
               \/ /\ drain'.pc \in {"flush", "finish"}
                  /\ downEOF \/ bound = "reset" \/ Ended \/ cpump = "done" \/ pageRead = "torn"
         \/ /\ DrainGrants /\ drain.pc \in {"grant", "flush"}
            /\ drain'.pc \in {"loop", "finish"}
            /\ drain'.pc = "loop" => drain.pc = "grant"
            /\ drain'.pc = "finish" => drain.pc = "flush" \/ cpump = "done"
         \/ DrainFinishes /\ drain.pc = "finish" /\ drain'.pc = "report"
         \/ DrainReports /\ drain.pc = "report" /\ drain'.pc = "gone"
<1>1. drain \in Drains /\ Exit(drain).pc \in {"flush", "finish"}
  BY ExitType DEF TypeInv, ClientTypes
<1>2. ASSUME NEW n \in Nat \ {0}, CountBytes(n), drain.pc = "loop"
      PROVE  \/ drain'.pc \in {"loop", "grant"}
             \/ drain'.pc \in {"flush", "finish"} /\ cpump = "done"
  <2>1. PICK d \in Nat \ {0} :
          /\ [drain EXCEPT !.drained = d] \in Drains
          /\ \/ cpump = "done" /\ drain' = Exit([drain EXCEPT !.drained = d])
             \/ drain' = [pc |-> "grant", drained |-> 0, grant |-> d]
             \/ drain' = [drain EXCEPT !.drained = d]
    BY <1>1, <1>2, Counted
  <2>2. PICK e : e = [drain EXCEPT !.drained = d]
    OBVIOUS
  <2>3. Exit(e).pc \in {"flush", "finish"} /\ e.pc = "loop"
    BY <1>1, <1>2, <2>1, <2>2, ExitType DEF Drains
  <2>4. \/ cpump = "done" /\ drain' = Exit(e)
        \/ drain' = [pc |-> "grant", drained |-> 0, grant |-> d]
        \/ drain' = e
    BY <2>1, <2>2
  <2> QED BY <2>3, <2>4
<1>3. CASE DrainRequest
  BY <1>1, <1>3 DEF DrainRequest, DrainFinishes, DrainReports
<1>4. CASE DrainPage
  <2>1. PICK n \in Nat \ {0} : CountBytes(n)
    <3>1. Head(down) \in Pages
      BY <1>4, FirstOf DEF DrainPage, TypeInv, StreamTypes
    <3> QED BY <1>4, <3>1 DEF DrainPage, WireBytes, Pages
  <2> QED BY <1>2, <1>4, <2>1 DEF DrainPage, DrainFinishes, DrainReports
<1>5. CASE DrainMisreads
  <2>1. \A n \in PageSizes : n \in Nat \ {0}
    BY ChannelsAssumption
  <2>2. drain' = drain \/ drain' = Exit(drain) \/ \E n \in Nat \ {0} : CountBytes(n)
    BY <1>5, <2>1 DEF DrainMisreads
  <2>3. drain.pc = "loop" /\ pageRead = "torn"
    BY <1>5 DEF DrainMisreads
  <2> QED BY <1>1, <1>2, <2>2, <2>3 DEF DrainFinishes, DrainReports
<1>6. CASE DrainReads \/ DrainEnds
  BY <1>1, <1>6 DEF DrainReads, DrainEnds, DrainFinishes, DrainReports
<1>7. CASE DrainGrants
  BY <1>7 DEF DrainGrants
<1>8. CASE DrainFinishes \/ DrainReports
  BY <1>1, <1>8 DEF DrainFinishes, DrainReports, Drain, Drains
<1> QED BY <1>3, <1>4, <1>5, <1>6, <1>7, <1>8 DEF DrainTask

(* Only the end of the session ends a pump.                                *)
LEMMA PumpStep ==
  ASSUME IInv, Next
  PROVE  PumpInv'
<1> USE DEF IInv, TypeInv, ClientTypes, ServerTypes, PhaseInv, PumpInv, Ended
<1>1. CASE ClientPump \/ User \/ DrainTask \/ Done
  <2>1. UNCHANGED serverVars
    BY <1>1, ClientOnly
  <2>2. cpump' = "done" <=> cpump = "done"
    BY <1>1 DEF ClientPump, User, DrainTask, SendChannelOpen, AwaitChannelAccept, IgnoreFrame,
       EnterScrollback, PageUp, SnapBack, RecvPage, ForwardControl, DrainRequest, DrainPage,
       DrainReads, DrainMisreads, DrainEnds, DrainGrants, DrainFinishes, DrainReports, Done,
       vars, clientVars
  <2>3. view'.active => view.active \/ cpump # "done"
    BY <1>1 DEF ClientPump, User, DrainTask, SendChannelOpen, AwaitChannelAccept, IgnoreFrame,
       EnterScrollback, PageUp, SnapBack, RecvPage, ForwardControl, DrainRequest, DrainPage,
       DrainReads, DrainMisreads, DrainEnds, DrainGrants, DrainFinishes, DrainReports, Done,
       vars, clientVars, Live, Views
  <2> QED BY <2>1, <2>2, <2>3 DEF serverVars
<1>2. CASE ServerPump \/ SenderTask
  <2>1. UNCHANGED clientVars
    BY <1>2, ServerOnly
  <2>2. spump' = "ended" <=> spump = "ended"
    <3>1. CASE RecvChannelClose
      BY <3>1 DEF RecvChannelClose, ServerReads, HandOn, Close
    <3>2. CASE BindStream
      BY <3>2 DEF BindStream, HandOn, Stream
    <3>3. CASE PumpResumes
      BY <3>3 DEF PumpResumes
    <3> QED BY <1>2, <3>1, <3>2, <3>3 DEF ServerPump, SenderTask, RecvChannelOpen, RecvCredit,
       WriteControl, AwaitStream, TaskEvents, ServeRequest, SenderReads, SenderMisreads,
       WritePage, SenderEnds, TaskFinishes, TaskReports
  <2> QED BY <2>1, <2>2 DEF clientVars
<1>3. CASE SessionEnds
  BY <1>3 DEF SessionEnds, Live
<1>4. CASE Output
  BY <1>4 DEF Output, ScrollUp, ClearScrollback, clientVars
<1> QED BY <1>1, <1>2, <1>3, <1>4 DEF Next

(* Only ChannelAccept starts the drain task.                               *)
LEMMA OffStep ==
  ASSUME IInv, Next
  PROVE  OffInv'
<1> USE DEF IInv, TypeInv, ClientTypes, PhaseInv, OffInv
<1>1. CASE drain.pc # "off"
  <2>1. drain'.pc # "off" /\ (cpump' \in {"start", "opening"} => cpump \in {"start", "opening"})
    <3>1. CASE ClientPump \/ User \/ SessionEnds
      BY <1>1, <3>1 DEF ClientPump, User, SendChannelOpen, AwaitChannelAccept, IgnoreFrame,
         EnterScrollback, PageUp, SnapBack, RecvPage, ForwardControl, SessionEnds, clientVars
    <3>2. CASE DrainTask
      <4>1. drain'.pc # "off"
        BY <3>2, DrainOutcome
      <4>2. cpump' = cpump
        BY <3>2 DEF DrainTask, DrainRequest, DrainPage, DrainReads, DrainMisreads, DrainEnds,
           DrainGrants, DrainFinishes, DrainReports
      <4> QED BY <4>1, <4>2
    <3>3. CASE ServerPump \/ SenderTask \/ Output \/ Done
      BY <1>1, <3>3, ServerOnly DEF clientVars
    <3> QED BY <3>1, <3>2, <3>3 DEF Next
  <2> QED BY <1>1, <2>1
<1>2. CASE drain.pc = "off" /\ AwaitChannelAccept
  BY <1>2 DEF AwaitChannelAccept, Drains
<1>3. CASE drain.pc = "off" /\ ~AwaitChannelAccept
  <2>1. drain' = drain /\ up' = up /\ cctrl' = cctrl /\ bound' = bound
    BY <1>3 DEF Next, ClientPump, User, DrainTask, ServerPump, SenderTask, SendChannelOpen,
       IgnoreFrame, EnterScrollback, PageUp, SnapBack, RecvPage, ForwardControl, DrainRequest,
       DrainPage, DrainReads, DrainMisreads, DrainEnds, DrainGrants, DrainFinishes,
       DrainReports, RecvChannelOpen, RecvCredit, RecvChannelClose, BindStream, PumpResumes,
       WriteControl, AwaitStream, TaskEvents, ServeRequest, SenderReads, SenderMisreads,
       WritePage, SenderEnds, TaskFinishes, TaskReports, SessionEnds, Output, ScrollUp,
       ClearScrollback, Done, vars, clientVars, streamVars
  <2>2. ~view'.active
    <3>1. CASE ClientPump \/ User \/ SessionEnds
      <4>1. CASE EnterScrollback \/ PageUp \/ SnapBack
        BY <1>3, <4>1 DEF EnterScrollback, PageUp, SnapBack, Live, ScrollbackAvailable
      <4>2. CASE RecvPage
        BY <1>3, <4>2 DEF RecvPage
      <4>3. CASE SendChannelOpen \/ IgnoreFrame \/ ForwardControl \/ SessionEnds
        BY <1>3, <4>3 DEF SendChannelOpen, IgnoreFrame, ForwardControl, SessionEnds, clientVars,
           Live
      <4> QED BY <1>3, <3>1, <4>1, <4>2, <4>3 DEF ClientPump, User
    <3>2. CASE DrainTask
      BY <1>3, <3>2 DEF DrainTask, DrainRequest, DrainPage, DrainReads, DrainMisreads,
         DrainEnds, DrainGrants, DrainFinishes, DrainReports
    <3>3. CASE ServerPump \/ SenderTask \/ Output \/ Done
      BY <1>3, <3>3, ServerOnly DEF clientVars
    <3> QED BY <3>1, <3>2, <3>3 DEF Next
  <2> QED BY <1>3, <2>1, <2>2
<1> QED BY <1>1, <1>2, <1>3

(* ChannelOpen reaches a server that has no task yet.                      *)
LEMMA OpenedOnce ==
  ASSUME TypeInv, OpenInv, RecvChannelOpen
  PROVE  c2s = <<Open>> /\ task.pc = "off"
<1>1. Has(c2s, "ChannelOpen") /\ c2s # <<>>
  BY FirstOf DEF RecvChannelOpen, ServerReads, Has, TypeInv, StreamTypes
<1> QED BY <1>1 DEF OpenInv

(* The client's one ChannelOpen is the only frame before it is accepted.   *)
LEMMA OpenStep ==
  ASSUME IInv, Next
  PROVE  OpenInv'
<1> USE DEF IInv, TypeInv, StreamTypes, PhaseInv, OffInv, OpenInv
<1>1. (cpump = "start" => c2s = <<>> /\ task.pc = "off")'
  <2>1. CASE cpump' = "start"
    <3>1. cpump = "start" /\ UNCHANGED c2s /\ UNCHANGED task
      <4>1. CASE ClientPump \/ User \/ DrainTask \/ Output \/ Done \/ SessionEnds
        BY <2>1, <4>1 DEF ClientPump, User, DrainTask, SendChannelOpen, AwaitChannelAccept,
           IgnoreFrame, EnterScrollback, PageUp, SnapBack, RecvPage, ForwardControl,
           DrainRequest, DrainPage, DrainReads, DrainMisreads, DrainEnds, DrainGrants,
           DrainFinishes, DrainReports, SessionEnds, Output, ScrollUp, ClearScrollback, Done,
           vars, clientVars, streamVars, serverVars
      <4>2. CASE ServerPump \/ SenderTask
        <5>1. cpump = "start"
          BY <2>1, <4>2, ServerOnly DEF clientVars
        <5> QED BY <4>2, <5>1 DEF ServerPump, SenderTask, RecvChannelOpen, RecvCredit,
           RecvChannelClose, ServerReads, BindStream, PumpResumes, WriteControl, AwaitStream,
           TaskEvents, ServeRequest, SenderReads, SenderMisreads, WritePage, SenderEnds,
           TaskFinishes, TaskReports, streamVars
      <4> QED BY <4>1, <4>2 DEF Next
    <3> QED BY <3>1
  <2> QED BY <2>1
<1>2. CASE RecvChannelOpen
  <2>1. c2s = <<Open>> /\ task.pc = "off"
    BY <1>2, OpenedOnce
  <2>2. c2s' = <<>>
    BY <1>2, <2>1 DEF RecvChannelOpen, ServerReads
  <2>3. ~Has(c2s', "ChannelOpen")
    BY <2>2 DEF Has
  <2>4. CASE task'.pc = "off"
    <3>1. s2c' = Append(s2c, Reject) /\ UNCHANGED mapped
      BY <1>2, <2>1, <2>4 DEF RecvChannelOpen, ServerTypes, Tasks
    <3>2. \A i \in DOMAIN s2c' : s2c'[i] # Accept
      <4>1. Reject \in Frames({"ChannelAccept", "ChannelReject", "ChannelClose"}) /\ Reject # Accept
        BY DEF Reject, Accept, Frames
      <4> QED BY <2>1, <3>1, <4>1, LastOf
    <3> QED BY <1>1, <1>2, <2>1, <2>2, <2>4, <3>1, <3>2 DEF RecvChannelOpen, clientVars
  <2>5. CASE task'.pc # "off"
    BY <1>1, <2>3, <2>5
  <2> QED BY <2>4, <2>5
<1>3. CASE ~RecvChannelOpen /\ task.pc = "off"
  <2>1. UNCHANGED task /\ ~mapped'
    <3>1. CASE ClientPump \/ User \/ DrainTask \/ Done
      BY <1>3, <3>1, ClientOnly DEF serverVars
    <3>2. CASE SenderTask
      BY <1>3, <3>2 DEF SenderTask, AwaitStream, TaskEvents, SenderReads, ServeRequest,
         SenderMisreads, WritePage, SenderEnds, TaskFinishes, TaskReports
    <3>3. CASE ServerPump \/ Output \/ SessionEnds
      BY <1>3, <3>3 DEF ServerPump, RecvCredit, RecvChannelClose, BindStream, PumpResumes,
         WriteControl, Output, ScrollUp, ClearScrollback, SessionEnds
    <3> QED BY <3>1, <3>2, <3>3 DEF Next
  <2>2. drain'.pc = "off"
    <3>1. CASE AwaitChannelAccept
      <4>1. Head(s2c) # Accept
        BY <1>3, <3>1, FirstOf DEF AwaitChannelAccept
      <4> QED BY <1>3, <3>1, <4>1 DEF AwaitChannelAccept
    <3>2. CASE ~AwaitChannelAccept
      BY <1>3, <3>2 DEF Next, ClientPump, User, DrainTask, ServerPump, SenderTask,
         SendChannelOpen, IgnoreFrame, EnterScrollback, PageUp, SnapBack, RecvPage,
         ForwardControl, DrainRequest, DrainPage, DrainReads, DrainMisreads, DrainEnds,
         DrainGrants, DrainFinishes, DrainReports, RecvCredit, RecvChannelClose, BindStream,
         PumpResumes, WriteControl, AwaitStream, TaskEvents, ServeRequest, SenderReads,
         SenderMisreads, WritePage, SenderEnds, TaskFinishes, TaskReports, SessionEnds, Output,
         ScrollUp, ClearScrollback, Done, vars, clientVars
    <3> QED BY <3>1, <3>2
  <2>3. c2s' \in {<<>>, <<Open>>}
    <3>1. c2s # <<>> => Head(c2s).t = "ChannelOpen"
      BY <1>3 DEF Open
    <3>2. CASE SendChannelOpen
      BY <3>2 DEF SendChannelOpen
    <3>3. CASE ~SendChannelOpen
      <4>1. UNCHANGED c2s
        BY <1>3, <3>1, <3>3 DEF Next, ClientPump, User, DrainTask, ServerPump, SenderTask,
           AwaitChannelAccept, IgnoreFrame, EnterScrollback, PageUp, SnapBack, RecvPage,
           ForwardControl, DrainRequest, DrainPage, DrainReads, DrainMisreads, DrainEnds,
           DrainGrants, DrainFinishes, DrainReports, RecvCredit, RecvChannelClose, ServerReads,
           BindStream, PumpResumes, WriteControl, AwaitStream, TaskEvents, ServeRequest,
           SenderReads, SenderMisreads, WritePage, SenderEnds, TaskFinishes, TaskReports,
           SessionEnds, Output, ScrollUp, ClearScrollback, Done, vars, streamVars
      <4> QED BY <1>3, <4>1
    <3> QED BY <3>2, <3>3
  <2>4. \A i \in DOMAIN s2c' : s2c'[i] # Accept
    <3>1. s2c' = s2c \/ (s2c # <<>> /\ s2c' = Tail(s2c))
      BY <1>3 DEF Next, ClientPump, User, DrainTask, ServerPump, SenderTask, SendChannelOpen,
         AwaitChannelAccept, IgnoreFrame, EnterScrollback, PageUp, SnapBack, RecvPage,
         ForwardControl, DrainRequest, DrainPage, DrainReads, DrainMisreads, DrainEnds,
         DrainGrants, DrainFinishes, DrainReports, RecvCredit, RecvChannelClose, BindStream,
         PumpResumes, WriteControl, AwaitStream, TaskEvents, ServeRequest, SenderReads,
         SenderMisreads, WritePage, SenderEnds, TaskFinishes, TaskReports, SessionEnds, Output,
         ScrollUp, ClearScrollback, Done, vars, streamVars, WorkInv
    <3>2. CASE s2c' = s2c
      BY <1>3, <3>2
    <3>3. CASE s2c # <<>> /\ s2c' = Tail(s2c)
      BY <1>3, <3>3, FirstOf
    <3> QED BY <3>1, <3>2, <3>3
  <2> QED BY <1>1, <1>3, <2>1, <2>2, <2>3, <2>4
<1>4. CASE ~RecvChannelOpen /\ task.pc # "off"
  <2>1. task'.pc # "off"
    <3>1. CASE SenderTask
      <4>1. CASE TaskEvents
        BY <4>1, TaskEventsOutcome
      <4>2. CASE AwaitStream
        BY <4>2, AwaitStreamOutcome
      <4>3. CASE ServeRequest \/ SenderMisreads
        BY <4>3, SenderOutcome
      <4>4. CASE WritePage
        BY <4>4 DEF WritePage
      <4>5. CASE SenderReads \/ SenderEnds \/ TaskFinishes \/ TaskReports
        BY <1>4, <4>5 DEF SenderReads, SenderEnds, TaskFinishes, TaskReports, Task, ServerTypes,
           Tasks
      <4> QED BY <3>1, <4>1, <4>2, <4>3, <4>4, <4>5 DEF SenderTask
    <3>2. CASE ~SenderTask
      BY <1>4, <3>2, ClientOnly DEF Next, ServerPump, RecvCredit, RecvChannelClose, BindStream,
         PumpResumes, WriteControl, SessionEnds, Output, ScrollUp, ClearScrollback, serverVars
    <3> QED BY <3>1, <3>2
  <2>2. ~Has(c2s', "ChannelOpen")
    <3>1. CASE ForwardControl
      <4>1. Head(cctrl).t # "ChannelOpen" /\ Head(cctrl) \in Frames({"ScrollbackCredit", "ChannelClose"})
        <5>1. Head(cctrl) \in Frames({"ScrollbackCredit", "ChannelClose"})
          BY <3>1, FirstOf DEF ForwardControl, ClientTypes
        <5> QED BY <5>1 DEF Frames
      <4>2. Head(cctrl) \in Frames({"ChannelOpen", "ScrollbackCredit", "ChannelClose"})
        BY <4>1 DEF Frames
      <4> QED BY <1>4, <3>1, <4>1, <4>2, HasRules DEF ForwardControl
    <3>2. CASE RecvCredit \/ RecvChannelClose
      BY <1>4, <3>2, HasRules DEF RecvCredit, RecvChannelClose, ServerReads
    <3>3. CASE ~ForwardControl /\ ~RecvCredit /\ ~RecvChannelClose
      <4>1. UNCHANGED c2s
        BY <1>4, <3>3 DEF Next, ClientPump, User, DrainTask, ServerPump, SenderTask,
           SendChannelOpen, AwaitChannelAccept, IgnoreFrame, EnterScrollback, PageUp, SnapBack,
           RecvPage, DrainRequest, DrainPage, DrainReads, DrainMisreads, DrainEnds,
           DrainGrants, DrainFinishes, DrainReports, BindStream, PumpResumes, WriteControl,
           AwaitStream, TaskEvents, ServeRequest, SenderReads, SenderMisreads, WritePage,
           SenderEnds, TaskFinishes, TaskReports, SessionEnds, Output, ScrollUp,
           ClearScrollback, Done, vars, streamVars
      <4> QED BY <1>4, <4>1
    <3> QED BY <3>1, <3>2, <3>3
  <2> QED BY <1>1, <2>1, <2>2
<1> QED BY <1>2, <1>3, <1>4

(* The session does not start again, and the pumps end only with it.       *)
LEMMA StaysEnded ==
  ASSUME IInv, Next
  PROVE  /\ Ended => Ended'
         /\ ~Ended' => ~SessionEnds /\ cpump # "done" /\ ~Ended
BY PumpStep DEF IInv, PhaseInv, PumpInv, Ended, Next, ClientPump, User, DrainTask, ServerPump,
   SenderTask, SendChannelOpen, AwaitChannelAccept, IgnoreFrame, EnterScrollback, PageUp,
   SnapBack, RecvPage, ForwardControl, DrainRequest, DrainPage, DrainReads, DrainMisreads,
   DrainEnds, DrainGrants, DrainFinishes, DrainReports, RecvChannelOpen, RecvCredit,
   RecvChannelClose, ServerReads, BindStream, PumpResumes, WriteControl, AwaitStream,
   TaskEvents, ServeRequest, SenderReads, SenderMisreads, WritePage, SenderEnds, TaskFinishes,
   TaskReports, SessionEnds, Output, ScrollUp, ClearScrollback, Done, vars, serverVars

(* Only the task and ChannelOpen move the task.                            *)
LEMMA TaskMoves ==
  ASSUME Next, ~SenderTask, ~RecvChannelOpen
  PROVE  task' = task
BY ClientOnly DEF Next, ServerPump, RecvCredit, RecvChannelClose, BindStream, PumpResumes,
   WriteControl, SessionEnds, Output, ScrollUp, ClearScrollback, serverVars

(* A read that was dropped is never made good.                             *)
LEMMA TornStays ==
  ASSUME Next
  PROVE  /\ pageRead = "torn" => pageRead' = "torn"
         /\ reqRead = "torn" => reqRead' = "torn"
<1>1. CASE ServerPump \/ SenderTask \/ Output \/ Done
  <2>1. pageRead' = pageRead
    BY <1>1, ServerOnly DEF clientVars
  <2>2. reqRead = "torn" => reqRead' = "torn"
    BY <1>1 DEF ServerPump, SenderTask, RecvChannelOpen, RecvCredit, RecvChannelClose,
       BindStream, PumpResumes, WriteControl, AwaitStream, TaskEvents, SenderReads,
       ServeRequest, SenderMisreads, WritePage, SenderEnds, TaskFinishes, TaskReports, Output,
       ScrollUp, ClearScrollback, Done, vars, serverVars
  <2> QED BY <2>1, <2>2
<1>2. CASE ClientPump \/ User \/ DrainTask
  <2>1. reqRead' = reqRead
    BY <1>2, ClientOnly DEF serverVars
  <2>2. pageRead = "torn" => pageRead' = "torn"
    BY <1>2 DEF ClientPump, User, DrainTask, SendChannelOpen, AwaitChannelAccept, IgnoreFrame,
       EnterScrollback, PageUp, SnapBack, RecvPage, ForwardControl, DrainRequest, DrainReads,
       DrainPage, DrainMisreads, DrainEnds, DrainGrants, DrainFinishes, DrainReports, clientVars
  <2> QED BY <2>1, <2>2
<1>3. CASE SessionEnds
  BY <1>3 DEF SessionEnds
<1> QED BY <1>1, <1>2, <1>3 DEF Next

(* Before the task has its stream the drain task dropped no read, so that nothing ends  *)
(* but with the session.                                                                 *)
LEMMA EarlyWork ==
  ASSUME WorkInv, EarlyInv, task.pc \in {"off", "bind"}, ~Ended
  PROVE  /\ Draining /\ spump = "run" /\ ~Has(c2s, "ChannelClose")
         /\ task.pc # "off" => mapped
BY DEF WorkInv, EarlyInv, Early, Working

(* A task that works did so before: none begins again.                     *)
LEMMA KeepsWorking ==
  ASSUME TypeInv, OpenInv, Next, Working'
  PROVE  Working /\ ~TaskFinishes /\ ~TaskReports /\ ~SenderEnds
<1> USE DEF TypeInv, ServerTypes, Working
<1>1. CASE RecvChannelOpen
  <2>1. task.pc = "off"
    BY <1>1, OpenedOnce
  <2> QED BY <1>1, <2>1 DEF RecvChannelOpen, TaskFinishes, TaskReports, SenderEnds
<1>2. CASE \/ AwaitStream \/ TaskEvents \/ SenderReads \/ ServeRequest \/ SenderMisreads
           \/ WritePage
  <2>1. task.pc \in {"bind", "serve", "wait", "write"}
    BY <1>2 DEF AwaitStream, TaskEvents, SenderReads, ServeRequest, SenderMisreads, WritePage
  <2>2. ~TaskFinishes /\ ~TaskReports
    BY <2>1 DEF TaskFinishes, TaskReports
  <2>3. ~SenderEnds
    BY DEF SenderEnds, Task, Tasks
  <2> QED BY <2>1, <2>2, <2>3
<1>3. CASE TaskFinishes \/ TaskReports \/ SenderEnds
  BY <1>3 DEF TaskFinishes, TaskReports, SenderEnds, Task, Tasks
<1>4. CASE ~SenderTask /\ ~RecvChannelOpen
  BY <1>4, TaskMoves DEF SenderTask
<1> QED BY <1>1, <1>2, <1>3, <1>4 DEF SenderTask

(* The drain task does not begin again, and ends only when its stream, the session or   *)
(* the channel has.                                                                      *)
LEMMA KeepsDraining ==
  ASSUME TypeInv, OffInv, Next
  PROVE  /\ Draining' => Draining /\ ~DrainFinishes /\ ~DrainReports
         /\ Draining /\ ~Draining' =>
              downEOF \/ bound = "reset" \/ Ended \/ cpump = "done" \/ pageRead = "torn"
<1> USE DEF TypeInv, ClientTypes, Draining
<1>1. CASE DrainTask
  BY <1>1, DrainOutcome DEF DrainTask, DrainFinishes, DrainReports
<1>2. CASE AwaitChannelAccept
  <2>1. drain.pc = "off" /\ Draining'
    BY <1>2 DEF AwaitChannelAccept, OffInv, Drains
  <2> QED BY <2>1 DEF DrainFinishes, DrainReports
<1>3. CASE ~DrainTask /\ ~AwaitChannelAccept
  <2>1. drain' = drain /\ ~DrainFinishes /\ ~DrainReports
    BY <1>3, ServerOnly DEF Next, ClientPump, User, DrainTask, SendChannelOpen, IgnoreFrame,
       EnterScrollback, PageUp, SnapBack, RecvPage, ForwardControl, SessionEnds, clientVars
  <2> QED BY <2>1
<1> QED BY <1>1, <1>2, <1>3

(* While the task works nothing ends but with the session.                 *)
LEMMA WorkStep ==
  ASSUME IInv, Next
  PROVE  WorkInv'
<1> USE DEF IInv, TypeInv, PhaseInv
<1>1. (Draining => ~Has(cctrl, "ChannelClose") /\ ~Has(c2s, "ChannelClose"))'
  <2> SUFFICES ASSUME Draining' PROVE ~Has(cctrl', "ChannelClose") /\ ~Has(c2s', "ChannelClose")
    OBVIOUS
  <2>1. /\ ~Has(cctrl, "ChannelClose") /\ ~Has(c2s, "ChannelClose")
        /\ ~DrainReports
    BY KeepsDraining DEF WorkInv
  <2>2. CASE DrainGrants
    <3>1. Credit(drain.grant) \in Frames({"ScrollbackCredit", "ChannelClose"})
      BY DEF Credit, Frames, ClientTypes, Drains
    <3>2. ~Has(Append(cctrl, Credit(drain.grant)), "ChannelClose")
      BY <2>1, <3>1, HasRules DEF ClientTypes, Credit
    <3> QED BY <2>1, <2>2, <3>2 DEF DrainGrants, streamVars
  <2>3. CASE SendChannelOpen
    <3>1. Open \in Frames({"ChannelOpen", "ScrollbackCredit", "ChannelClose"})
      BY DEF Open, Frames
    <3> QED BY <2>1, <2>3, <3>1, HasRules DEF SendChannelOpen, StreamTypes, Open
  <2>4. CASE ForwardControl
    <3>1. /\ Head(cctrl) \in Frames({"ScrollbackCredit", "ChannelClose"})
          /\ Head(cctrl).t # "ChannelClose"
      BY <2>1, <2>4, FirstOf DEF ForwardControl, ClientTypes, Has
    <3>2. Head(cctrl) \in Frames({"ChannelOpen", "ScrollbackCredit", "ChannelClose"})
      BY <3>1 DEF Frames
    <3>3. ~Has(cctrl', "ChannelClose")
      BY <2>1, <2>4, HasRules DEF ForwardControl, ClientTypes
    <3>4. ~Has(c2s', "ChannelClose")
      BY <2>1, <2>4, <3>1, <3>2, HasRules DEF ForwardControl, StreamTypes
    <3> QED BY <3>3, <3>4
  <2>5. CASE RecvChannelOpen \/ RecvCredit \/ RecvChannelClose
    <3>1. ~Has(c2s', "ChannelClose")
      BY <2>1, <2>5, HasRules DEF RecvChannelOpen, RecvCredit, RecvChannelClose, ServerReads,
         StreamTypes
    <3> QED BY <2>1, <2>5, <3>1 DEF RecvChannelOpen, RecvCredit, RecvChannelClose, clientVars
  <2>6. CASE \/ AwaitChannelAccept \/ IgnoreFrame \/ RecvPage \/ User
             \/ DrainRequest \/ DrainReads \/ DrainPage \/ DrainMisreads \/ DrainEnds
             \/ DrainFinishes \/ BindStream \/ PumpResumes \/ WriteControl \/ SenderTask
             \/ Output \/ SessionEnds \/ Done
    <3>1. UNCHANGED <<cctrl, c2s>>
      BY <2>6 DEF AwaitChannelAccept, IgnoreFrame, RecvPage, User, EnterScrollback, PageUp,
         SnapBack, DrainRequest, DrainPage, DrainReads, DrainMisreads, DrainEnds,
         DrainFinishes, BindStream, PumpResumes, WriteControl, SenderTask, AwaitStream,
         TaskEvents, ServeRequest, SenderReads, SenderMisreads, WritePage, SenderEnds,
         TaskFinishes, TaskReports, SessionEnds, Output, ScrollUp, ClearScrollback, Done, vars,
         clientVars, streamVars
    <3> QED BY <2>1, <3>1
  <2> QED BY <2>1, <2>2, <2>3, <2>4, <2>5, <2>6 DEF Next, ClientPump, DrainTask, ServerPump
<1>2. (task.pc # "gone" => sctrl = <<>>)'
  <2>1. CASE TaskReports
    BY <2>1 DEF TaskReports
  <2>2. CASE WriteControl
    BY <2>2 DEF WriteControl, WorkInv
  <2>3. CASE RecvChannelOpen
    <3>1. task.pc = "off"
      BY <2>3, OpenedOnce
    <3> QED BY <2>3, <3>1 DEF RecvChannelOpen, WorkInv
  <2>4. CASE ~TaskReports /\ ~WriteControl /\ ~RecvChannelOpen
    <3>1. sctrl' = sctrl
      BY <2>4, ClientOnly DEF Next, ServerPump, SenderTask, RecvCredit, RecvChannelClose,
         BindStream, PumpResumes, AwaitStream, TaskEvents, ServeRequest, SenderReads,
         SenderMisreads, WritePage, SenderEnds, TaskFinishes, SessionEnds, Output, ScrollUp,
         ClearScrollback, serverVars
    <3>2. task.pc = "gone" => task'.pc = "gone"
      <4>1. task.pc = "gone" => ~SenderTask
        BY <2>4 DEF SenderTask, AwaitStream, TaskEvents, ServeRequest, SenderReads,
           SenderMisreads, WritePage, SenderEnds, TaskFinishes
      <4> QED BY <2>4, <4>1, TaskMoves
    <3> QED BY <3>1, <3>2 DEF WorkInv
  <2> QED BY <2>1, <2>2, <2>3, <2>4
<1>3. SUFFICES ASSUME Working', ~Ended', pageRead' # "torn"
               PROVE  /\ Draining' /\ spump' = "run"
                      /\ bound' # "reset" /\ ~downEOF' /\ ~upEOF'
                      /\ task'.pc # "off" => mapped'
  BY <1>1, <1>2 DEF WorkInv
<1>4. /\ Working /\ ~Ended /\ cpump # "done" /\ ~SessionEnds
      /\ ~TaskFinishes /\ ~TaskReports /\ ~SenderEnds /\ pageRead # "torn"
  BY <1>3, KeepsWorking, StaysEnded, TornStays
<1>5. /\ Draining /\ spump = "run" /\ bound # "reset" /\ ~downEOF /\ ~upEOF
      /\ (task.pc # "off" => mapped) /\ sctrl = <<>> /\ ~Has(c2s, "ChannelClose")
  BY <1>4 DEF WorkInv, Working
<1>6. Draining' /\ ~DrainFinishes /\ ~DrainReports
  BY <1>4, <1>5, KeepsDraining
<1>7. ~RecvChannelClose /\ ~WriteControl
  BY <1>5, FirstOf DEF RecvChannelClose, ServerReads, WriteControl, Has, StreamTypes
<1>8. CASE BindStream
  <2>1. task.pc = "bind" /\ evq = <<>> /\ Len(evq) = 0
    BY <1>8, BindRoom DEF BindStream
  <2> QED BY <1>5, <1>6, <1>8, <2>1, ChannelsAssumption DEF BindStream, HandOn
<1>9. CASE RecvChannelOpen
  BY <1>5, <1>6, <1>9 DEF RecvChannelOpen, ServerTypes, Tasks
<1>10. CASE ~BindStream /\ ~RecvChannelOpen
  <2>1. spump' = "run" /\ mapped' = mapped
    BY <1>4, <1>5, <1>7, <1>10, ClientOnly DEF Next, Output, ScrollUp, ClearScrollback,
       ServerPump, SenderTask, RecvCredit, PumpResumes, AwaitStream, TaskEvents, ServeRequest,
       SenderReads, SenderMisreads, WritePage, serverVars
  <2>2. bound' = bound \/ bound' = "flight"
    BY <1>4, <1>6, <1>7, <1>10 DEF Next, Output, ScrollUp, ClearScrollback, ClientPump, User,
       DrainTask, ServerPump, SenderTask, SendChannelOpen, AwaitChannelAccept, IgnoreFrame,
       EnterScrollback, PageUp, SnapBack, RecvPage, ForwardControl, DrainRequest, DrainPage,
       DrainReads, DrainMisreads, DrainEnds, DrainGrants, RecvCredit, PumpResumes, AwaitStream,
       TaskEvents, ServeRequest, SenderReads, SenderMisreads, WritePage, Done, vars, streamVars
  <2>3. downEOF' = downEOF /\ upEOF' = upEOF
    BY <1>4, <1>6, <1>7, <1>10 DEF Next, Output, ScrollUp, ClearScrollback, ClientPump, User,
       DrainTask, ServerPump, SenderTask, SendChannelOpen, AwaitChannelAccept, IgnoreFrame,
       EnterScrollback, PageUp, SnapBack, RecvPage, ForwardControl, DrainRequest, DrainPage,
       DrainReads, DrainMisreads, DrainEnds, DrainGrants, RecvCredit, PumpResumes, AwaitStream,
       TaskEvents, ServeRequest, SenderReads, SenderMisreads, WritePage, Done, vars, streamVars
  <2>4. task.pc = "off" => task'.pc = "off"
    <3>1. task.pc = "off" => ~SenderTask
      BY <1>4 DEF SenderTask, AwaitStream, TaskEvents, ServeRequest, SenderReads,
         SenderMisreads, WritePage
    <3> QED BY <1>10, <3>1, TaskMoves
  <2> QED BY <1>5, <1>6, <2>1, <2>2, <2>3, <2>4
<1> QED BY <1>8, <1>9, <1>10

(* The task's queue holds its stream while it waits for it, credits while it serves.    *)
LEMMA QueueStep ==
  ASSUME IInv, Next
  PROVE  QueueInv'
<1> USE DEF IInv, TypeInv, PhaseInv
<1>1. evq \in Seq(Frames({"Stream", "ScrollbackCredit", "ChannelClose"})) /\ task \in Tasks
  BY DEF ServerTypes
<1>2. CASE RecvChannelOpen
  <2>1. task.pc = "off" /\ evq = <<>> /\ bound = "none" /\ evq' = evq /\ bound' = bound
    BY <1>2, OpenedOnce DEF RecvChannelOpen, QueueInv, OpenInv, OffInv
  <2>2. task'.pc \in {"off", "bind"}
    BY <1>1, <1>2, <2>1 DEF RecvChannelOpen, Tasks
  <2> QED BY <2>1, <2>2 DEF QueueInv, Serving
<1>3. CASE BindStream
  <2>1. task.pc = "bind" /\ evq = <<>> /\ Len(evq) = 0 /\ mapped /\ task' = task
    BY <1>3, BindRoom, EarlyWork DEF BindStream, CreditInv, Ended
  <2>2. evq' = Append(evq, Stream) /\ bound' = "bound"
    BY <1>3, <2>1, ChannelsAssumption DEF BindStream, HandOn
  <2>3. evq' = <<Stream>>
    BY <2>1, <2>2
  <2> QED BY <2>1, <2>2, <2>3 DEF QueueInv, Serving
<1>4. CASE AwaitStream
  <2>1. task.pc = "bind" /\ bound' = bound
    BY <1>4 DEF AwaitStream, streamVars
  <2>2. CASE bound = "bound"
    <3>1. evq = <<Stream>> /\ evq # <<>> /\ Head(evq).t = "Stream"
      BY <2>1, <2>2 DEF QueueInv, Stream
    <3>2. evq' = <<>>
      BY <1>4, <3>1 DEF AwaitStream
    <3>3. task'.pc = "serve"
      BY <1>1, <1>4, <3>1 DEF AwaitStream, TaskEvent, Tasks
    <3> QED BY <2>1, <2>2, <3>2, <3>3 DEF QueueInv
  <2>3. CASE bound # "bound"
    <3>1. evq = <<>>
      BY <2>1, <2>3 DEF QueueInv
    <3>2. evq' = <<>> /\ task'.pc = "report" /\ Ended
      BY <1>4, <3>1, AwaitStreamOutcome
    <3>3. Ended'
      BY <3>2, StaysEnded
    <3> QED BY <3>2, <3>3 DEF QueueInv, Serving
  <2> QED BY <2>2, <2>3
<1>5. CASE TaskEvents
  <2>1. Serving /\ bound' = bound /\ task'.pc \in {"serve", "wait", "write", "finish"}
    BY <1>5, TaskEventsOutcome DEF Serving, TaskEvents, streamVars
  <2>2. pageRead' # "torn" => \A i \in DOMAIN evq' : evq'[i].t = "ScrollbackCredit"
    <3>1. evq' = evq \/ (evq # <<>> /\ evq' = Tail(evq))
      BY <1>5 DEF TaskEvents
    <3> QED BY <1>1, <2>1, <3>1, FirstOf, TornStays DEF QueueInv
  <2> QED BY <2>1, <2>2 DEF QueueInv, Serving
<1>6. CASE SenderReads \/ ServeRequest \/ SenderMisreads \/ WritePage
  <2>1. Serving /\ UNCHANGED <<evq, bound, pageRead>>
    BY <1>6 DEF SenderReads, ServeRequest, SenderMisreads, WritePage, Serving, clientVars,
       streamVars
  <2>2. task'.pc \in {"serve", "wait", "write", "finish"}
    <3>1. CASE ServeRequest \/ SenderMisreads
      BY <3>1, SenderOutcome
    <3>2. CASE SenderReads \/ WritePage
      BY <3>2 DEF SenderReads, WritePage
    <3> QED BY <1>6, <3>1, <3>2
  <2> QED BY <2>1, <2>2 DEF QueueInv, Serving
<1>7. CASE SenderEnds \/ TaskFinishes \/ TaskReports
  <2>1. /\ task'.pc \in {"finish", "report", "gone"}
        /\ task.pc \notin {"off", "bind"} /\ UNCHANGED bound
    BY <1>1, <1>7 DEF SenderEnds, TaskFinishes, TaskReports, Task, Tasks, streamVars
  <2>2. Ended => Ended'
    BY StaysEnded
  <2> QED BY <2>1, <2>2 DEF QueueInv, Serving
<1>8. CASE RecvCredit
  <2>1. task' = task /\ bound' = bound /\ spump' = spump
    BY <1>8 DEF RecvCredit
  <2>2. /\ Head(c2s).t = "ScrollbackCredit" /\ 1 \in DOMAIN c2s /\ c2s[1] = Head(c2s)
        /\ Head(c2s) \in Frames({"ChannelOpen", "ScrollbackCredit", "ChannelClose"}) /\ ~Ended
    BY <1>8, FirstOf DEF RecvCredit, ServerReads, StreamTypes, Ended
  <2>3. task.pc \notin {"off", "bind"}
    <3> SUFFICES ASSUME task.pc \in {"off", "bind"} PROVE FALSE
      OBVIOUS
    <3>1. Draining
      BY <2>2, EarlyWork DEF CreditInv
    <3>2. c2s[1].n = 0 /\ c2s[1].n >= Chunk
      BY <2>2, <3>1 DEF CreditInv, GrantInv, Fair, Early
    <3> QED BY <3>2, ChannelsAssumption
  <2>4. Serving /\ pageRead' # "torn" => \A i \in DOMAIN evq' : evq'[i].t = "ScrollbackCredit"
    <3>1. Head(c2s) \in Frames({"Stream", "ScrollbackCredit", "ChannelClose"})
      BY <2>2 DEF Frames
    <3>2. \A i \in DOMAIN TrySend(evq, EventCap, Head(c2s)) :
            \/ i \in DOMAIN evq /\ TrySend(evq, EventCap, Head(c2s))[i] = evq[i]
            \/ TrySend(evq, EventCap, Head(c2s))[i] = Head(c2s)
      BY <1>1, <3>1, ChannelsAssumption, TrySent, SMTT(40)
    <3>3. evq' = evq \/ evq' = TrySend(evq, EventCap, Head(c2s))
      BY <1>8 DEF RecvCredit
    <3> QED BY <2>2, <3>2, <3>3, TornStays DEF QueueInv
  <2> QED BY <2>1, <2>2, <2>3, <2>4 DEF QueueInv, Serving, Ended
<1>9. CASE RecvChannelClose \/ PumpResumes
  <2>1. task' = task /\ bound' = bound /\ Ended' = Ended
    BY <1>9 DEF RecvChannelClose, PumpResumes, streamVars, ServerReads, HandOn, Close, Ended
  <2>2. task.pc \notin {"off", "bind"} /\ (Serving => pageRead = "torn" /\ pageRead' = "torn")
    <3>1. ~Ended /\ (Has(c2s, "ChannelClose") \/ spump # "run")
      BY <1>9, FirstOf DEF RecvChannelClose, PumpResumes, ServerReads, Has, StreamTypes, Ended
    <3>2. task.pc \notin {"off", "bind"}
      BY <3>1, EarlyWork DEF CreditInv
    <3>3. Serving => pageRead = "torn"
      BY <3>1 DEF WorkInv, Working, Serving
    <3> QED BY <3>2, <3>3, TornStays
  <2> QED BY <2>1, <2>2 DEF QueueInv, Serving
<1>10. CASE ClientPump \/ User \/ DrainTask \/ Done
  <2>1. task' = task /\ evq' = evq /\ Ended' = Ended
    BY <1>10, ClientOnly DEF serverVars, Ended
  <2>2. bound' = bound \/ (bound = "none" /\ bound' = "flight")
    BY <1>10 DEF ClientPump, User, DrainTask, SendChannelOpen, AwaitChannelAccept, IgnoreFrame,
       EnterScrollback, PageUp, SnapBack, RecvPage, ForwardControl, DrainRequest, DrainPage,
       DrainReads, DrainMisreads, DrainEnds, DrainGrants, DrainFinishes, DrainReports, Done,
       vars, streamVars, OffInv
  <2> QED BY <2>1, <2>2, TornStays DEF QueueInv, Serving
<1>11. CASE WriteControl \/ Output \/ SessionEnds
  <2>1. UNCHANGED <<task, evq, bound>> /\ (Ended => Ended')
    BY <1>11 DEF WriteControl, Output, ScrollUp, ClearScrollback, SessionEnds, streamVars, Ended
  <2> QED BY <2>1, TornStays DEF QueueInv, Serving
<1> QED BY <1>2, <1>3, <1>4, <1>5, <1>6, <1>7, <1>8, <1>9, <1>10, <1>11
        DEF Next, ServerPump, SenderTask

(* The task holds a page only while it waits for credit, writes or ends.   *)
LEMMA PageStep ==
  ASSUME IInv, Next
  PROVE  PageInv'
<1> USE DEF IInv, TypeInv, ServerTypes, RequestInv, PageInv
<1>1. CASE RecvChannelOpen
  <2>1. task.pc = "off" /\ task'.page = task.page
    BY <1>1, OpenedOnce DEF RecvChannelOpen, PhaseInv, Tasks
  <2> QED BY <2>1
<1>2. CASE AwaitStream
  BY <1>2, AwaitStreamOutcome
<1>3. CASE TaskEvents
  BY <1>3, TaskEventsOutcome
<1>4. CASE ServeRequest \/ SenderMisreads
  BY <1>4, SenderOutcome
<1>5. CASE WritePage \/ TaskReports
  BY <1>5 DEF WritePage, TaskReports
<1>6. CASE SenderReads \/ SenderEnds \/ TaskFinishes
  BY <1>6 DEF SenderReads, SenderEnds, TaskFinishes, Task, Tasks
<1>7. CASE ~SenderTask /\ ~RecvChannelOpen
  BY <1>7, TaskMoves
<1> QED BY <1>1, <1>2, <1>3, <1>4, <1>5, <1>6, <1>7 DEF SenderTask

(* Only these actions move requests and pages, or the view.                *)
LEMMA FlowMoves ==
  ASSUME TypeInv, Next,
         ~EnterScrollback, ~PageUp, ~SnapBack, ~RecvPage, ~DrainRequest, ~DrainPage,
         ~DrainMisreads, ~DrainReports, ~ServeRequest, ~SenderMisreads, ~WritePage, ~TaskReports,
         ~SessionEnds
  PROVE  /\ UNCHANGED <<view, pageups, reentered, entered, reqq, up, down, pageq>>
         /\ task'.page = task.page
<1>1. UNCHANGED <<view, pageups, reentered, entered, reqq, up, down, pageq>>
  BY DEF Next, ClientPump, User, DrainTask, ServerPump, SenderTask, SendChannelOpen,
     AwaitChannelAccept, IgnoreFrame, ForwardControl, DrainReads, DrainEnds, DrainGrants,
     DrainFinishes, RecvChannelOpen, RecvCredit, RecvChannelClose, BindStream, PumpResumes,
     WriteControl, AwaitStream, TaskEvents, SenderReads, SenderEnds, TaskFinishes, Output,
     ScrollUp, ClearScrollback, Done, vars, clientVars, streamVars
<1>2. task'.page = task.page
  <2>1. CASE AwaitStream
    BY <2>1, AwaitStreamOutcome
  <2>2. CASE TaskEvents
    BY <2>2, TaskEventsOutcome
  <2>3. CASE SenderReads \/ SenderEnds \/ TaskFinishes \/ RecvChannelOpen
    BY <2>3 DEF SenderReads, SenderEnds, TaskFinishes, RecvChannelOpen, Task, TypeInv,
       ServerTypes, Tasks
  <2>4. CASE ~SenderTask /\ ~RecvChannelOpen
    BY <2>4, TaskMoves
  <2> QED BY <2>1, <2>2, <2>3, <2>4 DEF SenderTask
<1> QED BY <1>1, <1>2

(* A view that is not active is Live, and at first nothing is under way.   *)
LEMMA ViewStep ==
  ASSUME IInv, Next
  PROVE  ViewInv'
<1> USE DEF IInv, TypeInv, ClientTypes, RequestInv, ViewInv
<1>1. CASE EnterScrollback \/ PageUp
  <2>1. pageups' # 0
    BY <1>1 DEF EnterScrollback, PageUp
  <2>2. view'.active
    <3>1. CASE EnterScrollback
      BY <3>1 DEF EnterScrollback
    <3>2. CASE PageUp
      BY <3>2 DEF PageUp, Views
    <3> QED BY <1>1, <3>1, <3>2
  <2> QED BY <2>1, <2>2
<1>2. CASE SnapBack
  BY <1>2 DEF SnapBack, Live
<1>3. CASE RecvPage
  BY <1>3 DEF RecvPage
<1>4. CASE DrainRequest \/ DrainPage \/ DrainMisreads
  BY <1>4 DEF DrainRequest, DrainPage, DrainMisreads
<1>5. CASE DrainReports
  BY <1>5 DEF DrainReports, streamVars, serverVars
<1>6. CASE ServeRequest \/ SenderMisreads \/ WritePage
  <2>1. pageups # 0
    <3>1. CASE ServeRequest \/ SenderMisreads
      BY <3>1 DEF ServeRequest, SenderMisreads
    <3>2. CASE WritePage
      <4>1. task.page \in Pages
        BY <3>2 DEF WritePage, ServerTypes
      <4>2. task.page # NoPage
        BY <4>1 DEF Pages, NoPage
      <4> QED BY <4>2
    <3> QED BY <1>6, <3>1, <3>2
  <2>2. UNCHANGED clientVars
    BY <1>6 DEF ServeRequest, SenderMisreads, WritePage
  <2> QED BY <2>1, <2>2 DEF clientVars
<1>7. CASE TaskReports
  BY <1>7 DEF TaskReports, clientVars, streamVars
<1>8. CASE SessionEnds
  BY <1>8 DEF SessionEnds, Live, streamVars
<1>9. CASE \/ EnterScrollback \/ PageUp \/ SnapBack \/ RecvPage \/ DrainRequest \/ DrainPage
           \/ DrainMisreads \/ DrainReports \/ ServeRequest \/ SenderMisreads \/ WritePage
           \/ TaskReports \/ SessionEnds
  BY <1>1, <1>2, <1>3, <1>4, <1>5, <1>6, <1>7, <1>8, <1>9
<1> QED BY <1>9, FlowMoves

(* A view that waits for a page is answered.                               *)
LEMMA PendingStep ==
  ASSUME IInv, Next
  PROVE  PendingIsAnswered'
<1> USE DEF IInv, TypeInv, ClientTypes, RequestInv, PagesArrive
<1>1. SUFFICES ASSUME view'.active, view'.pending, drain'.pc \in {"loop", "grant"},
                      task'.pc \in {"bind", "serve", "wait", "write"},
                      pageRead' # "torn", reqRead' # "torn",
                      reqq' = <<>>, up' = <<>>, down' = <<>>, pageq' = <<>>, task'.page = NoPage
               PROVE  FALSE
  BY DEF PendingIsAnswered
<1> pageRead # "torn" /\ reqRead # "torn"
  BY <1>1, TornStays
<1>2. CASE EnterScrollback
  <2>1. reqq' = TrySend(reqq, ReqCap, 0)
    BY <1>1, <1>2 DEF EnterScrollback, RequestPage
  <2>2. ReqCap \in Nat \ {0} /\ 0 \in Nat
    BY ChannelsAssumption
  <2>3. TrySend(reqq, ReqCap, 0) # <<>>
    BY <2>2, TrySent
  <2> QED BY <1>1, <2>1, <2>3
<1>3. CASE PageUp
  <2>1. CASE MayPrefetch
    <3>1. reqq' = TrySend(reqq, ReqCap, Len(view.held))
      BY <1>1, <1>3, <2>1 DEF PageUp, RequestPage
    <3>2. Len(view.held) \in Nat
      BY DEF Views
    <3>3. TrySend(reqq, ReqCap, Len(view.held)) # <<>>
      BY <3>2, ChannelsAssumption, TrySent
    <3> QED BY <1>1, <3>1, <3>3
  <2>2. CASE ~MayPrefetch
    BY <1>1, <1>3, <2>2 DEF PageUp, PendingIsAnswered, streamVars, serverVars
  <2> QED BY <2>1, <2>2
<1>4. CASE SnapBack \/ SessionEnds
  BY <1>1, <1>4 DEF SnapBack, SessionEnds, Live
<1>5. CASE RecvPage
  BY <1>1, <1>5 DEF RecvPage
<1>6. CASE DrainRequest
  <2>1. Head(reqq) \in Nat /\ up \in Seq(Nat)
    BY <1>6, FirstOf DEF DrainRequest, StreamTypes
  <2>2. Append(up, Head(reqq)) # <<>>
    BY <2>1, NotEmpty
  <2>3. Exit(drain).pc \notin {"loop", "grant"}
    BY ExitType
  <2> QED BY <1>1, <1>6, <2>2, <2>3 DEF DrainRequest
<1>7. CASE DrainPage
  <2>1. Head(down) \in Pages
    BY <1>7, FirstOf DEF DrainPage, StreamTypes
  <2>2. TrySend(pageq, PageCap, Head(down)) # <<>>
    BY <2>1, ChannelsAssumption, TrySent
  <2> QED BY <1>1, <1>7, <2>2 DEF DrainPage
<1>8. CASE DrainReports
  BY <1>1, <1>8 DEF DrainReports, Drain, Drains
<1>9. CASE ServeRequest
  <2>1. ~SenderMisreads
    BY DEF SenderMisreads
  <2> QED BY <1>1, <1>9, <2>1, SenderOutcome
<1>10. CASE WritePage
  <2>1. task.page \in Pages /\ down \in Seq(Pages)
    BY <1>10 DEF WritePage, ServerTypes, StreamTypes
  <2>2. Append(down, task.page) # <<>>
    BY <2>1, NotEmpty
  <2> QED BY <1>1, <1>10, <2>2 DEF WritePage
<1>11. CASE TaskReports
  BY <1>1, <1>11 DEF TaskReports
<1>12. CASE ~(\/ EnterScrollback \/ PageUp \/ SnapBack \/ RecvPage \/ DrainRequest \/ DrainPage
              \/ DrainReports \/ ServeRequest \/ WritePage \/ TaskReports \/ SessionEnds)
  <2>1. UNCHANGED <<view, pageups, reentered, reqq, up, down, pageq>> /\ task'.page = task.page
    <3>1. ~DrainMisreads /\ ~SenderMisreads
      BY DEF DrainMisreads, SenderMisreads
    <3> QED BY <1>12, <3>1, FlowMoves
  <2>2. drain.pc \in {"loop", "grant"} /\ task.pc # "off"
    BY <1>1, <2>1, KeepsDraining DEF Draining, PhaseInv, OffInv, OpenInv
  <2>3. task.pc \in {"bind", "serve", "wait", "write"}
    BY <1>1, <2>2, KeepsWorking DEF Working, PhaseInv
  <2> QED BY <1>1, <2>1, <2>2, <2>3 DEF PendingIsAnswered
<1> QED BY <1>2, <1>3, <1>4, <1>5, <1>6, <1>7, <1>8, <1>9, <1>10, <1>11, <1>12

(* The sizes of what is under way are numbers.                             *)
LEMMA FlowSizes ==
  ASSUME TypeInv
  PROVE  /\ Len(reqq) \in Nat /\ Len(up) \in Nat /\ Len(down) \in Nat /\ Len(pageq) \in Nat
         /\ Len(view.held) \in Nat /\ view.held \in Seq(Nat)
         /\ view.pending \in BOOLEAN /\ view.active \in BOOLEAN
BY DEF TypeInv, ClientTypes, StreamTypes, Views

(* The history grows, and what was entered with it stays in it.            *)
LEMMA Prints ==
  ASSUME TypeInv, HistoryInv, Next
  PROVE  /\ printed \in Nat /\ entered \in Nat
         /\ printed' \in Nat /\ printed <= printed'
         /\ EnterScrollback \/ entered' = entered
         /\ entered' <= printed'
<1>1. printed \in Nat /\ entered \in Nat /\ dropped \in 0 .. printed
  BY DEF TypeInv, ClientTypes, ServerTypes
<1>2. CASE Output
  BY <1>1, <1>2 DEF Output, ScrollUp, ClearScrollback, clientVars, HistoryInv
<1>3. CASE ~Output
  <2>1. printed' = printed
    <3>1. CASE ClientPump \/ User \/ DrainTask \/ Done
      BY <3>1, ClientOnly DEF serverVars, history
    <3>2. CASE ServerPump \/ SenderTask \/ SessionEnds
      BY <3>2 DEF ServerPump, SenderTask, RecvChannelOpen, RecvCredit, RecvChannelClose,
         BindStream, PumpResumes, WriteControl, AwaitStream, TaskEvents, SenderReads,
         ServeRequest, SenderMisreads, WritePage, SenderEnds, TaskFinishes, TaskReports,
         SessionEnds, history
    <3> QED BY <1>3, <3>1, <3>2 DEF Next
  <2>2. CASE EnterScrollback
    BY <1>1, <2>1, <2>2 DEF EnterScrollback
  <2>3. CASE ~EnterScrollback
    <3>1. entered' = entered
      <4>1. CASE ServerPump \/ SenderTask \/ Output \/ Done
        BY <4>1, ServerOnly DEF clientVars
      <4>2. CASE ClientPump \/ User \/ DrainTask \/ SessionEnds
        BY <2>3, <4>2 DEF ClientPump, User, DrainTask, SendChannelOpen, AwaitChannelAccept,
           IgnoreFrame, PageUp, SnapBack, RecvPage, ForwardControl, DrainRequest, DrainReads,
           DrainPage, DrainMisreads, DrainEnds, DrainGrants, DrainFinishes, DrainReports,
           SessionEnds, clientVars
      <4> QED BY <4>1, <4>2 DEF Next
    <3> QED BY <1>1, <2>1, <3>1 DEF HistoryInv
  <2> QED BY <2>2, <2>3
<1> QED BY <1>2, <1>3

(* Lines that tile the history still do when more is printed.              *)
LEMMA TilesOn ==
  ASSUME NEW lines \in Seq(Nat), NEW old \in Nat, NEW new \in Nat, NEW newer \in Nat,
         new <= newer, Tiles(lines, old, new)
  PROVE  Tiles(lines, old, newer)
BY DEF Tiles

(* No line tiles anything.                                                 *)
LEMMA TilesNone ==
  ASSUME NEW old, NEW new
  PROVE  Tiles(<<>>, old, new)
BY DEF Tiles

(* The lines before those held go in front of them.                        *)
LEMMA TilesMore ==
  ASSUME printed \in Nat, dropped \in 0 .. printed, NEW old \in Nat, old <= printed,
         NEW held \in Seq(Nat), Tiles(held, old, printed)
  PROVE  Tiles(LinesBefore(Len(held)) \o held, old, printed)
<1> Len(held) \in Nat
  OBVIOUS
<1>1. PICK lines \in Seq(Nat) : lines = LinesBefore(Len(held))
  BY LinesAre
<1>2. PICK n \in Nat, m \in Nat :
        /\ n = Len(lines) /\ m = Len(held) /\ DOMAIN lines = 1 .. n /\ DOMAIN held = 1 .. m
        /\ \A i \in 1 .. n : lines[i] = printed - m - n + i
  <2>1. Len(lines) \in Nat /\ DOMAIN lines = 1 .. Len(lines) /\ DOMAIN held = 1 .. Len(held)
    OBVIOUS
  <2>2. \A i \in DOMAIN lines : lines[i] = printed - Len(held) - Len(lines) + i
    BY <1>1, LinesAre
  <2> QED BY <2>1, <2>2
<1>3. /\ lines \o held \in Seq(Nat)
      /\ Len(lines \o held) = n + m /\ DOMAIN (lines \o held) = 1 .. (n + m)
      /\ \A i \in 1 .. n : (lines \o held)[i] = printed - m - n + i
      /\ \A i \in 1 .. m : (lines \o held)[n + i] = held[i]
  BY <1>2
<1> DEFINE g == lines \o held
<1> HIDE DEF g
<1>4. /\ \A i \in 1 .. m : old - (m - i) <= held[i] /\ held[i] <= printed - (m - i) /\ held[i] \in Nat
      /\ \A i \in 1 .. m - 1 : held[i + 1] <= held[i] + 1
  <2>1. \A i \in 1 .. m : held[i] \in Nat
    BY <1>2
  <2>2. \A i \in 1 .. m : old - (m - i) <= held[i] /\ held[i] <= printed - (m - i)
    BY <1>2 DEF Tiles
  <2>3. \A i \in 1 .. m - 1 : held[i + 1] <= held[i] + 1
    BY <1>2 DEF Tiles
  <2> QED BY <2>1, <2>2, <2>3
<1>5. ASSUME NEW i \in 1 .. (n + m)
      PROVE  /\ i > n => i - n \in 1 .. m /\ g[i] = held[i - n]
             /\ g[i] \in Int
             /\ old - (n + m - i) <= g[i] /\ g[i] <= printed - (n + m - i)
  <2>1. CASE i <= n
    <3>1. i \in 1 .. n /\ g[i] = printed - m - n + i
      BY <1>3, <2>1 DEF g
    <3> QED BY <2>1, <3>1
  <2>2. CASE i > n
    <3>1. PICK k \in 1 .. m : i = n + k
      BY <2>2
    <3>2. g[n + k] = held[k] /\ g[i] = g[n + k]
      BY <1>3, <3>1 DEF g
    <3>3. old - (m - k) <= held[k] /\ held[k] <= printed - (m - k) /\ held[k] \in Nat
      BY <1>4
    <3>4. i - n = k /\ n + m - i = m - k
      BY <3>1
    <3> QED BY <2>2, <3>2, <3>3, <3>4
  <2> QED BY <2>1, <2>2
<1>6. ASSUME NEW i \in 1 .. (n + m) - 1
      PROVE  g[i + 1] <= g[i] + 1
  <2>1. i \in 1 .. (n + m) /\ i + 1 \in 1 .. (n + m)
    OBVIOUS
  <2>2. CASE i <= n
    <3>1. g[i] = printed - m - n + i
      BY <1>3, <2>2 DEF g
    <3>2. g[i + 1] <= printed - (n + m - (i + 1)) /\ g[i + 1] \in Int
      BY <1>5, <2>1
    <3> QED BY <3>1, <3>2
  <2>3. CASE i > n
    <3>1. PICK k \in 1 .. m - 1 : i = n + k
      BY <2>3
    <3>2. k \in 1 .. m /\ k + 1 \in 1 .. m /\ i + 1 = n + (k + 1)
      BY <3>1
    <3>3. g[i] = held[k] /\ g[i + 1] = held[k + 1]
      BY <1>3, <3>1, <3>2 DEF g
    <3>4. held[k + 1] <= held[k] + 1
      BY <1>4
    <3> QED BY <3>3, <3>4
  <2> QED BY <2>2, <2>3
<1>7. Len(g) = n + m /\ DOMAIN g = 1 .. (n + m)
  BY <1>3 DEF g
<1>8. Tiles(g, old, printed)
  BY <1>5, <1>6, <1>7 DEF Tiles
<1> QED BY <1>1, <1>8 DEF g

(* Of the view that was entered once nothing was read in vain.             *)
LEMMA EnteredOnce ==
  ASSUME IInv, Next, ~reentered', reqRead' # "torn"
  PROVE  /\ ~reentered /\ reqRead # "torn" /\ pageRead # "torn"
         /\ ~DrainMisreads /\ ~SenderMisreads
<1>1. reqRead # "torn"
  BY TornStays
<1>2. ~reentered
  <2>1. CASE ServerPump \/ SenderTask \/ Output \/ Done
    BY <2>1, ServerOnly DEF clientVars
  <2>2. CASE ClientPump \/ User \/ DrainTask \/ SessionEnds
    BY <2>2 DEF ClientPump, User, DrainTask, SendChannelOpen, AwaitChannelAccept,
       IgnoreFrame, EnterScrollback, PageUp, SnapBack, RecvPage, ForwardControl, DrainRequest,
       DrainReads, DrainPage, DrainMisreads, DrainEnds, DrainGrants, DrainFinishes,
       DrainReports, SessionEnds, clientVars, IInv, TypeInv, ClientTypes
  <2> QED BY <2>1, <2>2 DEF Next
<1>3. pageRead # "torn"
  BY <1>1, <1>2 DEF IInv, RequestInv, PagesArrive, TornByReentry
<1> QED BY <1>1, <1>2, <1>3 DEF DrainMisreads, SenderMisreads

(* In a view entered once, at most the page it waits for is under way.     *)
LEMMA FlowStep ==
  ASSUME IInv, Next
  PROVE  FlowInv'
<1> USE DEF IInv, RequestInv
<1>1. SUFFICES ASSUME ~reentered', reqRead' # "torn"
               PROVE  /\ UnderWay' <= 1
                      /\ view'.active => UnderWay' <= Count(view'.pending) /\ AllFor(view.held)'
  BY DEF FlowInv
<1>2. /\ Len(reqq) \in Nat /\ Len(up) \in Nat /\ Len(down) \in Nat /\ Len(pageq) \in Nat
      /\ Len(view.held) \in Nat /\ view.held \in Seq(Nat)
      /\ view.pending \in BOOLEAN /\ view.active \in BOOLEAN
  BY FlowSizes
<1>3. /\ reqq \in Seq(Nat) /\ up \in Seq(Nat) /\ down \in Seq(Pages) /\ pageq \in Seq(Pages)
      /\ task \in Tasks
  BY DEF TypeInv, ClientTypes, StreamTypes, ServerTypes
<1>4. /\ ~reentered /\ reqRead # "torn" /\ pageRead # "torn"
      /\ ~DrainMisreads /\ ~SenderMisreads
  BY <1>1, EnteredOnce
<1>5. /\ UnderWay <= 1
      /\ view.active => UnderWay <= Count(view.pending) /\ AllFor(view.held)
      /\ Tiles(view.held, entered, printed)
  BY <1>4 DEF FlowInv, PagesArrive, PagesTileView
<1>6. ASSUME NEW h \in Nat, up = <<>>, down = <<>>, pageq = <<>>, reqq = <<>>, task.page = NoPage,
             UNCHANGED <<up, down, pageq, task>>, view'.pending, Len(view'.held) = h,
             reqq' = reqq \/ reqq' = TrySend(reqq, ReqCap, h)
      PROVE  UnderWay' <= 1 /\ UnderWay' <= Count(view'.pending) /\ AllFor(view.held)'
  <2>1. ReqCap \in Nat \ {0}
    BY ChannelsAssumption
  <2>2. TrySend(reqq, ReqCap, h) = <<h>>
    BY <1>6, <2>1 DEF TrySend
  <2>3. reqq' = <<>> \/ reqq' = <<h>>
    BY <1>6, <2>2
  <2>4. Len(reqq') <= 1 /\ Len(reqq') \in Nat /\ \A i \in DOMAIN reqq' : reqq'[i] = h
    <3>1. CASE reqq' = <<>>
      BY <3>1
    <3>2. CASE reqq' = <<h>>
      BY <3>2
    <3> QED BY <2>3, <3>1, <3>2
  <2>5. Len(up') = 0 /\ Len(down') = 0 /\ Len(pageq') = 0 /\ ~(task'.page # NoPage)
    BY <1>6
  <2>6. UnderWay' <= 1 /\ UnderWay' <= Count(view'.pending)
    BY <1>6, <2>4, <2>5 DEF UnderWay, Count
  <2>7. up' = <<>> /\ down' = <<>> /\ pageq' = <<>> /\ task'.page = NoPage /\ Len(view'.held) = h
    BY <1>6
  <2>8. AllFor(view.held)'
    BY <2>4, <2>7 DEF AllFor
  <2> QED BY <2>6, <2>8
<1>7. CASE EnterScrollback
  <2>1. pageups = 0
    <3>1. reentered' = (reentered \/ pageups > 0)
      BY <1>7 DEF EnterScrollback
    <3>2. ~(pageups > 0)
      BY <1>1, <3>1
    <3> QED BY <3>2 DEF TypeInv, ClientTypes
  <2>2. up = <<>> /\ down = <<>> /\ pageq = <<>> /\ reqq = <<>> /\ task.page = NoPage
    BY <2>1 DEF ViewInv
  <2>3. UNCHANGED <<up, down, pageq, task>> /\ view'.pending /\ Len(view'.held) = 0
    BY <1>7 DEF EnterScrollback, streamVars, serverVars
  <2>4. reqq' = reqq \/ reqq' = TrySend(reqq, ReqCap, 0)
    BY <1>7 DEF EnterScrollback, RequestPage
  <2>5. 0 \in Nat
    OBVIOUS
  <2> QED BY <1>6, <2>2, <2>3, <2>4, <2>5
<1>8. CASE PageUp
  <2>1. UNCHANGED <<up, down, pageq, task, entered, printed>> /\ view.active
    BY <1>8 DEF PageUp, streamVars, serverVars, history
  <2>2. UnderWay <= Count(view.pending) /\ AllFor(view.held)
    BY <1>5, <2>1
  <2>3. CASE MayPrefetch
    <3>1. UnderWay = 0
      BY <1>2, <2>2, <2>3 DEF MayPrefetch, Count, UnderWay
    <3>2. up = <<>> /\ down = <<>> /\ pageq = <<>> /\ reqq = <<>> /\ task.page = NoPage
      BY <1>2, <1>3, <3>1 DEF UnderWay, Count
    <3>3. view'.pending /\ Len(view'.held) = Len(view.held)
      BY <1>8, <2>3 DEF PageUp, TypeInv, ClientTypes, Views
    <3>4. reqq' = reqq \/ reqq' = TrySend(reqq, ReqCap, Len(view.held))
      BY <1>8, <2>3 DEF PageUp, RequestPage
    <3> QED BY <1>2, <1>6, <2>1, <3>2, <3>3, <3>4
  <2>4. CASE ~MayPrefetch
    <3>1. UNCHANGED <<view, reqq>>
      BY <1>8, <2>4 DEF PageUp
    <3> QED BY <1>5, <2>1, <2>2, <3>1 DEF UnderWay, AllFor
  <2> QED BY <2>3, <2>4
<1>9. CASE SnapBack \/ SessionEnds
  <2>1. UNCHANGED <<reqq, up, down, pageq, task>> /\ ~view'.active
    BY <1>9 DEF SnapBack, SessionEnds, Live, streamVars, serverVars
  <2> QED BY <1>5, <2>1 DEF UnderWay
<1>10. CASE RecvPage
  <2>1. /\ UNCHANGED <<reqq, up, down, task>> /\ pageq # <<>> /\ pageq' = Tail(pageq)
        /\ view'.active => ~view'.pending
    BY <1>10 DEF RecvPage, Live, ViewInv, streamVars, serverVars
  <2>2. Len(pageq) > 0 /\ Len(pageq') = Len(pageq) - 1
    BY <1>3, <2>1, FirstOf
  <2>3. Len(reqq) = 0 /\ Len(up) = 0 /\ Len(down) = 0 /\ Len(pageq) = 1 /\ ~(task.page # NoPage)
    BY <1>2, <1>5, <2>2 DEF UnderWay, Count
  <2>4. reqq' = <<>> /\ up' = <<>> /\ down' = <<>> /\ pageq' = <<>> /\ task'.page = NoPage
    BY <1>3, <2>1, <2>2, <2>3
  <2>5. Count(task'.page # NoPage) = 0 /\ (view'.active => Count(view'.pending) = 0)
    BY <2>1, <2>4 DEF Count
  <2>6. Len(reqq') = 0 /\ Len(up') = 0 /\ Len(down') = 0 /\ Len(pageq') = 0
    BY <2>4
  <2>7. UnderWay' = 0
    BY <2>5, <2>6 DEF UnderWay
  <2> QED BY <2>4, <2>5, <2>7 DEF AllFor
<1>11. ASSUME ~EnterScrollback, ~PageUp, ~SnapBack, ~SessionEnds, ~RecvPage
       PROVE  /\ UnderWay' <= 1
              /\ view'.active => UnderWay' <= Count(view'.pending) /\ AllFor(view.held)'
  <2>1. UNCHANGED view
    <3>1. CASE DrainRequest \/ DrainPage \/ DrainReports
      BY <3>1 DEF DrainRequest, DrainPage, DrainReports
    <3>2. CASE ServeRequest \/ WritePage \/ TaskReports
      BY <3>2 DEF ServeRequest, WritePage, TaskReports, clientVars
    <3> QED BY <1>4, <1>11, <3>1, <3>2, FlowMoves
  <2>2. PICK held \in Seq(Nat), h \in Nat : held = view.held /\ h = Len(held)
    BY <1>2
  <2> DEFINE Old(p) == Fits(p, held, entered, printed)
             New(p) == Fits(p, held, entered', printed')
  <2>3. \A p \in Pages : Old(p) => New(p)
    <3> SUFFICES ASSUME NEW p \in Pages, Old(p) PROVE New(p)
      OBVIOUS
    <3>1. PICK lines \in Seq(Nat) : lines = p.lines \o held
      <4>1. PICK l \in Seq(Nat) : l = p.lines
        BY DEF Pages
      <4>2. l \o held \in Seq(Nat)
        OBVIOUS
      <4> QED BY <4>1, <4>2
    <3>2. /\ printed \in Nat /\ printed' \in Nat /\ entered \in Nat /\ entered' = entered
          /\ printed <= printed'
      BY <1>11, Prints
    <3>3. Tiles(lines, entered, printed)
      BY <3>1 DEF Fits
    <3>4. Tiles(lines, entered, printed')
      BY <3>2, <3>3, TilesOn
    <3> QED BY <3>1, <3>2, <3>4 DEF Fits
  <2>4. Tiles(held, entered, printed)
    BY <1>5, <2>2
  <2>5. view.active =>
          /\ \A i \in DOMAIN reqq : reqq[i] = h
          /\ \A i \in DOMAIN up : up[i] = h
          /\ \A i \in DOMAIN down : Old(down[i])
          /\ \A i \in DOMAIN pageq : Old(pageq[i])
          /\ task.page # NoPage => Old(task.page)
    BY <1>5, <2>2 DEF AllFor
  <2>6. /\ \A i \in DOMAIN down : down[i] \in Pages
        /\ \A i \in DOMAIN pageq : pageq[i] \in Pages
        /\ task.page # NoPage => task.page \in Pages
    BY <1>3 DEF Tasks
  <2>7. view.active =>
          /\ \A i \in DOMAIN down : New(down[i])
          /\ \A i \in DOMAIN pageq : New(pageq[i])
          /\ task.page # NoPage => New(task.page)
    BY <2>3, <2>5, <2>6
  <2>8. SUFFICES /\ UnderWay' <= UnderWay
                 /\ view.active =>
                      /\ \A i \in DOMAIN reqq' : reqq'[i] = h
                      /\ \A i \in DOMAIN up' : up'[i] = h
                      /\ \A i \in DOMAIN down' : New(down'[i])
                      /\ \A i \in DOMAIN pageq' : New(pageq'[i])
                      /\ task'.page # NoPage => New(task'.page)
    <3>1. UnderWay' \in Int /\ UnderWay \in Int /\ Count(view.pending) \in Int
      <4>1. TypeInv'
        BY ClientTypesStep, StreamTypesStep, ServerTypesStep DEF TypeInv
      <4>2. Len(reqq') \in Nat /\ Len(up') \in Nat /\ Len(down') \in Nat /\ Len(pageq') \in Nat
        BY <4>1 DEF TypeInv, ClientTypes, StreamTypes
      <4> QED BY <1>2, <4>2 DEF UnderWay, Count
    <3>2. UnderWay' <= 1 /\ (view.active => UnderWay' <= Count(view.pending))
      BY <1>5, <2>8, <3>1
    <3>3. view.active => AllFor(view.held)'
      BY <2>1, <2>2, <2>8 DEF AllFor
    <3> QED BY <2>1, <3>2, <3>3
  <2> HIDE DEF Old, New
  <2>9. CASE DrainRequest
    <3>1. /\ reqq # <<>> /\ reqq' = Tail(reqq) /\ UNCHANGED <<down, pageq, task>>
          /\ up' = up \/ up' = Append(up, Head(reqq))
      BY <2>9 DEF DrainRequest, serverVars
    <3>2. /\ Len(reqq') = Len(reqq) - 1 /\ Head(reqq) \in Nat
          /\ view.active => Head(reqq) = h /\ \A i \in DOMAIN reqq' : reqq'[i] = h
      BY <1>3, <2>5, <3>1, FirstOf
    <3>3. PICK r \in Nat : r = Head(reqq)
      BY <3>2
    <3>4. Append(up, r) \in Seq(Nat) /\ Len(Append(up, r)) = Len(up) + 1
      BY <1>3, LastOf
    <3>5. Len(up') \in Nat /\ Len(up') <= Len(up) + 1
      BY <1>2, <3>1, <3>3, <3>4
    <3>6. view.active => \A i \in DOMAIN up' : up'[i] = h
      <4>1. ASSUME view.active, up' = Append(up, r)
            PROVE  \A i \in DOMAIN up' : up'[i] = h
        <5>1. r = h /\ \A i \in DOMAIN up : up[i] = h
          BY <2>5, <3>2, <3>3, <4>1
        <5> QED BY <1>3, <4>1, <5>1, LastOf
      <4> QED BY <2>5, <3>1, <3>3, <4>1
    <3>7. UnderWay' <= UnderWay
      BY <1>2, <3>1, <3>2, <3>5 DEF UnderWay, Count
    <3> QED BY <2>7, <3>1, <3>2, <3>6, <3>7
  <2>10. CASE DrainPage
    <3>1. /\ down # <<>> /\ down' = Tail(down) /\ UNCHANGED <<reqq, up, task>>
          /\ pageq' = TrySend(pageq, PageCap, Head(down))
      BY <2>10 DEF DrainPage, serverVars
    <3>2. /\ Len(down') = Len(down) - 1 /\ Head(down) \in Pages
          /\ view.active => New(Head(down)) /\ \A i \in DOMAIN down' : New(down'[i])
      BY <1>3, <2>7, <3>1, FirstOf
    <3>3. PICK m \in Pages : m = Head(down)
      BY <3>2
    <3>4. PageCap \in Nat \ {0}
      BY ChannelsAssumption
    <3>5. /\ pageq' \in Seq(Pages) /\ Len(pageq') <= Len(pageq) + 1
          /\ \A i \in DOMAIN pageq' : (i \in DOMAIN pageq /\ pageq'[i] = pageq[i]) \/ pageq'[i] = m
      BY <1>3, <3>1, <3>3, <3>4, TrySent
    <3>6. view.active => \A i \in DOMAIN pageq' : New(pageq'[i])
      BY <2>7, <3>2, <3>3, <3>5
    <3>7. UnderWay' <= UnderWay
      BY <1>2, <3>1, <3>2, <3>5 DEF UnderWay, Count
    <3> QED BY <2>5, <2>7, <3>1, <3>2, <3>6, <3>7
  <2>11. CASE DrainReports
    <3>1. UNCHANGED <<up, down, pageq, task>> /\ reqq' = <<>>
      BY <2>11 DEF DrainReports, streamVars, serverVars
    <3>2. UnderWay' <= UnderWay
      BY <1>2, <3>1 DEF UnderWay, Count
    <3> QED BY <2>5, <2>7, <3>1, <3>2
  <2>12. CASE ServeRequest
    <3>1. /\ up # <<>> /\ up' = Tail(up) /\ UNCHANGED <<reqq, down, pageq>>
          /\ task.page = NoPage /\ MakePage(Head(up)) /\ entered' = entered /\ printed' = printed
      BY <2>12 DEF ServeRequest, PageInv, clientVars, history
    <3>2. /\ Len(up') = Len(up) - 1 /\ Head(up) \in Nat
          /\ view.active => Head(up) = h /\ \A i \in DOMAIN up' : up'[i] = h
      BY <1>3, <2>5, <3>1, FirstOf
    <3>3. task'.page # NoPage /\ task'.page.lines = LinesBefore(Head(up))
      BY <3>1, <3>2, MadePage DEF TypeInv
    <3>4. view.active => New(task'.page)
      <4>1. /\ printed \in Nat /\ dropped \in 0 .. printed /\ entered \in Nat
            /\ entered <= printed
        BY DEF TypeInv, ClientTypes, ServerTypes, HistoryInv
      <4>2. Tiles(LinesBefore(h) \o held, entered, printed)
        BY <2>2, <2>4, <4>1, TilesMore
      <4> QED BY <3>1, <3>2, <3>3, <4>2 DEF New, Fits
    <3>5. UnderWay' <= UnderWay
      BY <1>2, <3>1, <3>2 DEF UnderWay, Count
    <3> QED BY <2>5, <2>7, <3>1, <3>2, <3>4, <3>5
  <2>13. CASE WritePage
    <3>1. /\ UNCHANGED <<reqq, up, pageq>> /\ down' = Append(down, task.page)
          /\ task.page \in Pages /\ task'.page = NoPage
      BY <2>13 DEF WritePage, clientVars, TypeInv, ServerTypes
    <3>2. task.page # NoPage
      BY <3>1 DEF Pages, NoPage
    <3>3. PICK m \in Pages : m = task.page
      BY <3>1
    <3>4. /\ Len(down') = Len(down) + 1
          /\ \A i \in DOMAIN down' : (i \in DOMAIN down /\ down'[i] = down[i]) \/ down'[i] = m
      BY <1>3, <3>1, <3>3, LastOf
    <3>5. view.active => \A i \in DOMAIN down' : New(down'[i])
      BY <2>7, <3>2, <3>3, <3>4
    <3>6. UnderWay' <= UnderWay
      BY <1>2, <3>1, <3>2, <3>4 DEF UnderWay, Count
    <3> QED BY <2>5, <2>7, <3>1, <3>5, <3>6
  <2>14. CASE TaskReports
    <3>1. UNCHANGED <<reqq, up, down, pageq>> /\ task'.page = NoPage
      BY <2>14 DEF TaskReports, clientVars, streamVars
    <3>2. UnderWay' <= UnderWay
      BY <1>2, <3>1 DEF UnderWay, Count
    <3> QED BY <2>5, <2>7, <3>1, <3>2
  <2>15. CASE /\ ~DrainRequest /\ ~DrainPage /\ ~DrainReports
              /\ ~ServeRequest /\ ~WritePage /\ ~TaskReports
    <3>1. UNCHANGED <<reqq, up, down, pageq>> /\ task'.page = task.page
      BY <1>4, <1>11, <2>15, FlowMoves
    <3>2. UnderWay' <= UnderWay
      BY <1>2, <3>1 DEF UnderWay, Count
    <3> QED BY <2>5, <2>7, <3>1, <3>2
  <2> QED BY <2>9, <2>10, <2>11, <2>12, <2>13, <2>14, <2>15
<1> QED BY <1>7, <1>8, <1>9, <1>10, <1>11

(* The lines of a view entered once tile the history.                      *)
LEMMA TileStep ==
  ASSUME IInv, Next
  PROVE  PagesTileView'
<1> USE DEF IInv, RequestInv, PagesArrive
<1>1. SUFFICES ASSUME ~reentered', reqRead' # "torn"
               PROVE  Tiles(view'.held, entered', printed')
  BY DEF PagesTileView
<1>2. ASSUME view'.held = <<>>
      PROVE  Tiles(view'.held, entered', printed')
  BY <1>2, TilesNone
<1>3. CASE EnterScrollback
  BY <1>2, <1>3 DEF EnterScrollback
<1>4. CASE SnapBack \/ SessionEnds
  BY <1>2, <1>4 DEF SnapBack, SessionEnds, Live
<1>5. /\ ~reentered /\ reqRead # "torn" /\ ~DrainMisreads /\ ~SenderMisreads
      /\ Tiles(view.held, entered, printed)
  BY <1>1, EnteredOnce DEF PagesTileView
<1>6. CASE RecvPage /\ view.active
  <2>1. /\ view'.held = Head(pageq).lines \o view.held /\ entered' = entered /\ printed' = printed
        /\ pageq # <<>> /\ pageq \in Seq(Pages)
    BY <1>6 DEF RecvPage, TypeInv, ClientTypes, serverVars, history
  <2>2. AllFor(view.held)
    BY <1>5, <1>6 DEF FlowInv
  <2>3. Fits(Head(pageq), view.held, entered, printed)
    BY <2>1, <2>2, FirstOf DEF AllFor
  <2> QED BY <2>1, <2>3 DEF Fits
<1>7. CASE ~EnterScrollback /\ ~SnapBack /\ ~SessionEnds /\ ~(RecvPage /\ view.active)
  <2>1. view'.held = view.held
    <3>1. CASE PageUp
      BY <3>1 DEF PageUp, TypeInv, ClientTypes, Views
    <3>2. CASE RecvPage
      BY <1>7, <3>2 DEF RecvPage
    <3>3. CASE DrainRequest \/ DrainPage \/ DrainReports
      BY <3>3 DEF DrainRequest, DrainPage, DrainReports
    <3>4. CASE ServeRequest \/ WritePage \/ TaskReports
      BY <3>4 DEF ServeRequest, WritePage, TaskReports, clientVars
    <3> QED BY <1>5, <1>7, <3>1, <3>2, <3>3, <3>4, FlowMoves
  <2>2. view.held \in Seq(Nat)
    BY FlowSizes
  <2>3. /\ printed \in Nat /\ entered \in Nat /\ printed' \in Nat /\ printed <= printed'
        /\ entered' = entered
    BY <1>7, Prints
  <2> QED BY <1>5, <2>1, <2>2, <2>3, TilesOn
<1> QED BY <1>3, <1>4, <1>6, <1>7

(* The drain task reads only what is on the stream, and drops it only for a request     *)
(* that comes beside a page: not in a view entered once.                                *)
LEMMA ReadStep ==
  ASSUME IInv, Next
  PROVE  ReadInv' /\ TornByReentry'
<1> USE DEF IInv, RequestInv, PagesArrive
<1>1. /\ reqq \in Seq(Nat) /\ up \in Seq(Nat) /\ down \in Seq(Pages) /\ pageq \in Seq(Pages)
      /\ pageRead \in Reads
  BY DEF TypeInv, ClientTypes, StreamTypes
<1>2. CASE DrainRequest
  <2>1. /\ down' = down /\ pageRead' = IF pageRead = "partial" THEN "torn" ELSE pageRead
        /\ reqq # <<>>
    BY <1>2 DEF DrainRequest
  <2>2. ASSUME ~reentered', reqRead' # "torn", pageRead' = "torn" PROVE FALSE
    <3>1. ~reentered /\ reqRead # "torn" /\ pageRead # "torn"
      BY <2>2, EnteredOnce
    <3>2. pageRead = "partial" /\ down # <<>>
      BY <2>1, <2>2, <3>1 DEF ReadInv
    <3>3. Len(reqq) > 0 /\ Len(down) > 0 /\ UnderWay <= 1
      BY <1>1, <2>1, <3>1, <3>2, FirstOf DEF FlowInv
    <3>4. Len(reqq) \in Nat /\ Len(up) \in Nat /\ Len(down) \in Nat /\ Len(pageq) \in Nat
      BY <1>1
    <3> QED BY <3>3, <3>4 DEF UnderWay, Count
  <2> QED BY <2>1, <2>2 DEF ReadInv, TornByReentry
<1>3. ASSUME ~DrainRequest
      PROVE  pageRead' = "torn" => pageRead = "torn"
  <2>1. CASE ServerPump \/ SenderTask \/ Output \/ Done
    BY <2>1, ServerOnly DEF clientVars
  <2>2. CASE ClientPump \/ User \/ DrainTask \/ SessionEnds
    BY <1>3, <2>2 DEF ClientPump, User, DrainTask, SendChannelOpen, AwaitChannelAccept,
       IgnoreFrame, EnterScrollback, PageUp, SnapBack, RecvPage, ForwardControl,
       DrainReads, DrainPage, DrainMisreads, DrainEnds, DrainGrants, DrainFinishes,
       DrainReports, SessionEnds, clientVars
  <2> QED BY <2>1, <2>2 DEF Next
<1>4. ASSUME ~DrainRequest
      PROVE  TornByReentry'
  <2>1. ASSUME ~reentered', reqRead' # "torn" PROVE pageRead' # "torn"
    BY <1>3, <1>4, <2>1, EnteredOnce
  <2> QED BY <2>1 DEF TornByReentry
<1>5. ASSUME ~DrainRequest
      PROVE  ReadInv'
  <2> SUFFICES ASSUME pageRead' = "partial" PROVE down' # <<>>
    BY DEF ReadInv
  <2>1. CASE DrainReads
    BY <2>1 DEF DrainReads, streamVars
  <2>2. CASE DrainPage \/ DrainMisreads
    BY <2>2 DEF DrainPage, DrainMisreads
  <2>3. CASE WritePage
    <3>1. task.page \in Pages
      BY <2>3 DEF WritePage, TypeInv, ServerTypes
    <3>2. Append(down, task.page) # <<>>
      BY <1>1, <3>1, NotEmpty
    <3> QED BY <2>3, <3>2 DEF WritePage
  <2>4. CASE ~DrainReads /\ ~DrainPage /\ ~DrainMisreads /\ ~WritePage
    <3>1. pageRead' = pageRead
      <4>1. CASE ServerPump \/ SenderTask \/ Output \/ Done
        BY <4>1, ServerOnly DEF clientVars
      <4>2. CASE ClientPump \/ User \/ DrainTask \/ SessionEnds
        BY <1>5, <2>4, <4>2 DEF ClientPump, User, DrainTask, SendChannelOpen,
           AwaitChannelAccept, IgnoreFrame, EnterScrollback, PageUp, SnapBack, RecvPage,
           ForwardControl, DrainEnds, DrainGrants, DrainFinishes, DrainReports, SessionEnds,
           clientVars
      <4> QED BY <4>1, <4>2 DEF Next
    <3>2. down' = down
      <4>1. CASE \/ EnterScrollback \/ PageUp \/ SnapBack \/ RecvPage \/ DrainReports
                 \/ ServeRequest \/ SenderMisreads \/ TaskReports \/ SessionEnds
        BY <4>1 DEF EnterScrollback, PageUp, SnapBack, RecvPage, DrainReports, ServeRequest,
           SenderMisreads, TaskReports, SessionEnds, streamVars
      <4> QED BY <1>5, <2>4, <4>1, FlowMoves
    <3> QED BY <3>1, <3>2 DEF ReadInv
  <2> QED BY <2>1, <2>2, <2>3, <2>4
<1> QED BY <1>2, <1>4, <1>5

(* A step keeps what is known of requests and pages.                       *)
LEMMA RequestStep ==
  ASSUME IInv, Next
  PROVE  RequestInv'
<1>1. HistoryInv'
  BY Prints DEF IInv, RequestInv, HistoryInv
<1> QED BY <1>1, PageStep, ViewStep, PendingStep, FlowStep, TileStep, ReadStep
        DEF RequestInv, PagesArrive

(* Only the drain task and ChannelAccept move the drain task's record.     *)
LEMMA DrainMoves ==
  ASSUME Next, ~DrainTask, ~AwaitChannelAccept
  PROVE  drain' = drain
BY ServerOnly DEF Next, ClientPump, User, SendChannelOpen, IgnoreFrame, RecvPage,
   ForwardControl, EnterScrollback, PageUp, SnapBack, SessionEnds, clientVars

(* The drain task has bytes to grant exactly where it grants them, and keeps less than  *)
(* a chunk.                                                                             *)
LEMMA DrainStep ==
  ASSUME IInv, Next
  PROVE  DrainInv'
<1>1. drain \in Drains /\ down \in Seq(Pages) /\ DrainInv
  BY DEF IInv, TypeInv, ClientTypes, StreamTypes, CreditInv
<1>2. Chunk \in Nat \ {0}
  BY ChannelsAssumption
<1>3. CASE AwaitChannelAccept
  <2>1. drain.pc = "off"
    BY <1>3 DEF AwaitChannelAccept, IInv, PhaseInv, OffInv
  <2> QED BY <1>1, <1>3, <2>1 DEF AwaitChannelAccept, DrainInv, Drains
<1>4. ASSUME NEW d \in Drains, drain' = Exit(d)
      PROVE  DrainInv'
  BY <1>2, <1>4, ExitType DEF DrainInv, Drains
<1>5. CASE DrainRequest \/ DrainReads \/ DrainEnds
  <2>1. drain' = Exit(drain) \/ drain' = drain
    BY <1>5 DEF DrainRequest, DrainReads, DrainEnds
  <2> QED BY <1>1, <1>4, <2>1 DEF DrainInv
<1>6. ASSUME NEW n \in Nat \ {0}, CountBytes(n), drain.pc = "loop"
      PROVE  DrainInv'
  <2>1. PICK d \in Nat \ {0} :
          /\ [drain EXCEPT !.drained = d] \in Drains
          /\ \/ drain' = Exit([drain EXCEPT !.drained = d])
             \/ d >= Chunk /\ drain' = [pc |-> "grant", drained |-> 0, grant |-> d]
             \/ ~(d >= Chunk) /\ drain' = [drain EXCEPT !.drained = d]
    BY <1>1, <1>6, Counted
  <2>2. CASE d >= Chunk /\ drain' = [pc |-> "grant", drained |-> 0, grant |-> d]
    BY <1>2, <2>2 DEF DrainInv
  <2>3. CASE ~(d >= Chunk) /\ drain' = [drain EXCEPT !.drained = d]
    BY <1>1, <1>2, <1>6, <2>3 DEF DrainInv, Drains
  <2> QED BY <1>4, <2>1, <2>2, <2>3
<1>10. CASE DrainPage
  <2>1. Head(down) \in Pages
    BY <1>1, <1>10, FirstOf DEF DrainPage
  <2>2. PICK n \in Nat \ {0} : CountBytes(n)
    BY <1>10, <2>1 DEF DrainPage, Pages, WireBytes
  <2> QED BY <1>6, <1>10, <2>2 DEF DrainPage
<1>11. CASE DrainMisreads
  <2>1. \A n \in PageSizes : n \in Nat \ {0}
    BY ChannelsAssumption
  <2>2. drain' = drain \/ drain' = Exit(drain) \/ \E n \in Nat \ {0} : CountBytes(n)
    BY <1>11, <2>1 DEF DrainMisreads
  <2>3. drain.pc = "loop"
    BY <1>11 DEF DrainMisreads
  <2>4. drain' = drain => DrainInv'
    BY <1>1 DEF DrainInv
  <2> QED BY <1>1, <1>4, <1>6, <2>2, <2>3, <2>4
<1>7. CASE DrainGrants
  <2>1. drain' \in {[pc |-> "finish", drained |-> 0, grant |-> 0],
                    [pc |-> "loop", drained |-> 0, grant |-> 0]}
    BY <1>7 DEF DrainGrants
  <2> QED BY <1>2, <2>1 DEF DrainInv
<1>8. CASE DrainFinishes \/ DrainReports
  BY <1>1, <1>8 DEF DrainFinishes, DrainReports, Drain, DrainInv, Drains
<1>9. CASE ~DrainTask /\ ~AwaitChannelAccept
  BY <1>1, <1>9, DrainMoves DEF DrainInv
<1> QED BY <1>3, <1>5, <1>7, <1>8, <1>9, <1>10, <1>11 DEF DrainTask

(* A task that has not got its stream had not got it before.               *)
LEMMA NotYetServing ==
  ASSUME TypeInv, OpenInv, Next, task'.pc \in {"off", "bind"}
  PROVE  task.pc \in {"off", "bind"}
<1>1. task \in Tasks
  BY DEF TypeInv, ServerTypes
<1>2. CASE RecvChannelOpen /\ task' # task
  BY <1>1, <1>2, OpenedOnce DEF RecvChannelOpen, Tasks
<1>3. CASE SenderTask
  <2>1. CASE AwaitStream
    BY <2>1 DEF AwaitStream
  <2>2. CASE TaskEvents
    BY <2>2, TaskEventsOutcome
  <2>3. CASE ServeRequest \/ SenderMisreads
    BY <2>3, SenderOutcome
  <2>4. CASE WritePage \/ TaskReports
    BY <2>4 DEF WritePage, TaskReports
  <2>5. CASE SenderReads \/ SenderEnds \/ TaskFinishes
    BY <1>1, <2>5 DEF SenderReads, SenderEnds, TaskFinishes, Task, Tasks
  <2> QED BY <1>3, <2>1, <2>2, <2>3, <2>4, <2>5 DEF SenderTask
<1> QED BY <1>2, <1>3, TaskMoves

(* Before the task has its stream no page is sent and none is drained.     *)
LEMMA EarlyStep ==
  ASSUME IInv, Next
  PROVE  EarlyInv'
<1> SUFFICES ASSUME task'.pc \in {"off", "bind"}
             PROVE  /\ down' = <<>> /\ drain'.drained = 0 /\ drain'.grant = 0
                    /\ pageRead' = "aligned"
  BY DEF EarlyInv, Early
<1>1. /\ task.pc \in {"off", "bind"} /\ drain \in Drains
      /\ down = <<>> /\ drain.drained = 0 /\ drain.grant = 0
      /\ drain.pc \notin {"grant", "flush"} /\ pageRead = "aligned"
  BY NotYetServing DEF IInv, TypeInv, ClientTypes, PhaseInv, CreditInv, DrainInv, EarlyInv,
     Early, Drains
<1>2. /\ ~DrainReads /\ ~DrainPage /\ ~DrainMisreads /\ ~SenderMisreads /\ ~WritePage
      /\ ~DrainGrants
  BY <1>1 DEF DrainReads, DrainPage, DrainMisreads, SenderMisreads, WritePage, DrainGrants
<1>3. down' = down
  <2>1. CASE \/ EnterScrollback \/ PageUp \/ SnapBack \/ RecvPage \/ DrainRequest
             \/ DrainReports \/ ServeRequest \/ TaskReports \/ SessionEnds
    BY <2>1 DEF EnterScrollback, PageUp, SnapBack, RecvPage, DrainRequest, DrainReports,
       ServeRequest, TaskReports, SessionEnds, streamVars
  <2> QED BY <1>2, <2>1, FlowMoves DEF IInv
<1>4. drain'.drained = 0 /\ drain'.grant = 0
  <2>1. CASE DrainRequest \/ DrainEnds
    <3>1. drain' = Exit(drain) \/ drain' = drain
      BY <2>1 DEF DrainRequest, DrainEnds
    <3> QED BY <1>1, <3>1, ExitType
  <2>2. CASE DrainFinishes \/ DrainReports \/ AwaitChannelAccept
    BY <1>1, <2>2 DEF DrainFinishes, DrainReports, AwaitChannelAccept, Drain, Drains
  <2> QED BY <1>1, <1>2, <2>1, <2>2, DrainMoves DEF DrainTask
<1>5. pageRead' = "aligned"
  <2>1. CASE ServerPump \/ SenderTask \/ Output \/ Done
    BY <1>1, <2>1, ServerOnly DEF clientVars
  <2>2. CASE ClientPump \/ User \/ DrainTask \/ SessionEnds
    BY <1>1, <1>2, <2>2 DEF ClientPump, User, DrainTask, SendChannelOpen, AwaitChannelAccept,
       IgnoreFrame, EnterScrollback, PageUp, SnapBack, RecvPage, ForwardControl, DrainRequest,
       DrainEnds, DrainFinishes, DrainReports, SessionEnds, clientVars
  <2> QED BY <2>1, <2>2 DEF Next
<1> QED BY <1>1, <1>3, <1>4, <1>5

(* A frame that is fair stays so.                                          *)
LEMMA StaysFair ==
  ASSUME IInv, Next, NEW m, Fair(m, Early, Draining)
  PROVE  Fair(m, Early', Draining')
BY NotYetServing, KeepsDraining DEF IInv, PhaseInv, Fair, Early

(* A queue of fair frames stays one when it loses its first and when it gains another.  *)
LEMMA FairQueue ==
  ASSUME IInv, Next, NEW S, NEW q \in Seq(S), NEW r,
         \A i \in DOMAIN q : Fair(q[i], Early, Draining),
         \/ r = q
         \/ r = <<>>
         \/ q # <<>> /\ r = Tail(q)
         \/ \E m \in S : Fair(m, Early', Draining') /\ r = Append(q, m)
  PROVE  \A i \in DOMAIN r : Fair(r[i], Early', Draining')
<1>1. \A i \in DOMAIN q : Fair(q[i], Early', Draining')
  BY StaysFair
<1>2. CASE r = <<>>
  BY <1>2
<1>3. CASE q # <<>> /\ r = Tail(q)
  BY <1>1, <1>3, FirstOf
<1>4. CASE \E m \in S : Fair(m, Early', Draining') /\ r = Append(q, m)
  <2>1. PICK m \in S : Fair(m, Early', Draining') /\ r = Append(q, m)
    BY <1>4
  <2> QED BY <1>1, <2>1, LastOf
<1> QED BY <1>1, <1>2, <1>3, <1>4

(* Frames without bytes are fair.                                          *)
LEMMA FairFrames ==
  ASSUME NEW e \in BOOLEAN, NEW d \in BOOLEAN
  PROVE  Fair(Open, e, d) /\ Fair(Close, e, d) /\ Fair(Stream, e, d)
BY DEF Fair, Open, Close, Stream

(* A step keeps the frames on both queues and on the control stream fair.  *)
LEMMA GrantStep ==
  ASSUME IInv, Next
  PROVE  GrantInv'
<1> DEFINE CC == Frames({"ScrollbackCredit", "ChannelClose"})
           CS == Frames({"ChannelOpen", "ScrollbackCredit", "ChannelClose"})
           EV == Frames({"Stream", "ScrollbackCredit", "ChannelClose"})
<1>1. /\ cctrl \in Seq(CC) /\ c2s \in Seq(CS) /\ evq \in Seq(EV)
      /\ \A i \in DOMAIN cctrl : Fair(cctrl[i], Early, Draining)
      /\ \A i \in DOMAIN c2s : Fair(c2s[i], Early, Draining)
      /\ \A i \in DOMAIN evq : Fair(evq[i], Early, Draining)
  BY DEF IInv, TypeInv, ClientTypes, StreamTypes, ServerTypes, CreditInv, GrantInv
<1>2. /\ Close \in CC /\ Close \in EV /\ Stream \in EV /\ Open \in CS
      /\ \A m \in CC : m \in CS
      /\ \A m \in CS : m.t = "ScrollbackCredit" => m \in EV
      /\ Fair(Open, Early', Draining') /\ Fair(Close, Early', Draining')
      /\ Fair(Stream, Early', Draining')
      /\ [t |-> "ChannelClose", n |-> 0] = Close /\ [t |-> "Stream", n |-> 0] = Stream
  <2>1. Early' \in BOOLEAN /\ Draining' \in BOOLEAN
    BY DEF Early, Draining
  <2>2. /\ Fair(Open, Early', Draining') /\ Fair(Close, Early', Draining')
        /\ Fair(Stream, Early', Draining')
    BY <2>1, FairFrames
  <2> QED BY <2>2 DEF Frames, Close, Stream, Open
<1>3. \A i \in DOMAIN cctrl' : Fair(cctrl'[i], Early', Draining')
  <2>1. \/ cctrl' = cctrl
        \/ cctrl # <<>> /\ cctrl' = Tail(cctrl)
        \/ \E m \in CC : Fair(m, Early', Draining') /\ cctrl' = Append(cctrl, m)
    <3>1. CASE DrainGrants
      <4>1. PICK m : m = Credit(drain.grant)
        OBVIOUS
      <4>2. m \in CC
        BY <4>1 DEF Credit, Frames, IInv, TypeInv, ClientTypes, Drains
      <4>3. Fair(m, Early, Draining)
        BY <3>1, <4>1 DEF DrainGrants, Credit, Fair, Draining, IInv, TypeInv, ClientTypes,
           Drains, CreditInv, DrainInv, EarlyInv, Early
      <4>4. Fair(m, Early', Draining')
        BY <4>3, StaysFair
      <4> QED BY <3>1, <4>1, <4>2, <4>4 DEF DrainGrants
    <3>2. CASE DrainReports
      BY <1>2, <3>2 DEF DrainReports
    <3>3. CASE ~DrainGrants /\ ~DrainReports
      <4>1. CASE ServerPump \/ SenderTask \/ Output \/ Done
        BY <4>1, ServerOnly DEF clientVars
      <4>2. CASE ClientPump \/ User \/ SessionEnds
        BY <4>2 DEF ClientPump, User, SendChannelOpen, AwaitChannelAccept, IgnoreFrame,
           RecvPage, ForwardControl, EnterScrollback, PageUp, SnapBack, SessionEnds, clientVars
      <4>3. CASE DrainTask
        BY <3>3, <4>3 DEF DrainTask, DrainRequest, DrainPage, DrainReads, DrainMisreads,
           DrainEnds, DrainFinishes
      <4> QED BY <4>1, <4>2, <4>3 DEF Next
    <3> QED BY <3>1, <3>2, <3>3
  <2> HIDE DEF CC
  <2> QED BY <1>1, <2>1, FairQueue
<1>4. \A i \in DOMAIN c2s' : Fair(c2s'[i], Early', Draining')
  <2>1. \/ c2s' = c2s
        \/ c2s # <<>> /\ c2s' = Tail(c2s)
        \/ \E m \in CS : Fair(m, Early', Draining') /\ c2s' = Append(c2s, m)
    <3>1. CASE SendChannelOpen
      BY <1>2, <3>1 DEF SendChannelOpen
    <3>2. CASE ForwardControl
      <4>1. Head(cctrl) \in CC /\ Fair(Head(cctrl), Early, Draining)
        <5> HIDE DEF CC
        <5> QED BY <1>1, <3>2, FirstOf DEF ForwardControl
      <4>2. PICK m : m = Head(cctrl)
        OBVIOUS
      <4>3. m \in CS /\ Fair(m, Early, Draining)
        BY <1>2, <4>1, <4>2
      <4>4. Fair(m, Early', Draining')
        BY <4>3, StaysFair
      <4> QED BY <3>2, <4>2, <4>3, <4>4 DEF ForwardControl
    <3>3. CASE RecvChannelOpen \/ RecvCredit \/ RecvChannelClose
      BY <3>3 DEF RecvChannelOpen, RecvCredit, RecvChannelClose, ServerReads
    <3>4. CASE /\ ~SendChannelOpen /\ ~ForwardControl
               /\ ~(RecvChannelOpen \/ RecvCredit \/ RecvChannelClose)
      BY <3>4 DEF Next, ClientPump, User, DrainTask, ServerPump, SenderTask, AwaitChannelAccept,
         IgnoreFrame, RecvPage, EnterScrollback, PageUp, SnapBack, DrainRequest, DrainPage,
         DrainReads, DrainMisreads, DrainEnds, DrainGrants, DrainFinishes, DrainReports,
         BindStream, PumpResumes, WriteControl, AwaitStream, TaskEvents, ServeRequest,
         SenderReads, SenderMisreads, WritePage, SenderEnds, TaskFinishes, TaskReports,
         SessionEnds, Output, ScrollUp, ClearScrollback, Done, vars, streamVars
    <3> QED BY <3>1, <3>2, <3>3, <3>4
  <2> HIDE DEF CS
  <2> QED BY <1>1, <2>1, FairQueue
<1>5. \A i \in DOMAIN evq' : Fair(evq'[i], Early', Draining')
  <2>1. \/ evq' = evq
        \/ evq' = <<>>
        \/ evq # <<>> /\ evq' = Tail(evq)
        \/ \E m \in EV : Fair(m, Early', Draining') /\ evq' = Append(evq, m)
    <3>1. CASE RecvCredit
      <4>1. Head(c2s) \in CS /\ Fair(Head(c2s), Early, Draining) /\ Head(c2s).t = "ScrollbackCredit"
        <5> HIDE DEF CS
        <5> QED BY <1>1, <3>1, FirstOf DEF RecvCredit, ServerReads
      <4>2. PICK m : m = Head(c2s)
        OBVIOUS
      <4>3. m \in EV /\ Fair(m, Early, Draining)
        BY <1>2, <4>1, <4>2
      <4>4. Fair(m, Early', Draining')
        BY <4>3, StaysFair
      <4> QED BY <3>1, <4>2, <4>3, <4>4 DEF RecvCredit, TrySend
    <3>2. CASE RecvChannelClose \/ BindStream
      BY <1>2, <3>2 DEF RecvChannelClose, BindStream, HandOn
    <3>3. CASE PumpResumes
      BY <1>2, <3>3 DEF PumpResumes
    <3>4. CASE AwaitStream \/ TaskEvents \/ TaskReports
      BY <3>4 DEF AwaitStream, TaskEvents, TaskReports
    <3>5. CASE ClientPump \/ User \/ DrainTask \/ Done
      BY <3>5, ClientOnly DEF serverVars
    <3>6. CASE \/ RecvChannelOpen \/ WriteControl \/ SenderReads \/ ServeRequest \/ SenderMisreads
               \/ WritePage \/ SenderEnds \/ TaskFinishes \/ Output \/ SessionEnds
      BY <3>6 DEF Output, ScrollUp, ClearScrollback, RecvChannelOpen, WriteControl,
         ServeRequest, SenderReads, SenderMisreads, WritePage, SenderEnds, TaskFinishes,
         SessionEnds
    <3> QED BY <3>1, <3>2, <3>3, <3>4, <3>5, <3>6 DEF Next, ServerPump, SenderTask
  <2> HIDE DEF EV
  <2> QED BY <1>1, <2>1, FairQueue
<1> QED BY <1>3, <1>4, <1>5 DEF GrantInv

(* The task waits, or writes, by the price of its page.                    *)
LEMMA PriceStep ==
  ASSUME IInv, Next
  PROVE  PriceInv'
<1>1. task \in Tasks /\ PriceInv
  BY DEF IInv, TypeInv, ServerTypes, CreditInv
<1>2. CASE RecvChannelOpen
  <2>1. task.pc = "off"
    BY <1>2, OpenedOnce DEF IInv, PhaseInv
  <2> QED BY <1>1, <1>2, <2>1 DEF RecvChannelOpen, PriceInv, Tasks
<1>3. CASE AwaitStream
  <2>1. task'.pc \in {"serve", "report", "bind"}
    BY <1>3, AwaitStreamOutcome DEF IInv
  <2> QED BY <2>1 DEF PriceInv
<1>4. CASE TaskEvents
  <2>1. task'.pc \notin {"wait", "write"} \/ task' = task
        \/ /\ task'.page = task.page
           /\ task'.pc = IF task.pc = "wait" /\ task'.credit >= task.page.size
                         THEN "write" ELSE task.pc
    BY <1>4, TaskEventsOutcome DEF IInv
  <2>2. CASE task'.pc \notin {"wait", "write"} \/ task' = task
    BY <1>1, <2>2 DEF PriceInv
  <2>3. CASE /\ task'.page = task.page
             /\ task'.pc = IF task.pc = "wait" /\ task'.credit >= task.page.size
                           THEN "write" ELSE task.pc
    <3>1. task' \in Tasks /\ (task'.pc \in {"wait", "write"} => task'.page \in Pages)
      BY ServerTypesStep DEF ServerTypes
    <3>2. task'.pc \in {"wait", "write"} => task'.credit \in Nat /\ task'.page.size \in Nat
      BY <3>1 DEF Tasks, Pages
    <3>3. task.pc \in {"serve", "wait"}
      BY <1>4 DEF TaskEvents
    <3>4. task'.pc = "wait" => ~(task'.credit >= task'.page.size)
      BY <2>3, <3>3
    <3>5. task'.pc = "write" => task'.credit >= task'.page.size
      BY <2>3, <3>3
    <3> QED BY <3>2, <3>4, <3>5 DEF PriceInv
  <2> QED BY <2>1, <2>2, <2>3
<1>5. CASE ServeRequest \/ SenderMisreads
  <2>1. /\ task' \in Tasks /\ task'.credit = task.credit
        /\ \/ /\ task'.page \in Pages
              /\ task'.pc = IF task.credit < task'.page.size THEN "wait" ELSE "write"
           \/ task'.pc \in {"serve", "finish"}
    BY <1>5, SenderOutcome DEF IInv
  <2>2. CASE task'.pc \in {"serve", "finish"}
    BY <2>2 DEF PriceInv
  <2>3. CASE /\ task'.page \in Pages
             /\ task'.pc = IF task.credit < task'.page.size THEN "wait" ELSE "write"
    <3>1. task'.page.size \in Nat /\ task.credit \in Nat
      BY <1>1, <2>3 DEF Pages, Tasks
    <3> QED BY <2>1, <2>3, <3>1 DEF PriceInv
  <2> QED BY <2>1, <2>2, <2>3
<1>6. CASE WritePage \/ TaskReports
  BY <1>6 DEF WritePage, TaskReports, PriceInv
<1>7. CASE SenderReads \/ SenderEnds \/ TaskFinishes
  <2>1. task'.pc \in {"serve", "finish", "report"}
    BY <1>1, <1>7 DEF SenderReads, SenderEnds, TaskFinishes, Task, Tasks
  <2> QED BY <2>1 DEF PriceInv
<1>8. CASE ~SenderTask /\ ~RecvChannelOpen
  BY <1>1, <1>8, TaskMoves DEF PriceInv
<1> QED BY <1>2, <1>3, <1>4, <1>5, <1>6, <1>7, <1>8 DEF SenderTask

(* All that the conservation adds up are numbers.                          *)
LEMMA Amounts ==
  ASSUME TypeInv
  PROVE  /\ task.credit \in Nat /\ drain.drained \in Nat /\ drain.grant \in Nat
         /\ PageBytes \in Nat /\ Sum(Grants(cctrl)) \in Nat /\ Sum(Grants(c2s)) \in Nat
         /\ Sum(Grants(evq)) \in Nat /\ Window \in Nat /\ Chunk \in Nat \ {0}
<1>1. task.credit \in Nat /\ drain.drained \in Nat /\ drain.grant \in Nat
  BY DEF TypeInv, ClientTypes, ServerTypes, Drains, Tasks
<1>2. PageBytes \in Nat
  BY PageSizesOfType DEF TypeInv, StreamTypes, PageBytes
<1>3. Sum(Grants(cctrl)) \in Nat /\ Sum(Grants(c2s)) \in Nat /\ Sum(Grants(evq)) \in Nat
  BY GrantsType DEF TypeInv, ClientTypes, StreamTypes, ServerTypes
<1> QED BY <1>1, <1>2, <1>3, ChannelsAssumption

(* A queue of frames that grant nothing adds up to nothing.                *)
LEMMA NoGrants ==
  ASSUME NEW T, NEW q \in Seq(Frames(T)), \A i \in DOMAIN q : q[i].n = 0
  PROVE  Sum(Grants(q)) = 0
<1>1. /\ Grants(q) \in Seq(Nat) /\ DOMAIN Grants(q) = DOMAIN q
      /\ \A i \in DOMAIN q : Grants(q)[i] = q[i].n
  BY GrantsType DEF Grants
<1>2. PICK s \in Seq(Nat) : s = Grants(q)
  BY <1>1
<1>3. \A i \in DOMAIN s : s[i] = 0
  BY <1>1, <1>2
<1> QED BY <1>2, <1>3, SumZero

(* A grant always finds room in the task's queue: a full queue of grants, and this one, *)
(* would be worth more than the window.                                                 *)
LEMMA GrantFits ==
  ASSUME IInv, RecvCredit, Serving, Draining, pageRead # "torn"
  PROVE  mapped /\ task.pc # "gone" /\ Len(evq) < EventCap
<1>1. /\ c2s # <<>> /\ Head(c2s).t = "ScrollbackCredit" /\ spump = "run" /\ TypeInv
      /\ c2s \in Seq(Frames({"ChannelOpen", "ScrollbackCredit", "ChannelClose"}))
      /\ evq \in Seq(Frames({"Stream", "ScrollbackCredit", "ChannelClose"}))
  BY DEF RecvCredit, ServerReads, IInv, TypeInv, StreamTypes, ServerTypes
<1>2. mapped /\ task.pc # "gone"
  BY <1>1 DEF IInv, PhaseInv, WorkInv, Working, Serving, Ended
<1>3. ASSUME ~(Len(evq) < EventCap)
      PROVE  FALSE
  <2>1. PICK h : h = Head(c2s)
    OBVIOUS
  <2>2. h.n \in Nat /\ h.n >= Chunk
    <3>1. h = c2s[1] /\ 1 \in DOMAIN c2s /\ h.t = "ScrollbackCredit"
          /\ h \in Frames({"ChannelOpen", "ScrollbackCredit", "ChannelClose"})
      BY <1>1, <2>1, FirstOf
    <3>2. Fair(h, Early, Draining)
      BY <3>1 DEF IInv, CreditInv, GrantInv
    <3> QED BY <3>1, <3>2 DEF Fair, Frames
  <2>3. Sum(Grants(c2s)) = h.n + Sum(Grants(Tail(c2s)))
    BY <1>1, <2>1, GrantsTail
  <2>4. Sum(Grants(Tail(c2s))) \in Nat
    BY <1>1, FirstOf, GrantsType
  <2>5. PICK s \in Seq(Nat) : s = Grants(evq)
    BY <1>1, GrantsType
  <2>6. Len(s) = Len(evq) /\ Len(s) \in Nat /\ \A i \in DOMAIN s : s[i] >= Chunk
    <3>1. \A i \in DOMAIN evq : evq[i].t = "ScrollbackCredit" /\ Fair(evq[i], Early, Draining)
      BY DEF IInv, PhaseInv, QueueInv, CreditInv, GrantInv
    <3>2. \A i \in DOMAIN evq : evq[i].n >= Chunk
      BY <3>1 DEF Fair
    <3>3. DOMAIN s = DOMAIN evq /\ \A i \in DOMAIN evq : s[i] = evq[i].n
      BY <2>5 DEF Grants
    <3> QED BY <1>1, <2>5, <3>2, <3>3, GrantsType
  <2>7. EventCap \in Nat /\ Chunk \in Nat \ {0} /\ Window \in Nat
    BY ChannelsAssumption
  <2>8. EventCap <= Len(s)
    BY <1>3, <2>6, <2>7
  <2>9. Sum(s) >= EventCap * Chunk
    BY <2>6, <2>7, <2>8, SumAtLeast
  <2>10. PICK w \in Nat : w = EventCap * Chunk
    BY <2>7
  <2>11. Sum(Grants(evq)) >= Window
    <3>1. Window <= w
      BY <2>10, ChannelsAssumption
    <3>2. Sum(Grants(evq)) >= w /\ Sum(Grants(evq)) \in Nat
      BY <1>1, <2>5, <2>9, <2>10, Amounts
    <3> QED BY <2>7, <3>1, <3>2
  <2>12. task.credit + PageBytes + drain.drained + drain.grant
          + (Sum(Grants(cctrl)) + Sum(Grants(c2s)) + Sum(Grants(evq))) = Window
    BY DEF IInv, CreditInv, SumInv, Granted
  <2>13. /\ task.credit \in Nat /\ drain.drained \in Nat /\ drain.grant \in Nat
         /\ PageBytes \in Nat /\ Sum(Grants(cctrl)) \in Nat /\ Sum(Grants(c2s)) \in Nat
         /\ Sum(Grants(evq)) \in Nat
    BY <1>1, Amounts
  <2>14. Sum(Grants(c2s)) > 0
    BY <2>2, <2>3, <2>4, <2>7
  <2>15. PICK x \in Nat : x = task.credit + PageBytes + drain.drained + drain.grant
    BY <2>13
  <2>16. x + (Sum(Grants(cctrl)) + Sum(Grants(c2s)) + Sum(Grants(evq))) = Window
    BY <2>12, <2>15
  <2> QED BY <2>7, <2>11, <2>13, <2>14, <2>16
<1> QED BY <1>2, <1>3

(* Frames and pages move, and the credit is spent and granted again, but the window     *)
(* stays whole until the drain task begins to end.                                      *)
LEMMA SumStep ==
  ASSUME IInv, Next
  PROVE  SumInv'
<1> DEFINE CC == Frames({"ScrollbackCredit", "ChannelClose"})
           CS == Frames({"ChannelOpen", "ScrollbackCredit", "ChannelClose"})
           EV == Frames({"Stream", "ScrollbackCredit", "ChannelClose"})
<1>1. /\ cctrl \in Seq(CC) /\ c2s \in Seq(CS) /\ evq \in Seq(EV) /\ down \in Seq(Pages)
      /\ task \in Tasks /\ drain \in Drains /\ TypeInv
  BY DEF IInv, TypeInv, ClientTypes, StreamTypes, ServerTypes
<1>2. \A m \in CC : m \in CS
  BY DEF Frames
<1>3. \A m \in CS : m.t = "ScrollbackCredit" => m \in EV
  BY DEF Frames
<1>4. \A m \in EV : m.n \in Nat
  BY DEF Frames
<1>5. \A m \in CC : m.n \in Nat
  BY DEF Frames
<1>6. ASSUME NEW n \in Nat
      PROVE  Credit(n) \in CC /\ Credit(n).n = n
  BY DEF Frames, Credit
<1> HIDE DEF CC, CS, EV
<1>7. /\ task.credit \in Nat /\ drain.drained \in Nat /\ drain.grant \in Nat
      /\ PageBytes \in Nat /\ Sum(Grants(cctrl)) \in Nat /\ Sum(Grants(c2s)) \in Nat
      /\ Sum(Grants(evq)) \in Nat /\ Window \in Nat /\ Chunk \in Nat \ {0}
  BY <1>1, Amounts
<1>8. SUFFICES ASSUME Serving', Draining', pageRead' # "torn"
               PROVE  task'.credit + PageBytes' + drain'.drained + drain'.grant
                        + (Sum(Grants(cctrl')) + Sum(Grants(c2s')) + Sum(Grants(evq'))) = Window
  BY DEF SumInv, Granted
<1>9. /\ Draining /\ ~DrainFinishes /\ ~DrainReports
      /\ pageRead # "torn" /\ ~DrainMisreads
  BY <1>8, KeepsDraining, TornStays DEF IInv, PhaseInv, DrainMisreads
<1>10. Working /\ ~TaskFinishes /\ ~TaskReports /\ ~SenderEnds
  BY <1>8, KeepsWorking DEF IInv, PhaseInv, Working, Serving
<1>11. CASE AwaitStream
  <2>1. /\ task.pc = "bind" /\ evq # <<>> /\ evq' = Tail(evq) /\ task'.credit = Window
        /\ UNCHANGED <<cctrl, c2s, down, drain>>
    BY <1>1, <1>8, <1>11, AwaitStreamOutcome DEF Serving, AwaitStream, clientVars, streamVars
  <2>2. down = <<>> /\ drain.drained = 0 /\ drain.grant = 0 /\ Early
    BY <2>1 DEF IInv, CreditInv, EarlyInv, Early
  <2>3. /\ \A i \in DOMAIN cctrl : cctrl[i].n = 0
        /\ \A i \in DOMAIN c2s : c2s[i].n = 0
        /\ \A i \in DOMAIN evq : evq[i].n = 0
    BY <2>2 DEF IInv, CreditInv, GrantInv, Fair
  <2>4. Sum(Grants(cctrl)) = 0
    BY <1>1, <2>3, NoGrants DEF CC
  <2>5. Sum(Grants(c2s)) = 0
    BY <1>1, <2>3, NoGrants DEF CS
  <2>6. Tail(evq) \in Seq(EV) /\ \A i \in DOMAIN Tail(evq) : Tail(evq)[i].n = 0
    BY <1>1, <2>1, <2>3, FirstOf
  <2>7. Sum(Grants(Tail(evq))) = 0
    BY <2>6, NoGrants DEF EV
  <2>8. PageBytes' = 0
    <3>1. PageSizesOf(<<>>) \in Seq(Nat) /\ DOMAIN PageSizesOf(<<>>) = {}
      BY PageSizesOfType DEF PageSizesOf
    <3>2. Sum(PageSizesOf(<<>>)) = 0
      BY <3>1, SumZero
    <3> QED BY <2>1, <2>2, <3>2 DEF PageBytes
  <2> QED BY <1>7, <2>1, <2>2, <2>4, <2>5, <2>7, <2>8
<1>12. ASSUME ~AwaitStream
       PROVE  Serving
  <2>1. CASE task.pc = "off" /\ RecvChannelOpen
    BY <1>1, <1>8, <2>1 DEF RecvChannelOpen, Serving, Tasks
  <2>2. CASE task.pc \in {"off", "bind"} /\ ~RecvChannelOpen
    <3>1. ~SenderTask
      BY <1>10, <1>12, <2>2 DEF SenderTask, TaskEvents, ServeRequest, SenderReads,
         SenderMisreads, WritePage
    <3> QED BY <1>8, <2>2, <3>1, TaskMoves DEF Serving
  <2>3. CASE task.pc = "bind" /\ RecvChannelOpen
    BY <2>3, OpenedOnce DEF IInv, PhaseInv
  <2> QED BY <1>10, <2>1, <2>2, <2>3 DEF Working, Serving
<1>13. SUFFICES ASSUME ~AwaitStream
                PROVE  task'.credit + PageBytes' + drain'.drained + drain'.grant
                         + (Sum(Grants(cctrl')) + Sum(Grants(c2s')) + Sum(Grants(evq'))) = Window
  BY <1>11
<1>14. /\ Serving
       /\ task.credit + PageBytes + drain.drained + drain.grant
            + (Sum(Grants(cctrl)) + Sum(Grants(c2s)) + Sum(Grants(evq))) = Window
  BY <1>9, <1>12, <1>13 DEF IInv, CreditInv, SumInv, Granted
<1>15. CASE ForwardControl
  <2>1. /\ cctrl # <<>> /\ cctrl' = Tail(cctrl) /\ c2s' = Append(c2s, Head(cctrl))
        /\ UNCHANGED <<down, drain, task, evq>>
    BY <1>15 DEF ForwardControl, serverVars
  <2>2. Head(cctrl) \in CC /\ Head(cctrl) \in CS /\ Head(cctrl).n \in Nat /\ Tail(cctrl) \in Seq(CC)
    BY <1>1, <1>2, <1>5, <2>1, FirstOf
  <2>3. Sum(Grants(cctrl)) = Head(cctrl).n + Sum(Grants(Tail(cctrl)))
    BY <1>1, <2>1, GrantsTail DEF CC
  <2>4. Sum(Grants(Append(c2s, Head(cctrl)))) = Sum(Grants(c2s)) + Head(cctrl).n
    BY <1>1, <2>2, GrantsAppend DEF CS
  <2>5. Sum(Grants(Tail(cctrl))) \in Nat
    BY <2>2, GrantsType DEF CC
  <2>6. PageBytes' = PageBytes
    BY <2>1 DEF PageBytes
  <2>7. PICK n \in Nat, rest \in Nat : n = Head(cctrl).n /\ rest = Sum(Grants(Tail(cctrl)))
    BY <2>2, <2>5
  <2>8. /\ Sum(Grants(cctrl)) = n + rest /\ Sum(Grants(cctrl')) = rest
        /\ Sum(Grants(c2s')) = Sum(Grants(c2s)) + n /\ Sum(Grants(evq')) = Sum(Grants(evq))
        /\ task'.credit = task.credit
        /\ drain'.drained = drain.drained /\ drain'.grant = drain.grant
    BY <2>1, <2>3, <2>4, <2>7
  <2> QED BY <1>7, <1>14, <2>6, <2>8
<1>16. CASE DrainPage
  <2>1. /\ down # <<>> /\ down' = Tail(down) /\ UNCHANGED <<cctrl, c2s, evq, task>>
        /\ drain.pc = "loop"
    BY <1>16 DEF DrainPage, serverVars
  <2>2. Head(down) \in Pages /\ Tail(down) \in Seq(Pages)
    BY <1>1, <2>1, FirstOf
  <2>3. PICK n \in Nat : n = Head(down).size
    BY <2>2 DEF Pages
  <2>4. PageBytes = n + PageBytes' /\ PageBytes' \in Nat
    BY <1>1, <2>1, <2>2, <2>3, PageSizesOfTail, PageSizesOfType DEF PageBytes
  <2>5. PICK d \in Nat : d = drain.drained + n
    BY <1>7
  <2>6. drain.grant = 0
    BY <1>7, <2>1 DEF IInv, CreditInv, DrainInv
  <2>7. [drain EXCEPT !.drained = d] \in Drains
    BY <1>1 DEF Drains
  <2>8. \/ drain' = Exit([drain EXCEPT !.drained = d])
        \/ drain' = [pc |-> "grant", drained |-> 0, grant |-> d]
        \/ drain' = [drain EXCEPT !.drained = d]
    BY <1>16, <2>3, <2>5 DEF DrainPage, CountBytes, WireBytes
  <2>9. drain' # Exit([drain EXCEPT !.drained = d])
    BY <1>8, <2>7, ExitType DEF Draining
  <2>10. drain'.drained + drain'.grant = d /\ drain'.drained \in Nat /\ drain'.grant \in Nat
    <3>1. CASE drain' = [pc |-> "grant", drained |-> 0, grant |-> d]
      BY <3>1
    <3>2. CASE drain' = [drain EXCEPT !.drained = d]
      BY <1>1, <2>6, <3>2 DEF Drains
    <3> QED BY <2>8, <2>9, <3>1, <3>2
  <2>11. /\ Sum(Grants(cctrl')) = Sum(Grants(cctrl)) /\ Sum(Grants(c2s')) = Sum(Grants(c2s))
         /\ Sum(Grants(evq')) = Sum(Grants(evq)) /\ task'.credit = task.credit
    BY <2>1
  <2> QED BY <1>7, <1>14, <2>4, <2>5, <2>6, <2>10, <2>11
<1>17. CASE DrainGrants
  <2>1. drain'.pc # "finish"
    BY <1>8 DEF Draining
  <2>2. /\ cctrl' = Append(cctrl, Credit(drain.grant)) /\ drain'.drained = 0 /\ drain'.grant = 0
        /\ UNCHANGED <<down, c2s, evq, task>> /\ drain.pc \in {"grant", "flush"}
    BY <1>17, <2>1 DEF DrainGrants, streamVars, serverVars
  <2>3. drain.drained = 0
    BY <1>7, <2>2 DEF IInv, CreditInv, DrainInv
  <2>4. Sum(Grants(cctrl')) = Sum(Grants(cctrl)) + drain.grant
    <3>1. PICK m \in CC : m = Credit(drain.grant) /\ m.n = drain.grant
      BY <1>6, <1>7
    <3>2. Sum(Grants(Append(cctrl, m))) = Sum(Grants(cctrl)) + m.n
      BY <1>1, GrantsAppend DEF CC
    <3> QED BY <2>2, <3>1, <3>2
  <2>5. PageBytes' = PageBytes
    BY <2>2 DEF PageBytes
  <2>6. /\ Sum(Grants(c2s')) = Sum(Grants(c2s)) /\ Sum(Grants(evq')) = Sum(Grants(evq))
        /\ task'.credit = task.credit /\ drain'.drained = 0 /\ drain'.grant = 0
    BY <2>2
  <2> QED BY <1>7, <1>14, <2>3, <2>4, <2>5, <2>6
<1>18. CASE RecvCredit
  <2>1. /\ c2s # <<>> /\ c2s' = Tail(c2s) /\ Head(c2s).t = "ScrollbackCredit"
        /\ UNCHANGED <<down, drain, cctrl, task>>
    BY <1>18 DEF RecvCredit, ServerReads, clientVars
  <2>2. mapped /\ task.pc # "gone" /\ Len(evq) < EventCap
    BY <1>9, <1>14, <1>18, GrantFits
  <2>3. evq' = Append(evq, Head(c2s))
    BY <1>18, <2>2 DEF RecvCredit, TrySend
  <2>4. Head(c2s) \in EV /\ Head(c2s).n \in Nat /\ Tail(c2s) \in Seq(CS)
    BY <1>1, <1>3, <1>4, <2>1, FirstOf
  <2>5. Sum(Grants(c2s)) = Head(c2s).n + Sum(Grants(Tail(c2s)))
    BY <1>1, <2>1, GrantsTail DEF CS
  <2>6. Sum(Grants(Append(evq, Head(c2s)))) = Sum(Grants(evq)) + Head(c2s).n
    BY <1>1, <2>4, GrantsAppend DEF EV
  <2>7. Sum(Grants(Tail(c2s))) \in Nat
    BY <2>4, GrantsType DEF CS
  <2>8. PageBytes' = PageBytes
    BY <2>1 DEF PageBytes
  <2>9. PICK n \in Nat, rest \in Nat : n = Head(c2s).n /\ rest = Sum(Grants(Tail(c2s)))
    BY <2>4, <2>7
  <2>10. /\ Sum(Grants(c2s)) = n + rest /\ Sum(Grants(c2s')) = rest
         /\ Sum(Grants(evq')) = Sum(Grants(evq)) + n /\ Sum(Grants(cctrl')) = Sum(Grants(cctrl))
         /\ task'.credit = task.credit
         /\ drain'.drained = drain.drained /\ drain'.grant = drain.grant
    BY <2>1, <2>3, <2>5, <2>6, <2>9
  <2> QED BY <1>7, <1>14, <2>8, <2>10
<1>19. CASE TaskEvents
  <2>1. UNCHANGED <<down, drain, cctrl, c2s>>
    BY <1>19 DEF TaskEvents, clientVars, streamVars
  <2>2. /\ evq # <<>> /\ evq' = Tail(evq) /\ task'.credit = task.credit + Head(evq).n
    <3>1. task'.pc # "finish"
      BY <1>8 DEF Serving
    <3>2. evq # <<>> => 1 \in DOMAIN evq /\ Head(evq) = evq[1]
      BY <1>1, FirstOf
    <3>3. evq # <<>> => Head(evq).t = "ScrollbackCredit"
      BY <1>9, <1>14, <3>2 DEF IInv, PhaseInv, QueueInv
    <3> QED BY <1>1, <1>19, <3>1, <3>3, TaskEventsOutcome
  <2>3. Sum(Grants(evq)) = Head(evq).n + Sum(Grants(Tail(evq)))
    BY <1>1, <2>2, GrantsTail DEF EV
  <2>4. Head(evq).n \in Nat /\ Tail(evq) \in Seq(EV)
    BY <1>1, <1>4, <2>2, FirstOf
  <2>5. Sum(Grants(Tail(evq))) \in Nat
    BY <2>4, GrantsType DEF EV
  <2>6. PageBytes' = PageBytes
    BY <2>1 DEF PageBytes
  <2>7. Sum(Grants(cctrl')) = Sum(Grants(cctrl)) /\ Sum(Grants(c2s')) = Sum(Grants(c2s))
        /\ Sum(Grants(evq')) = Sum(Grants(Tail(evq)))
        /\ drain'.drained = drain.drained /\ drain'.grant = drain.grant
    BY <2>1, <2>2
  <2>8. PICK n \in Nat, rest \in Nat : n = Head(evq).n /\ rest = Sum(Grants(Tail(evq)))
    BY <2>4, <2>5
  <2>9. Sum(Grants(evq)) = n + rest /\ Sum(Grants(evq')) = rest /\ task'.credit = task.credit + n
    BY <2>2, <2>3, <2>7, <2>8
  <2> QED BY <1>7, <1>14, <2>6, <2>7, <2>9
<1>20. CASE WritePage
  <2>1. /\ UNCHANGED <<drain, cctrl, c2s, evq>> /\ down' = Append(down, task.page)
        /\ task'.credit = task.credit - task.page.size /\ task.page \in Pages
    BY <1>20 DEF WritePage, clientVars, IInv, TypeInv, ServerTypes
  <2>2. task.page.size \in Nat
    BY <2>1 DEF Pages
  <2>3. PageBytes' = PageBytes + task.page.size
    BY <1>1, <2>1, PageSizesOfAppend DEF PageBytes
  <2>4. /\ Sum(Grants(cctrl')) = Sum(Grants(cctrl)) /\ Sum(Grants(c2s')) = Sum(Grants(c2s))
        /\ Sum(Grants(evq')) = Sum(Grants(evq))
        /\ drain'.drained = drain.drained /\ drain'.grant = drain.grant
    BY <2>1
  <2>5. task'.credit = task.credit - task.page.size
    BY <2>1
  <2> QED BY <1>7, <1>14, <2>2, <2>3, <2>4, <2>5
<1>21. CASE /\ ~ForwardControl /\ ~DrainPage /\ ~DrainGrants /\ ~RecvCredit
            /\ ~TaskEvents /\ ~WritePage
  <2>1. /\ ~SendChannelOpen /\ ~RecvChannelOpen /\ ~RecvChannelClose /\ ~BindStream
        /\ ~PumpResumes
    <3>1. ~SendChannelOpen /\ ~RecvChannelOpen
      BY <1>1, <1>14, OpenedOnce DEF SendChannelOpen, IInv, PhaseInv, OpenInv, Serving
    <3>2. ~RecvChannelClose
      <4>1. ~Has(c2s, "ChannelClose")
        BY <1>9 DEF IInv, PhaseInv, WorkInv
      <4> QED BY <1>1, <4>1, FirstOf DEF RecvChannelClose, ServerReads, Has
    <3>3. ~BindStream
      BY <1>1, <1>14, BindRoom DEF BindStream, Serving, IInv, PhaseInv
    <3>4. ~PumpResumes
      BY <1>9, <1>10 DEF PumpResumes, IInv, PhaseInv, WorkInv, Ended
    <3> QED BY <3>1, <3>2, <3>3, <3>4
  <2>2. UNCHANGED <<cctrl, c2s, evq, down>>
    BY <1>9, <1>10, <1>13, <1>21, <2>1 DEF Next, ClientPump, User, DrainTask, ServerPump,
       SenderTask, AwaitChannelAccept, IgnoreFrame, RecvPage, EnterScrollback, PageUp, SnapBack,
       DrainRequest, DrainReads, DrainEnds, WriteControl, SenderReads, ServeRequest,
       SenderMisreads, SessionEnds, Output, ScrollUp, ClearScrollback, Done, vars, clientVars,
       streamVars, serverVars
  <2>3. drain'.drained = drain.drained /\ drain'.grant = drain.grant
    <3>1. CASE DrainRequest \/ DrainReads \/ DrainEnds
      <4>1. drain' = Exit(drain) \/ drain' = drain
        BY <3>1 DEF DrainRequest, DrainReads, DrainEnds
      <4>2. drain' # Exit(drain)
        BY <1>1, <1>8, ExitType DEF Draining
      <4> QED BY <4>1, <4>2
    <3>2. CASE AwaitChannelAccept
      BY <1>1, <3>2 DEF AwaitChannelAccept, Drains
    <3> QED BY <1>9, <1>21, <3>1, <3>2, DrainMoves DEF DrainTask
  <2>4. task'.credit = task.credit
    <3>1. CASE ServeRequest \/ SenderMisreads
      BY <1>1, <3>1, SenderOutcome
    <3>2. CASE SenderReads
      BY <3>2 DEF SenderReads
    <3> QED BY <1>10, <1>13, <1>21, <2>1, <3>1, <3>2, TaskMoves DEF SenderTask
  <2>5. PageBytes' = PageBytes
    BY <2>2 DEF PageBytes
  <2> QED BY <1>14, <2>2, <2>3, <2>4, <2>5
<1> QED BY <1>15, <1>16, <1>17, <1>18, <1>19, <1>20, <1>21

(* The invariant holds at first.                                           *)
LEMMA InitInv ==
  ASSUME Init
  PROVE  IInv
<1>1. TypeInv
  <2>1. /\ drain \in Drains /\ view \in Views /\ task \in Tasks
    BY DEF Init, Drains, Views, Tasks, Live, NoPage
  <2>2. ASSUME NEW S
        PROVE  <<>> \in Seq(S)
    OBVIOUS
  <2>3. /\ reqq = <<>> /\ pageq = <<>> /\ cctrl = <<>> /\ c2s = <<>> /\ s2c = <<>>
        /\ up = <<>> /\ down = <<>> /\ evq = <<>> /\ sctrl = <<>>
    BY DEF Init
  <2>4. /\ cpump = "start" /\ pageups = 0 /\ reentered = FALSE /\ bound = "none"
        /\ upEOF = FALSE /\ downEOF = FALSE /\ spump = "run" /\ mapped = FALSE /\ task.pc = "off"
    BY DEF Init
  <2>5. ClientTypes
    <3>1. pageRead \in Reads /\ entered \in Nat
      BY DEF Init, Reads
    <3> QED BY <2>1, <2>2, <2>3, <2>4, <3>1, Zenon DEF ClientTypes
  <2>6. StreamTypes
    BY <2>1, <2>2, <2>3, <2>4 DEF StreamTypes
  <2>7. ServerTypes
    <3>1. reqRead \in Reads /\ printed \in Nat /\ dropped \in 0 .. printed
      BY ChannelsAssumption DEF Init, Reads
    <3> QED BY <2>1, <2>2, <2>3, <2>4, <3>1 DEF ServerTypes
  <2> QED BY <2>5, <2>6, <2>7 DEF TypeInv
<1>2. PhaseInv
  BY DEF Init, PhaseInv, PumpInv, OffInv, OpenInv, WorkInv, QueueInv, Working, Draining, Has,
     Serving, Ended, Live
<1>3. PageInv /\ ViewInv
  BY DEF Init, PageInv, ViewInv, Live
<1>4. HistoryInv /\ ReadInv /\ FlowInv /\ PendingIsAnswered /\ TornByReentry
  <2>1. printed \in Nat /\ entered = 0
    BY ChannelsAssumption DEF Init
  <2>2. UnderWay = 0
    <3>1. /\ Len(reqq) = 0 /\ Len(up) = 0 /\ Len(down) = 0 /\ Len(pageq) = 0
          /\ task.page = NoPage
      BY DEF Init
    <3> QED BY <3>1 DEF UnderWay, Count
  <2> QED BY <2>1, <2>2 DEF Init, HistoryInv, ReadInv, FlowInv, PendingIsAnswered,
         TornByReentry, Live
<1>5. PagesTileView
  <2>1. view.held = <<>>
    BY DEF Init, Live
  <2> QED BY <2>1, TilesNone DEF PagesTileView
<1>6. CreditInv
  BY ChannelsAssumption DEF Init, CreditInv, DrainInv, EarlyInv, GrantInv, PriceInv, SumInv,
     Serving
<1> QED BY <1>1, <1>2, <1>3, <1>4, <1>5, <1>6 DEF IInv, RequestInv, PagesArrive

(* A stuttering step changes nothing the invariant speaks of.              *)
LEMMA Stutters ==
  ASSUME IInv, UNCHANGED vars
  PROVE  IInv'
<1>1. TypeInv'
  BY DEF IInv, TypeInv, ClientTypes, StreamTypes, ServerTypes, vars, clientVars, streamVars,
     serverVars, history
<1>2. PhaseInv'
  BY DEF IInv, PhaseInv, PumpInv, OffInv, OpenInv, WorkInv, QueueInv, Working, Draining, Has,
     Serving, Ended, vars, clientVars, streamVars, serverVars
<1>3. RequestInv'
  BY DEF IInv, RequestInv, PageInv, ViewInv, HistoryInv, ReadInv, FlowInv, PagesArrive,
     PendingIsAnswered, PagesTileView, TornByReentry, history, UnderWay, AllFor, vars,
     clientVars, streamVars, serverVars
<1>4. CreditInv'
  BY DEF IInv, CreditInv, DrainInv, EarlyInv, Early, GrantInv, PriceInv, SumInv, Serving,
     Draining, Granted, PageBytes, vars, clientVars, streamVars, serverVars
<1> QED BY <1>1, <1>2, <1>3, <1>4 DEF IInv

(* Every reachable state satisfies the invariant: the types of both sides, the phases   *)
(* of the channel's life, the requests and pages under way, and the credit.             *)
THEOREM Invariance == Spec => []IInv
<1>1. Init => IInv
  BY InitInv
<1>2. IInv /\ [Next]_vars => IInv'
  <2>1. ASSUME IInv, Next
        PROVE  IInv'
    <3>1. TypeInv'
      BY <2>1, ClientTypesStep, StreamTypesStep, ServerTypesStep DEF IInv, TypeInv
    <3>2. PhaseInv'
      BY <2>1, PumpStep, OffStep, OpenStep, WorkStep, QueueStep DEF PhaseInv
    <3>3. RequestInv'
      BY <2>1, RequestStep
    <3>4. CreditInv'
      BY <2>1, DrainStep, EarlyStep, GrantStep, PriceStep, SumStep DEF CreditInv
    <3> QED BY <3>1, <3>2, <3>3, <3>4 DEF IInv
  <2> QED BY <2>1, Stutters
<1> QED BY <1>1, <1>2, PTL DEF Spec

(* CreditConserved: while the task serves, both pumps run and the drain task dropped no *)
(* read, its credit, the pages on the stream, the bytes drained and the grants under    *)
(* way make up the window.  A task that serves keeps the drain task going until one of  *)
(* them has lost its place, so that SumInv applies.                                     *)
THEOREM CreditIsConserved == Spec => []CreditConserved
<1>1. IInv => CreditConserved
  <2> SUFFICES ASSUME IInv, Serving, ~Ended, pageRead # "torn"
               PROVE  task.credit + PageBytes + drain.drained + drain.grant + Granted = Window
    BY DEF CreditConserved
  <2>1. Draining
    BY DEF IInv, PhaseInv, WorkInv, Working, Serving
  <2> QED BY <2>1 DEF IInv, CreditInv, SumInv
<1> QED BY <1>1, Invariance, PTL

(* OnlyLargePagesStarve: until the drain task drops a read, a task that waits while     *)
(* nothing is under way has all of the window but what the drain task keeps, less than  *)
(* a chunk, and its page costs more.                                                    *)
THEOREM Starving == Spec => []OnlyLargePagesStarve
<1>1. IInv => OnlyLargePagesStarve
  <2>1. SUFFICES ASSUME IInv, task.pc = "wait", down = <<>>, Granted = 0, drain.pc = "loop",
                        pageRead # "torn"
                 PROVE  task.page.size > Window - (Chunk - 1)
    BY DEF OnlyLargePagesStarve
  <2>2. task.credit + PageBytes + drain.drained + drain.grant + Granted = Window
    BY <2>1 DEF IInv, CreditInv, SumInv, Serving, Draining
  <2>3. PageBytes = 0
    <3>1. PageSizesOf(<<>>) \in Seq(Nat) /\ DOMAIN PageSizesOf(<<>>) = {}
      BY PageSizesOfType DEF PageSizesOf
    <3>2. Sum(PageSizesOf(<<>>)) = 0
      BY <3>1, SumZero
    <3> QED BY <2>1, <3>2 DEF PageBytes
  <2>4. drain.grant = 0 /\ drain.drained < Chunk /\ task.credit < task.page.size
    BY <2>1, Amounts DEF IInv, CreditInv, DrainInv, PriceInv
  <2>5. task.page.size \in Nat
    BY <2>1 DEF IInv, TypeInv, ServerTypes, Pages
  <2>6. task.credit \in Nat /\ drain.drained \in Nat /\ Window \in Nat /\ Chunk \in Nat
    BY <2>1, Amounts DEF IInv
  <2> QED BY <2>1, <2>2, <2>3, <2>4, <2>5, <2>6
<1> QED BY <1>1, Invariance, PTL

(* PagesArrive: as long as no read was dropped, a view that waits for a page has a      *)
(* request or a page under way; the lines of a view entered once tile the history,      *)
(* however much is printed, evicted and cleared between its requests; and while its     *)
(* requests are the only ones, the drain task never drops a page it is reading.         *)
THEOREM Arrival == Spec => []PagesArrive
<1>1. IInv => PagesArrive
  BY DEF IInv, RequestInv
<1> QED BY <1>1, Invariance, PTL
=============================================================================
