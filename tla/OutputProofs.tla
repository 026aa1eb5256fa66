---------------------------- MODULE OutputProofs ----------------------------
(***************************************************************************)
(* Proofs about what the shell prints on its way to the user: the replay   *)
(* buffer of a session, its out-of-band controls and the client's screen.  *)
(* The buffer is the module MCDisplay extends, the others are instances of *)
(* it; the theorems are about each one's own specification, for every      *)
(* value of its constants.                                                 *)
(*                                                                         *)
(* The loops of the code are recursive functions here.  That such a        *)
(* function exists, and what holds of its last value, is an induction over *)
(* the natural numbers, which the first three lemmas provide in a form     *)
(* without operator parameters.                                            *)
(***************************************************************************)
EXTENDS MCDisplay, TLAPS, WellFoundedInduction, SequenceTheorems, FiniteSetTheorems

-----------------------------------------------------------------------------
(* Induction.                                                              *)

(* A non-empty set of natural numbers has a least element.                 *)
LEMMA LeastNat ==
  ASSUME NEW T \in SUBSET Nat, T # {}
  PROVE  \E n \in T : \A m \in T : n <= m
<1>1. PICK x \in T : \A y \in T : ~ (<<y, x>> \in OpToRel(<, Nat))
  BY WFMin, NatLessThanWellFounded
<1>2. \A y \in T : ~ (y < x)
  BY <1>1 DEF OpToRel
<1> QED
  BY <1>2

(* What holds at 0 and is carried from one number to the next holds up to n.*)
LEMMA UpTo ==
  ASSUME NEW n \in Nat, NEW S, 0 \in S, \A i \in 1 .. n : i - 1 \in S => i \in S
  PROVE  \A i \in 0 .. n : i \in S
<1> DEFINE T == {i \in Nat : i <= n /\ i \notin S}
<1> SUFFICES ASSUME T # {} PROVE FALSE
  OBVIOUS
<1>1. PICK m \in T : \A k \in T : m <= k
  BY LeastNat
<1>2. m # 0
  OBVIOUS
<1>3. m - 1 \in Nat /\ m - 1 \notin T /\ m \in 1 .. n
  BY <1>1, <1>2
<1> QED
  BY <1>3

IsStep(g, X, n) == g \in [X \X (1 .. n) -> X]
IsRun(f, n, X, b, g) ==
  f \in [0 .. n -> X] /\ f[0] = b /\ \A i \in 1 .. n : f[i] = g[<<f[i - 1], i>>]

(* A loop over 1 .. n whose step g stays in X has a run.                   *)
LEMMA LoopExists ==
  ASSUME NEW n \in Nat, NEW X, NEW b \in X, NEW g, IsStep(g, X, n)
  PROVE  \E f : IsRun(f, n, X, b, g)
<1> USE DEF IsStep
<1> DEFINE Is(k, f) == /\ f \in [0 .. k -> X] /\ f[0] = b
                       /\ \A i \in 1 .. k : f[i] = g[<<f[i - 1], i>>]
           S == {k \in 0 .. n : \E f : Is(k, f)}
<1>1. 0 \in S
  <2>1. Is(0, [i \in 0 .. 0 |-> b])
    OBVIOUS
  <2>2. \E f : Is(0, f)
    BY <2>1
  <2> HIDE DEF Is
  <2> QED
    BY <2>2
<1>2. ASSUME NEW k \in 1 .. n, k - 1 \in S
      PROVE  k \in S
  <2>1. PICK f : Is(k - 1, f)
    BY <1>2
  <2> DEFINE h == [i \in 0 .. k |-> IF i < k THEN f[i] ELSE g[<<f[k - 1], k>>]]
  <2> HIDE DEF Is
  <2>2. k - 1 \in Nat /\ k - 1 >= 0 /\ k - 1 < k
    OBVIOUS
  <2>3. f \in [0 .. (k - 1) -> X] /\ f[0] = b
    BY <2>1 DEF Is
  <2>4. g[<<f[k - 1], k>>] \in X
    BY <2>2, <2>3
  <2>5. h \in [0 .. k -> X]
    BY <2>2, <2>3, <2>4
  <2>6. h[0] = b
    BY <2>3
  <2>7. ASSUME NEW i \in 1 .. k
        PROVE  h[i] = g[<<h[i - 1], i>>]
    <3>1. h[i - 1] = f[i - 1]
      OBVIOUS
    <3>2. CASE i = k
      <4>1. h[k] = g[<<f[k - 1], k>>]
        OBVIOUS
      <4> HIDE DEF h
      <4> QED
        BY <3>1, <3>2, <4>1
    <3>3. CASE i < k
      <4>1. h[i] = f[i]
        BY <3>3
      <4>2. i \in 1 .. (k - 1)
        BY <3>3
      <4>3. f[i] = g[<<f[i - 1], i>>]
        BY <2>1, <4>2 DEF Is
      <4> HIDE DEF h
      <4> QED
        BY <3>1, <4>1, <4>3
    <3> QED
      BY <3>2, <3>3
  <2>8. Is(k, h)
    BY <2>5, <2>6, <2>7 DEF Is
  <2> QED
    BY <2>8
<1> HIDE DEF S
<1>3. \A i \in 0 .. n : i \in S
  BY UpTo, <1>1, <1>2
<1>4. PICK f : Is(n, f)
  BY <1>3, SMTT(40) DEF S
<1> QED
  BY <1>4 DEF IsRun


-----------------------------------------------------------------------------
(* The replay buffer.                                                      *)

(* Cap evictions are recorded: an unacknowledged chunk is missing from the *)
(* ring only if truncated was set.                                         *)
NoSilentLoss == truncated \/ Front <= acked

(* The positions of the chunks of r grow and stay below end.               *)
Ordered(r, end) ==
  /\ \A i, j \in 1 .. Len(r) : i <= j => r[i].at <= r[j].at
  /\ \A i \in 1 .. Len(r) : r[i].at < end

IInv ==
  /\ TypeOK
  /\ RingIsSuffixOfStream
  /\ Ordered(ring, pushed)
  /\ CapRespected
  /\ Len(ring) <= next_seq
  /\ acked <= next_seq
  /\ NoSilentLoss
  /\ ring = << >> => acked = next_seq

(* Popping the k oldest chunks of a ring keeps the others in order.        *)
LEMMA WithoutProperties ==
  ASSUME NEW r \in Seq(Chunk), NEW k \in 0 .. Len(r)
  PROVE  /\ Without(r, k) \in Seq(Chunk)
         /\ Len(Without(r, k)) = Len(r) - k
         /\ \A i \in 1 .. Len(r) - k : Without(r, k)[i] = r[i + k]
         /\ Without(r, k) = << >> <=> k = Len(r)
BY SubSeqProperties, EmptySeq DEF Without

(* What is left after popping is still a gap-free suffix of the stream.    *)
LEMMA WithoutIsSuffix ==
  ASSUME NEW r \in Seq(Chunk), NEW k \in 0 .. Len(r),
         NEW n \in Nat, NEW end \in Nat,
         IsSuffix(r, n, end), Ordered(r, end)
  PROVE  IsSuffix(Without(r, k), n, end) /\ Ordered(Without(r, k), end)
<1> DEFINE w == Without(r, k)
<1>1. /\ w \in Seq(Chunk)
      /\ Len(w) = Len(r) - k
      /\ \A i \in 1 .. Len(w) : w[i] = r[i + k] /\ i + k \in 1 .. Len(r)
  BY WithoutProperties
<1>2. Len(r) \in Nat /\ Len(w) \in Nat
  BY <1>1, LenProperties
<1> HIDE DEF w
<1>3. \A i \in 1 .. Len(w) : w[i].seq = n - Len(w) + (i - 1)
  <2> TAKE i \in 1 .. Len(w)
  <2>1. PICK j \in 1 .. Len(r) : j = i + k /\ w[i] = r[j]
    BY <1>1
  <2>2. r[j].seq = n - Len(r) + (j - 1)
    BY DEF IsSuffix
  <2>3. Len(w) = Len(r) - k
    BY <1>1
  <2> QED
    BY <1>2, <2>1, <2>2, <2>3
<1>4. \A i \in 1 .. Len(w) :
        w[i].at + w[i].size = IF i < Len(w) THEN w[i + 1].at ELSE end
  <2> SUFFICES ASSUME NEW i \in 1 .. Len(w)
               PROVE  w[i].at + w[i].size = IF i < Len(w) THEN w[i + 1].at ELSE end
    OBVIOUS
  <2>1. w[i] = r[i + k] /\ i + k \in 1 .. Len(r)
    BY <1>1
  <2>2. CASE i < Len(w)
    <3>1. w[i + 1] = r[(i + 1) + k] /\ (i + 1) + k = (i + k) + 1 /\ i + k < Len(r)
      BY <1>1, <1>2, <2>2, SMTT(40)
    <3> QED
      BY <2>1, <2>2, <3>1 DEF IsSuffix
  <2>3. CASE i = Len(w)
    <3>1. i + k = Len(r)
      BY <1>1, <1>2, <2>3
    <3> QED
      BY <1>2, <2>1, <2>3, <3>1 DEF IsSuffix
  <2> QED
    BY <1>2, <2>2, <2>3
<1>5. Ordered(w, end)
  <2>1. ASSUME NEW i \in 1 .. Len(w), NEW j \in 1 .. Len(w), i <= j
        PROVE  w[i].at <= w[j].at
    <3>1. /\ w[i] = r[i + k] /\ i + k \in 1 .. Len(r)
          /\ w[j] = r[j + k] /\ j + k \in 1 .. Len(r)
          /\ i + k <= j + k
      BY <1>1, <1>2, <2>1
    <3> QED
      BY <3>1 DEF Ordered
  <2>2. \A i \in 1 .. Len(w) : w[i].at < end
    BY <1>1 DEF Ordered
  <2> QED
    BY <2>1, <2>2 DEF Ordered
<1> QED
  BY <1>3, <1>4, <1>5 DEF IsSuffix, w

(* A chunk numbered n at position end extends the suffix by one.           *)
LEMMA AppendIsSuffix ==
  ASSUME NEW r \in Seq(Chunk), NEW n \in Nat, NEW end \in Nat,
         NEW size \in ChunkSizes,
         IsSuffix(r, n, end), Ordered(r, end)
  PROVE  LET a == Append(r, [seq |-> n, size |-> size, at |-> end])
         IN  /\ a \in Seq(Chunk)
             /\ Len(a) = Len(r) + 1
             /\ a[1].at = IF r = << >> THEN end ELSE r[1].at
             /\ IsSuffix(a, n + 1, end + size)
             /\ Ordered(a, end + size)
<1> DEFINE c == [seq |-> n, size |-> size, at |-> end]
           a == Append(r, c)
<1>1. c \in Chunk /\ c.seq = n /\ c.size = size /\ c.at = end /\ size \in Nat \ {0}
  BY OutputBufferAssumption DEF Chunk
<1>2. /\ a \in Seq(Chunk)
      /\ Len(a) = Len(r) + 1
      /\ \A i \in 1 .. Len(r) : a[i] = r[i]
      /\ a[Len(r) + 1] = c
  BY <1>1, AppendProperties
<1>3. Len(r) \in Nat /\ (r = << >> <=> Len(r) = 0)
  BY EmptySeq, LenProperties
<1>4. \A i \in 1 .. Len(r) : r[i].at \in Nat /\ r[i].size \in Nat
  <2>1. \A i \in 1 .. Len(r) : r[i] \in Chunk
    BY ElementOfSeq
  <2> QED
    BY <2>1, OutputBufferAssumption DEF Chunk
<1> HIDE DEF a, c
<1>5. a[1].at = IF r = << >> THEN end ELSE r[1].at
  BY <1>1, <1>2, <1>3
<1>6. ASSUME NEW i \in 1 .. Len(a)
      PROVE  /\ a[i].seq = (n + 1) - Len(a) + (i - 1)
             /\ a[i].at + a[i].size = IF i < Len(a) THEN a[i + 1].at ELSE end + size
             /\ a[i].at \in Nat
             /\ a[i].at < end + size
  <2>1. CASE i < Len(r)
    <3>1. i \in 1 .. Len(r) /\ i + 1 \in 1 .. Len(r) /\ i < Len(a)
      BY <1>2, <1>3, <2>1
    <3>2. a[i] = r[i] /\ a[i + 1] = r[i + 1] /\ r[i].at \in Nat
      BY <1>2, <1>4, <3>1
    <3>3. r[i].at + r[i].size = r[i + 1].at
      BY <2>1, <3>1 DEF IsSuffix
    <3>4. r[i].seq = n - Len(r) + (i - 1) /\ r[i].at < end
      BY <3>1 DEF IsSuffix, Ordered
    <3>5. Len(a) = Len(r) + 1
      BY <1>2
    <3>6. a[i].seq = (n + 1) - Len(a) + (i - 1)
      BY <1>3, <3>1, <3>2, <3>4, <3>5
    <3>7. a[i].at + a[i].size = IF i < Len(a) THEN a[i + 1].at ELSE end + size
      BY <3>1, <3>2, <3>3
    <3>8. a[i].at \in Nat /\ a[i].at < end + size
      BY <1>1, <3>2, <3>4, SMTT(40)
    <3> QED
      BY <3>6, <3>7, <3>8
  <2>2. CASE i = Len(r)
    <3>1. i \in 1 .. Len(r) /\ i < Len(a) /\ Len(a) = Len(r) + 1
      BY <1>2, <1>3, <2>2
    <3>2. a[i] = r[i] /\ a[i + 1] = c /\ r[i].at \in Nat
      BY <1>2, <1>4, <2>2, <3>1
    <3>3. r[i].at + r[i].size = end
      BY <2>2, <3>1 DEF IsSuffix
    <3>4. r[i].seq = n - Len(r) + (i - 1) /\ r[i].at < end
      BY <3>1 DEF IsSuffix, Ordered
    <3>5. a[i].seq = (n + 1) - Len(a) + (i - 1)
      BY <1>3, <3>1, <3>2, <3>4
    <3>6. a[i].at + a[i].size = IF i < Len(a) THEN a[i + 1].at ELSE end + size
      BY <1>1, <3>1, <3>2, <3>3
    <3>7. a[i].at \in Nat /\ a[i].at < end + size
      BY <1>1, <3>2, <3>4, SMTT(40)
    <3> QED
      BY <3>5, <3>6, <3>7
  <2>3. CASE i = Len(r) + 1
    <3>1. a[i] = c /\ Len(a) = Len(r) + 1
      BY <1>2, <2>3
    <3> QED
      BY <1>1, <1>3, <2>3, <3>1
  <2>4. i < Len(r) \/ i = Len(r) \/ i = Len(r) + 1
    <3>1. Len(a) = Len(r) + 1
      BY <1>2
    <3> QED
      BY <1>3, <3>1
  <2> QED
    BY <2>1, <2>2, <2>3, <2>4
<1>7. ASSUME NEW i \in 1 .. Len(a), NEW j \in 1 .. Len(a), i <= j
      PROVE  a[i].at <= a[j].at
  <2>0. Len(a) = Len(r) + 1
    BY <1>2
  <2>1. CASE j <= Len(r)
    <3>1. i \in 1 .. Len(r) /\ j \in 1 .. Len(r)
      BY <1>3, <1>7, <2>0, <2>1
    <3>2. a[i] = r[i] /\ a[j] = r[j]
      BY <1>2, <3>1
    <3> QED
      BY <1>7, <3>1, <3>2 DEF Ordered
  <2>2. CASE j = Len(r) + 1 /\ i <= Len(r)
    <3>1. i \in 1 .. Len(r)
      BY <1>3, <2>0, <2>2
    <3>2. a[i] = r[i] /\ a[j] = c
      BY <1>2, <2>2, <3>1
    <3>3. r[i].at < end /\ r[i].at \in Nat
      BY <1>4, <3>1 DEF Ordered
    <3> QED
      BY <1>1, <3>2, <3>3
  <2>3. CASE j = Len(r) + 1 /\ i = j
    BY <1>6, <2>3
  <2> QED
    BY <1>3, <1>7, <2>0, <2>1, <2>2, <2>3
<1>8. IsSuffix(a, n + 1, end + size) /\ Ordered(a, end + size)
  BY <1>6, <1>7 DEF IsSuffix, Ordered
<1> QED
  BY <1>2, <1>5, <1>8 DEF a, c

(* Initially the ring is the empty suffix of an empty stream.              *)
LEMMA InitIInv == Init => IInv
<1> SUFFICES ASSUME Init PROVE IInv
  OBVIOUS
<1>1. ring = << >> /\ ring \in Seq(Chunk) /\ Len(ring) = 0
  BY EmptySeq DEF Init
<1>2. TypeOK
  BY <1>1 DEF Init, TypeOK
<1>3. RingIsSuffixOfStream /\ Ordered(ring, pushed)
  BY <1>1 DEF Init, RingIsSuffixOfStream, IsSuffix, Ordered
<1>4. /\ CapRespected /\ Len(ring) <= next_seq /\ acked <= next_seq /\ NoSilentLoss
      /\ acked = next_seq
  BY <1>1, OutputBufferAssumption DEF Init, CapRespected, NoSilentLoss, Front
<1> QED
  BY <1>2, <1>3, <1>4 DEF IInv

(* The oldest retained number is next_seq less the number of chunks held.  *)
LEMMA FrontIsDifference ==
  ASSUME NEW r \in Seq(Chunk), NEW n \in Nat, NEW end \in Nat, IsSuffix(r, n, end)
  PROVE  (IF r = << >> THEN n ELSE r[1].seq) = n - Len(r)
<1>1. Len(r) \in Nat /\ (r = << >> <=> Len(r) = 0)
  BY EmptySeq, LenProperties
<1> QED
  BY <1>1 DEF IsSuffix

(* push keeps the invariant: the eviction loop only shortens the suffix.   *)
LEMMA PushIInv ==
  ASSUME IInv, NEW size \in ChunkSizes, Push(size)
  PROVE  IInv'
<1> DEFINE r     == Append(ring, [seq |-> next_seq, size |-> size, at |-> pushed])
           total == total_bytes + size
           end   == pushed + size
<1>0. /\ ring \in Seq(Chunk) /\ next_seq \in Nat /\ pushed \in Nat
      /\ total_bytes \in Nat /\ acked \in Nat /\ lowest_retained_seq \in Nat
      /\ truncated \in BOOLEAN /\ size \in Nat \ {0} /\ MaxBytes \in Nat
      /\ Len(ring) \in Nat /\ (ring = << >> <=> Len(ring) = 0)
  BY OutputBufferAssumption, EmptySeq, LenProperties DEF IInv, TypeOK
<1>1. /\ r \in Seq(Chunk)
      /\ Len(r) = Len(ring) + 1
      /\ r[1].at = IF ring = << >> THEN pushed ELSE ring[1].at
      /\ IsSuffix(r, next_seq + 1, end)
      /\ Ordered(r, end)
  BY <1>0, AppendIsSuffix DEF IInv, RingIsSuffixOfStream
<1>2. total = end - r[1].at
  <2>1. r[1].at \in Nat
    <3>1. 1 \in 1 .. Len(r) /\ r[1] \in Chunk
      BY <1>0, <1>1, ElementOfSeq
    <3> QED
      BY <3>1 DEF Chunk
  <2>2. total_bytes = IF ring = << >> THEN 0 ELSE pushed - ring[1].at
    BY DEF IInv, RingIsSuffixOfStream
  <2> HIDE DEF r
  <2> QED
    BY <1>0, <1>1, <2>1, <2>2, SMTT(40)
<1>3. next_seq' = next_seq + 1 /\ pushed' = end /\ acked' = acked
  BY DEF Push
<1>4. PICK k \in 0 .. Len(r) - 1 :
        /\ EvictionStopsAt(r, total, end, k)
        /\ ring' = Without(r, k)
        /\ total_bytes' = total - BytesOfOldest(r, k, end)
        /\ truncated' = (truncated \/ k > 0)
        /\ lowest_retained_seq' = IF k > 0 THEN r[k + 1].seq ELSE lowest_retained_seq
  BY DEF Push
<1> HIDE DEF r, total, end
<1>5. end \in Nat /\ total \in Int /\ k \in 0 .. Len(r) /\ k < Len(r)
  BY <1>0, <1>1, <1>4, SMTT(40) DEF end, total
<1>6. /\ ring' \in Seq(Chunk)
      /\ Len(ring') = Len(r) - k
      /\ ring'[1] = r[k + 1]
      /\ ring' # << >>
  <2>1. /\ Without(r, k) \in Seq(Chunk)
        /\ Len(Without(r, k)) = Len(r) - k
        /\ \A i \in 1 .. Len(r) - k : Without(r, k)[i] = r[i + k]
        /\ (Without(r, k) = << >> <=> k = Len(r))
    BY <1>1, <1>5, WithoutProperties
  <2>2. 1 \in 1 .. Len(r) - k /\ 1 + k = k + 1 /\ k # Len(r)
    BY <1>0, <1>1, <1>5
  <2> QED
    BY <1>4, <2>1, <2>2
<1>7. IsSuffix(ring', next_seq', pushed') /\ Ordered(ring', pushed')
  BY <1>0, <1>1, <1>3, <1>4, <1>5, WithoutIsSuffix
<1>8. \A i \in 1 .. Len(r) : r[i].at \in Nat /\ r[i].seq \in Nat
  <2>1. \A i \in 1 .. Len(r) : r[i] \in Chunk
    BY <1>1, ElementOfSeq
  <2> QED
    BY <2>1 DEF Chunk
<1>9. total_bytes' = pushed' - ring'[1].at /\ total_bytes' \in Nat
  <2>1. BytesOfOldest(r, k, end) = r[k + 1].at - r[1].at
    BY <1>0, <1>1, <1>5, <1>8 DEF BytesOfOldest
  <2>2. r[k + 1].at \in Nat /\ r[1].at \in Nat /\ r[k + 1].at < end
    <3>1. k + 1 \in 1 .. Len(r) /\ 1 \in 1 .. Len(r)
      BY <1>0, <1>1, <1>5
    <3>2. \A i \in 1 .. Len(r) : r[i].at < end
      BY <1>1 DEF Ordered
    <3> QED
      BY <1>8, <3>1, <3>2
  <2>3. total_bytes' = total - BytesOfOldest(r, k, end)
    BY <1>4
  <2>4. total_bytes' = end - r[k + 1].at
    BY <1>2, <1>5, <2>1, <2>2, <2>3
  <2>5. ring'[1] = r[k + 1]
    BY <1>6
  <2> QED
    BY <1>3, <1>5, <2>2, <2>4, <2>5
<1>10. TypeOK'
  <2>1. lowest_retained_seq' \in Nat
    BY <1>0, <1>1, <1>4, <1>5, <1>8
  <2>2. truncated' \in BOOLEAN
    BY <1>0, <1>4
  <2> QED
    BY <1>0, <1>3, <1>5, <1>6, <1>9, <2>1, <2>2 DEF TypeOK
<1>11. RingIsSuffixOfStream'
  BY <1>6, <1>7, <1>9 DEF RingIsSuffixOfStream
<1>12. CapRespected'
  BY <1>0, <1>1, <1>4, <1>5, <1>6, <1>9 DEF EvictionStopsAt, CapRespected
<1>13. Len(ring') <= next_seq' /\ acked' <= next_seq'
  BY <1>0, <1>1, <1>3, <1>5, <1>6 DEF IInv
<1>14. NoSilentLoss'
  <2>1. Front = next_seq - Len(ring)
    BY <1>0, FrontIsDifference DEF IInv, RingIsSuffixOfStream, Front
  <2>2. Front' = next_seq' - Len(ring')
    BY <1>0, <1>3, <1>5, <1>6, <1>7, FrontIsDifference DEF Front
  <2>3. CASE k > 0
    BY <1>4, <2>3 DEF NoSilentLoss
  <2>4. CASE k = 0
    <3>1. truncated' = truncated
      BY <1>0, <1>4, <2>4
    <3>2. Front' = Front
      BY <1>0, <1>1, <1>3, <1>6, <2>1, <2>2, <2>4
    <3> QED
      BY <1>3, <3>1, <3>2 DEF IInv, NoSilentLoss
  <2> QED
    BY <1>5, <2>3, <2>4
<1> QED
  BY <1>6, <1>7, <1>10, <1>11, <1>12, <1>13, <1>14 DEF IInv

(* trim_acked keeps the invariant: it drops acknowledged chunks only.      *)
LEMMA TrimAckedIInv ==
  ASSUME IInv, NEW n \in 0 .. next_seq, TrimAcked(n)
  PROVE  IInv'
<1>0. /\ ring \in Seq(Chunk) /\ next_seq \in Nat /\ pushed \in Nat
      /\ total_bytes \in Nat /\ acked \in Nat /\ lowest_retained_seq \in Nat
      /\ truncated \in BOOLEAN /\ n \in Nat /\ n <= next_seq /\ MaxBytes \in Nat
      /\ Len(ring) \in Nat /\ (ring = << >> <=> Len(ring) = 0)
  BY OutputBufferAssumption, EmptySeq, LenProperties DEF IInv, TypeOK
<1>1. IsSuffix(ring, next_seq, pushed) /\ Ordered(ring, pushed)
  BY DEF IInv, RingIsSuffixOfStream
<1>2. /\ next_seq' = next_seq /\ pushed' = pushed /\ truncated' = truncated
      /\ lowest_retained_seq' = lowest_retained_seq
      /\ acked' = IF n > acked THEN n ELSE acked
  BY DEF TrimAcked
<1>3. PICK k \in 0 .. Len(ring) :
        /\ \A i \in 1 .. k : ring[i].seq < n
        /\ k < Len(ring) => ring[k + 1].seq >= n
        /\ ring' = Without(ring, k)
        /\ total_bytes' = total_bytes - BytesOfOldest(ring, k, pushed)
  BY DEF TrimAcked
<1>4. /\ ring' \in Seq(Chunk)
      /\ Len(ring') = Len(ring) - k
      /\ \A i \in 1 .. Len(ring) - k : ring'[i] = ring[i + k]
      /\ (ring' = << >> <=> k = Len(ring))
  BY <1>0, <1>3, WithoutProperties
<1>5. IsSuffix(ring', next_seq', pushed') /\ Ordered(ring', pushed')
  BY <1>0, <1>1, <1>2, <1>3, WithoutIsSuffix
<1>6. \A i \in 1 .. Len(ring) : ring[i].at \in Nat /\ ring[i].at < pushed
  <2>1. \A i \in 1 .. Len(ring) : ring[i] \in Chunk
    BY <1>0, ElementOfSeq
  <2> QED
    BY <1>1, <2>1 DEF Chunk, Ordered
<1>7. /\ total_bytes' = IF ring' = << >> THEN 0 ELSE pushed' - ring'[1].at
      /\ total_bytes' \in Nat /\ total_bytes' <= total_bytes
  <2>1. total_bytes = IF ring = << >> THEN 0 ELSE pushed - ring[1].at
    BY DEF IInv, RingIsSuffixOfStream
  <2>2. CASE k = 0
    <3>1. total_bytes' = total_bytes
      BY <1>0, <1>3, <2>2 DEF BytesOfOldest
    <3>2. ring' # << >> => ring'[1] = ring[1]
      BY <1>0, <1>4, <2>2
    <3> QED
      BY <1>0, <1>2, <1>4, <2>1, <2>2, <3>1, <3>2
  <2>3. CASE k > 0 /\ k < Len(ring)
    <3>1. BytesOfOldest(ring, k, pushed) = ring[k + 1].at - ring[1].at
      BY <2>3 DEF BytesOfOldest
    <3>2. ring'[1] = ring[1 + k] /\ 1 + k = k + 1 /\ ring' # << >> /\ ring # << >>
      BY <1>0, <1>4, <2>3
    <3>3. /\ ring[1].at \in Nat /\ ring[k + 1].at \in Nat
          /\ ring[k + 1].at < pushed /\ ring[1].at <= ring[k + 1].at
      BY <1>0, <1>1, <1>6, <2>3 DEF Ordered
    <3>4. total_bytes' = pushed - ring[k + 1].at /\ total_bytes = pushed - ring[1].at
      BY SMTT(20), <1>0, <1>3, <2>1, <3>1, <3>2, <3>3
    <3>5. ring'[1].at = ring[k + 1].at
      BY <3>2
    <3> QED
      BY SMTT(20), <1>0, <1>2, <3>2, <3>3, <3>4, <3>5
  <2>4. CASE k > 0 /\ k = Len(ring)
    <3>1. BytesOfOldest(ring, k, pushed) = pushed - ring[1].at
      BY <1>0, <2>4 DEF BytesOfOldest
    <3>2. ring' = << >> /\ ring # << >> /\ ring[1].at \in Nat
      BY <1>0, <1>4, <1>6, <2>4
    <3> QED
      BY <1>0, <1>2, <1>3, <2>1, <3>1, <3>2
  <2> QED
    BY <1>0, <1>3, <2>2, <2>3, <2>4
<1>8. TypeOK'
  BY <1>0, <1>2, <1>4, <1>7 DEF TypeOK
<1>9. RingIsSuffixOfStream'
  BY <1>5, <1>7 DEF RingIsSuffixOfStream
<1>10. CapRespected'
  <2>1. CASE total_bytes <= MaxBytes
    BY <1>0, <1>7, <2>1 DEF CapRespected
  <2>2. CASE Len(ring) = 1 /\ k = 0
    BY <1>4, <2>2 DEF CapRespected
  <2>3. CASE Len(ring) = 1 /\ k = 1
    BY <1>0, <1>4, <1>7, <2>3 DEF CapRespected
  <2> QED
    BY <1>0, <1>3, <2>1, <2>2, <2>3 DEF IInv, CapRespected
<1>11. Len(ring') <= next_seq' /\ acked' <= next_seq'
  BY <1>0, <1>2, <1>3, <1>4 DEF IInv
<1>12. NoSilentLoss'
  <2>1. Front = next_seq - Len(ring)
    BY <1>0, <1>1, FrontIsDifference DEF Front
  <2>2. Front' = next_seq' - Len(ring')
    BY <1>0, <1>2, <1>4, <1>5, FrontIsDifference DEF Front
  <2>3. Front' = Front + k
    BY <1>0, <1>2, <1>3, <1>4, <2>1, <2>2
  <2>4. CASE k = 0
    BY <1>0, <1>2, <2>1, <2>3, <2>4 DEF IInv, NoSilentLoss
  <2>5. CASE k > 0
    <3>1. ring[k].seq < n /\ ring[k].seq = next_seq - Len(ring) + (k - 1)
      BY <1>0, <1>1, <1>3, <2>5, SMTT(40) DEF IsSuffix
    <3> QED
      BY <1>0, <1>2, <1>3, <2>1, <2>3, <2>5, <3>1 DEF NoSilentLoss
  <2> QED
    BY <1>3, <2>4, <2>5
<1>13. ring' = << >> => acked' = next_seq'
  <2> SUFFICES ASSUME ring' = << >> PROVE acked' = next_seq'
    OBVIOUS
  <2>1. CASE k = 0
    BY <1>0, <1>2, <1>4, <2>1 DEF IInv
  <2>2. CASE k > 0
    <3>1. ring[k].seq < n /\ ring[k].seq = next_seq - 1
      BY <1>0, <1>1, <1>3, <1>4, <2>2 DEF IsSuffix
    <3> QED
      BY <1>0, <1>2, <3>1 DEF IInv
  <2> QED
    BY <1>3, <2>1, <2>2
<1> QED
  BY <1>5, <1>8, <1>9, <1>10, <1>11, <1>12, <1>13 DEF IInv

(* Every step of the buffer keeps the invariant.                           *)
LEMMA NextIInv == IInv /\ [Next]_vars => IInv'
<1> SUFFICES ASSUME IInv, [Next]_vars PROVE IInv'
  OBVIOUS
<1>1. ASSUME NEW size \in ChunkSizes, Push(size) PROVE IInv'
  BY <1>1, PushIInv
<1>2. ASSUME NEW n \in 0 .. next_seq, TrimAcked(n) PROVE IInv'
  BY <1>2, TrimAckedIInv
<1>3. CASE UNCHANGED vars
  BY <1>3 DEF vars, IInv, TypeOK, RingIsSuffixOfStream, CapRespected, NoSilentLoss, Front
<1> QED
  BY <1>1, <1>2, <1>3 DEF Next

(* IInv holds in every reachable state of the buffer.                      *)
THEOREM Invariance == Spec => []IInv
<1>1. Init => IInv
  BY InitIInv
<1>2. IInv /\ [Next]_vars => IInv'
  BY NextIInv
<1> QED
  BY <1>1, <1>2, PTL DEF Spec

(* The buffer's fields keep their types; in particular the unsigned byte   *)
(* counter never goes below zero in push or trim_acked.                    *)
THEOREM TypeCorrect == Spec => []TypeOK
<1>1. IInv => TypeOK
  BY DEF IInv
<1> QED
  BY <1>1, Invariance, PTL

(* The ring is always a gap-free suffix of the output stream.              *)
THEOREM RingCorrect == Spec => []RingIsSuffixOfStream
<1>1. IInv => RingIsSuffixOfStream
  BY DEF IInv
<1> QED
  BY <1>1, Invariance, PTL

(* The ring exceeds its cap only while it holds nothing but the newest     *)
(* chunk.                                                                  *)
THEOREM CapCorrect == Spec => []CapRespected
<1>1. IInv => CapRespected
  BY DEF IInv
<1> QED
  BY <1>1, Invariance, PTL

(* In every state of the invariant a replay is complete from the number it *)
(* announces, and announces a later number than asked only after the cap   *)
(* dropped output.                                                         *)
LEMMA IInvReplayExact == IInv => ReplayExact
<1> SUFFICES ASSUME IInv, NEW want \in acked .. next_seq
             PROVE  LET R == ReplayFrom(want)
                    IN  /\ R.chunks = R.from .. next_seq - 1
                        /\ IF R.truncated THEN truncated /\ R.from > want
                                          ELSE R.from = want
  BY DEF ReplayExact
<1>0. /\ ring \in Seq(Chunk) /\ next_seq \in Nat /\ acked \in Nat
      /\ Len(ring) \in Nat /\ (ring = << >> <=> Len(ring) = 0)
      /\ want \in Nat /\ acked <= want /\ want <= next_seq
      /\ Len(ring) <= next_seq
  BY EmptySeq, LenProperties DEF IInv, TypeOK
<1>1. \A i \in 1 .. Len(ring) : ring[i].seq = next_seq - Len(ring) + (i - 1)
  BY DEF IInv, RingIsSuffixOfStream, IsSuffix
<1>2. Front = next_seq - Len(ring)
  BY <1>0, FrontIsDifference DEF IInv, TypeOK, RingIsSuffixOfStream, Front
<1>3. truncated \/ Front <= acked
  BY DEF IInv, NoSilentLoss
<1>4. CASE ring = << >>
  BY <1>0, <1>4 DEF IInv, ReplayFrom
<1>5. CASE ring # << >> /\ ring[1].seq > want
  <2>1. ring[1].seq = next_seq - Len(ring) /\ truncated
    BY <1>0, <1>2, <1>3, <1>5 DEF Front
  <2>2. {ring[i].seq : i \in {j \in 1 .. Len(ring) : ring[j].seq >= want}}
          = ring[1].seq .. next_seq - 1
    <3>1. ASSUME NEW q \in ring[1].seq .. next_seq - 1
          PROVE  \E i \in 1 .. Len(ring) : ring[i].seq >= want /\ q = ring[i].seq
      <4>1. q - ring[1].seq + 1 \in 1 .. Len(ring)
        BY <1>0, <2>1
      <4>2. ring[q - ring[1].seq + 1].seq = q /\ q >= want
        BY <1>0, <1>1, <1>5, <2>1, <4>1
      <4> QED
        BY <4>1, <4>2
    <3>2. \A i \in 1 .. Len(ring) : ring[i].seq \in ring[1].seq .. next_seq - 1
      BY <1>0, <1>1, <2>1
    <3> QED
      BY <3>1, <3>2
  <2> QED
    BY <1>5, <2>1, <2>2 DEF ReplayFrom
<1>6. CASE ring # << >> /\ ~(ring[1].seq > want)
  <2>1. ring[1].seq = next_seq - Len(ring) /\ ring[1].seq <= want
    BY <1>0, <1>2, <1>6 DEF Front
  <2>2. {ring[i].seq : i \in {j \in 1 .. Len(ring) : ring[j].seq >= want}}
          = want .. next_seq - 1
    <3>1. ASSUME NEW q \in want .. next_seq - 1
          PROVE  \E i \in 1 .. Len(ring) : ring[i].seq >= want /\ q = ring[i].seq
      <4>1. q - ring[1].seq + 1 \in 1 .. Len(ring)
        BY <1>0, <2>1
      <4>2. ring[q - ring[1].seq + 1].seq = q /\ q >= want
        BY <1>0, <1>1, <2>1, <4>1
      <4> QED
        BY <4>1, <4>2
    <3>2. \A i \in 1 .. Len(ring) :
            ring[i].seq >= want => ring[i].seq \in want .. next_seq - 1
      BY <1>0, <1>1
    <3> QED
      BY <3>1, <3>2
  <2> QED
    BY <1>6, <2>2 DEF ReplayFrom
<1> QED
  BY <1>4, <1>5, <1>6

(* A reconnecting client gets an exact replay or is told output was lost.  *)
THEOREM ReplayCorrect == Spec => []ReplayExact
BY Invariance, IInvReplayExact, PTL

(* A push is a Produce step of the window: it drops oldest chunks only,    *)
(* never the new one, and records it.                                      *)
LEMMA PushProduces ==
  ASSUME IInv, IInv', NEW size \in ChunkSizes, Push(size)
  PROVE  Window!Produce
<1> DEFINE r == Append(ring, [seq |-> next_seq, size |-> size, at |-> pushed])
<1>0. /\ ring \in Seq(Chunk) /\ next_seq \in Nat /\ pushed \in Nat
      /\ Len(ring) \in Nat /\ truncated \in BOOLEAN
  BY LenProperties DEF IInv, TypeOK
<1>1. r \in Seq(Chunk) /\ Len(r) = Len(ring) + 1
  BY <1>0, AppendIsSuffix DEF IInv, RingIsSuffixOfStream
<1>2. next_seq' = next_seq + 1 /\ acked' = acked
  BY DEF Push
<1>3. PICK k \in 0 .. Len(r) - 1 :
        ring' = Without(r, k) /\ truncated' = (truncated \/ k > 0)
  BY DEF Push
<1> HIDE DEF r
<1>4. Len(ring') = Len(r) - k
  <2>1. k \in 0 .. Len(r)
    BY <1>0, <1>1, <1>3
  <2> QED
    BY <1>1, <1>3, <2>1, WithoutProperties
<1>5. Front = next_seq - Len(ring)
  BY <1>0, FrontIsDifference DEF IInv, RingIsSuffixOfStream, Front
<1>6. Front' = next_seq' - Len(ring')
  <2>1. ring' \in Seq(Chunk) /\ next_seq' \in Nat /\ pushed' \in Nat
    BY DEF IInv, TypeOK
  <2> QED
    BY <2>1, FrontIsDifference DEF IInv, RingIsSuffixOfStream, Front
<1>7. Front' = Front + k /\ Front \in Int /\ Front + k <= next_seq
  BY <1>0, <1>1, <1>2, <1>3, <1>4, <1>5, <1>6
<1>8. Front' \in Front .. next_seq
  BY <1>0, <1>3, <1>7
<1>9. truncated' = (truncated \/ Front' # Front)
  <2>1. k > 0 <=> Front' # Front
    BY <1>0, <1>1, <1>3, <1>7
  <2> QED
    BY <1>0, <1>3, <2>1
<1> QED
  BY <1>2, <1>8, <1>9 DEF Window!Produce

(* trim_acked is an Acknowledge step of the window.                        *)
LEMMA TrimAckedAcknowledges ==
  ASSUME IInv, IInv', NEW n \in 0 .. next_seq, TrimAcked(n)
  PROVE  Window!Acknowledge(n)
<1>0. /\ ring \in Seq(Chunk) /\ next_seq \in Nat /\ pushed \in Nat
      /\ Len(ring) \in Nat /\ n \in Nat /\ n <= next_seq
  BY LenProperties DEF IInv, TypeOK
<1>1. /\ next_seq' = next_seq /\ truncated' = truncated
      /\ acked' = IF n > acked THEN n ELSE acked
  BY DEF TrimAcked
<1>2. PICK k \in 0 .. Len(ring) :
        /\ \A i \in 1 .. k : ring[i].seq < n
        /\ k < Len(ring) => ring[k + 1].seq >= n
        /\ ring' = Without(ring, k)
  BY DEF TrimAcked
<1>3. Len(ring') = Len(ring) - k
  BY <1>0, <1>2, WithoutProperties
<1>4. Front = next_seq - Len(ring)
  BY <1>0, FrontIsDifference DEF IInv, RingIsSuffixOfStream, Front
<1>5. Front' = next_seq' - Len(ring')
  <2>1. ring' \in Seq(Chunk) /\ next_seq' \in Nat /\ pushed' \in Nat
    BY DEF IInv, TypeOK
  <2> QED
    BY <2>1, FrontIsDifference DEF IInv, RingIsSuffixOfStream, Front
<1>6. Front' = Front + k /\ Front \in Int
  BY <1>0, <1>1, <1>2, <1>3, <1>4, <1>5
<1>7. \A i \in 1 .. Len(ring) : ring[i].seq = Front + (i - 1)
  BY <1>0, <1>4 DEF IInv, RingIsSuffixOfStream, IsSuffix
<1>8. Front' = IF n > Front THEN n ELSE Front
  <2>1. k > 0 => Front + (k - 1) < n
    BY <1>0, <1>2, <1>7
  <2>2. k < Len(ring) => Front + k >= n
    <3>1. k < Len(ring) => k + 1 \in 1 .. Len(ring)
      BY <1>0, <1>2
    <3> QED
      BY <1>2, <1>6, <1>7, <3>1
  <2>3. k = Len(ring) => Front + k = next_seq
    BY <1>0, <1>4
  <2> QED
    BY <1>0, <1>2, <1>6, <2>1, <2>2, <2>3
<1> QED
  BY <1>1, <1>8 DEF Window!Acknowledge

(* SequencedOutputBuffer implements the abstract replay window.            *)
THEOREM RefinesWindow == Spec => ImplementsWindow
<1>1. Init => Window!Init
  BY DEF Init, Window!Init, Front
<1>2. IInv /\ IInv' /\ [Next]_vars => [Window!Next]_(Window!vars)
  <2> SUFFICES ASSUME IInv, IInv', [Next]_vars PROVE [Window!Next]_(Window!vars)
    OBVIOUS
  <2>1. ASSUME NEW size \in ChunkSizes, Push(size) PROVE Window!Next
    BY <2>1, PushProduces DEF Window!Next
  <2>2. ASSUME NEW n \in 0 .. next_seq, TrimAcked(n) PROVE Window!Next
    BY <2>2, TrimAckedAcknowledges DEF Window!Next
  <2>3. CASE UNCHANGED vars
    BY <2>3 DEF vars, Window!vars, Front
  <2> QED
    BY <2>1, <2>2, <2>3 DEF Next
<1> QED
  BY <1>1, <1>2, Invariance, PTL DEF Spec, ImplementsWindow, Window!Spec
-----------------------------------------------------------------------------
(* The out-of-band controls: the scanner.                                  *)

Scans == [in_osc : BOOLEAN, count : 0 .. OSC_ACCUMULATION_MAX, esc : BOOLEAN]
ScanStates(n) == [scan : Scans, skip : BOOLEAN, fed : 0 .. n, cut : BOOLEAN]

\* After i bytes of d: nothing is fed after a cut, which leaves the scanner off, and an
\* ESC is left over only by the last byte.
ScanIs(a, d, i) ==
  /\ IF a.cut THEN a.scan = Osc!Off /\ a.fed < i ELSE a.fed = i
  /\ a.scan.esc => i > 0 /\ i = Len(d) /\ d[i] = "ESC" /\ ~a.cut

\* Payload only: every byte counts, starting from c.
Plain(d, i) == \A j \in 1 .. i : d[j] \notin {"ESC", "BEL"}
CountsOn(a, d, i, c) ==
  Plain(d, i) /\ ~a.cut => a.scan.in_osc /\ a.scan.count = c + i /\ ~a.skip

(* The scanner's resting states.                                           *)
LEMMA OnOff ==
  /\ Osc!Off \in Scans /\ Osc!On \in Scans /\ OSC_ACCUMULATION_MAX \in Nat
  /\ ~Osc!Off.esc /\ ~Osc!On.esc /\ ~Osc!Off.in_osc /\ Osc!On.in_osc
<1>1. OSC_ACCUMULATION_MAX \in Nat
  BY ControlAssumption DEF Osc!OscAssumption
<1>2. Osc!Off \in Scans /\ Osc!Off.esc = FALSE /\ Osc!Off.in_osc = FALSE /\ Osc!Off.count = 0
  BY <1>1 DEF Osc!Off, Scans
<1>3. Osc!On \in Scans /\ Osc!On.esc = FALSE /\ Osc!On.in_osc = TRUE
  BY <1>1 DEF Osc!On, Scans
<1> QED
  BY <1>1, <1>2, <1>3

(* A byte is counted only while there is room for it.                      *)
LEMMA CountedIs ==
  ASSUME NEW s \in Scans, s.count # OSC_ACCUMULATION_MAX
  PROVE  /\ Osc!Counted(s) \in Scans /\ Osc!Counted(s).count = s.count + 1
         /\ Osc!Counted(s).esc = s.esc /\ Osc!Counted(s).in_osc = s.in_osc
BY OnOff DEF Osc!Counted, Scans

(* One byte of the scan gives a state of the scan.                         *)
LEMMA ScanByteType ==
  ASSUME NEW d \in Seq(STRING), NEW i \in 1 .. Len(d), NEW a \in ScanStates(Len(d))
  PROVE  Osc!ScanByte(a, d, i) \in ScanStates(Len(d))
<1> DEFINE s == a.scan
           next == IF i < Len(d) THEN d[i + 1] ELSE NoControl
           a2 == Osc!ScanByte(a, d, i)
           To(x, k) == [scan |-> x, skip |-> k, fed |-> i, cut |-> FALSE]
           M == OSC_ACCUMULATION_MAX
<1>1. /\ s \in Scans /\ a.skip \in BOOLEAN /\ a.cut \in BOOLEAN
      /\ s.in_osc \in BOOLEAN /\ s.count \in 0 .. M
  BY DEF ScanStates, Scans
<1>2. ASSUME NEW x \in Scans, NEW k \in BOOLEAN PROVE To(x, k) \in ScanStates(Len(d))
  BY DEF ScanStates
<1>3. CASE a.cut
  BY <1>3 DEF Osc!ScanByte
<1>4. CASE ~a.cut /\ a.skip
  <2>1. a2 = To(s, FALSE)
    BY <1>4 DEF Osc!ScanByte
  <2> QED
    BY <1>1, <1>2, <2>1
<1>5. CASE ~a.cut /\ ~a.skip /\ ~s.in_osc
  <2>1. PICK x \in {Osc!On, s}, k \in BOOLEAN : a2 = To(x, k)
    BY <1>5 DEF Osc!ScanByte
  <2> HIDE DEF To
  <2> QED
    BY <1>1, <1>2, <2>1, OnOff
<1>6. CASE ~a.cut /\ ~a.skip /\ s.in_osc
  <2>1. \/ a2 = [a EXCEPT !.scan = Osc!Off, !.cut = TRUE]
        \/ s.count # M /\ a2 = To(Osc!Counted(s), FALSE)
        \/ a2 = To([s EXCEPT !.esc = TRUE], FALSE)
        \/ \E k \in BOOLEAN : a2 = To(Osc!Off, k)
    BY <1>6 DEF Osc!ScanByte
  <2>2. [a EXCEPT !.scan = Osc!Off, !.cut = TRUE] \in ScanStates(Len(d))
    BY OnOff DEF ScanStates
  <2>3. s.count # M => Osc!Counted(s) \in Scans
    BY <1>1, CountedIs
  <2>4. [s EXCEPT !.esc = TRUE] \in Scans
    BY <1>1 DEF Scans
  <2>5. s.count # M => To(Osc!Counted(s), FALSE) \in ScanStates(Len(d))
    BY <1>2, <2>3
  <2>6. To([s EXCEPT !.esc = TRUE], FALSE) \in ScanStates(Len(d))
    BY <1>2, <2>4
  <2>7. \A k \in BOOLEAN : To(Osc!Off, k) \in ScanStates(Len(d))
    BY <1>2, OnOff
  <2> HIDE DEF a2, To
  <2>8. a2 \in ScanStates(Len(d))
    BY <2>1, <2>2, <2>5, <2>6, <2>7, Zenon
  <2> QED
    BY <2>8 DEF a2
<1> QED
  BY <1>1, <1>3, <1>4, <1>5, <1>6

(* One byte of the scan.                                                   *)
LEMMA ScanByteIs ==
  ASSUME NEW d \in Seq(STRING), NEW i \in 1 .. Len(d), NEW a \in ScanStates(Len(d)),
         ScanIs(a, d, i - 1)
  PROVE  LET a2 == Osc!ScanByte(a, d, i)
         IN  /\ a2 \in ScanStates(Len(d)) /\ ScanIs(a2, d, i)
             /\ \A c \in Nat : CountsOn(a, d, i - 1, c) => CountsOn(a2, d, i, c)
<1> DEFINE s == a.scan
           next == IF i < Len(d) THEN d[i + 1] ELSE NoControl
           a2 == Osc!ScanByte(a, d, i)
           To(x, k) == [scan |-> x, skip |-> k, fed |-> i, cut |-> FALSE]
           M == OSC_ACCUMULATION_MAX
<1> SUFFICES /\ a2 \in ScanStates(Len(d)) /\ ScanIs(a2, d, i)
             /\ \A c \in Nat : CountsOn(a, d, i - 1, c) => CountsOn(a2, d, i, c)
  OBVIOUS
<1>1. /\ s \in Scans /\ a.skip \in BOOLEAN /\ a.cut \in BOOLEAN /\ a.fed \in 0 .. Len(d)
      /\ s.in_osc \in BOOLEAN /\ s.esc \in BOOLEAN /\ s.count \in 0 .. M
      /\ a = [scan |-> s, skip |-> a.skip, fed |-> a.fed, cut |-> a.cut]
  BY DEF ScanStates, Scans
<1>2. i \in 0 .. Len(d) /\ i \in Nat /\ Len(d) \in Nat /\ i - 1 \in Nat /\ i - 1 # Len(d)
  OBVIOUS
<1>3. ~s.esc
  BY <1>1, <1>2 DEF ScanIs
<1>4. d[i] \in STRING /\ (i < Len(d) => next \in STRING /\ next # NoControl)
  BY ControlAssumption DEF Osc!OscAssumption
<1>5. ASSUME NEW x \in Scans, NEW k \in BOOLEAN, a2 = To(x, k), ~a.cut,
             x.esc => i = Len(d) /\ d[i] = "ESC",
             d[i] \notin {"ESC", "BEL"} /\ s.in_osc /\ ~a.skip
               => x.in_osc /\ x.count = s.count + 1 /\ ~k
      PROVE  /\ a2 \in ScanStates(Len(d)) /\ ScanIs(a2, d, i)
             /\ \A c \in Nat : CountsOn(a, d, i - 1, c) => CountsOn(a2, d, i, c)
  <2>1. a2 \in ScanStates(Len(d)) /\ a2.scan = x /\ a2.skip = k /\ a2.fed = i /\ a2.cut = FALSE
    BY <1>2, <1>5 DEF ScanStates
  <2> HIDE DEF a2
  <2>2. ScanIs(a2, d, i)
    BY <1>2, <1>5, <2>1 DEF ScanIs
  <2>3. ASSUME NEW c \in Nat, CountsOn(a, d, i - 1, c), Plain(d, i)
        PROVE  a2.scan.in_osc /\ a2.scan.count = c + i /\ ~a2.skip
    <3>1. Plain(d, i - 1) /\ d[i] \notin {"ESC", "BEL"}
      BY <1>2, <2>3 DEF Plain
    <3>3. s.in_osc /\ s.count = c + (i - 1) /\ ~a.skip
      BY <1>5, <2>3, <3>1 DEF CountsOn
    <3>4. x.in_osc /\ x.count = s.count + 1 /\ ~k
      BY <1>5, <3>1, <3>3
    <3> QED
      BY <1>2, <2>1, <3>3, <3>4
  <2> QED
    BY <2>1, <2>2, <2>3 DEF CountsOn
<1>6. CASE a.cut
  <2>1. a2 = a
    BY <1>6 DEF Osc!ScanByte
  <2>2. ScanIs(a, d, i)
    BY <1>1, <1>2, <1>3, <1>6 DEF ScanIs
  <2>3. \A c \in Nat : CountsOn(a, d, i, c)
    BY <1>6 DEF CountsOn
  <2> QED
    BY <2>1, <2>2, <2>3
<1>7. CASE ~a.cut /\ a.skip
  <2>1. a2 = To(s, FALSE)
    BY <1>7 DEF Osc!ScanByte
  <2> QED
    BY <1>1, <1>3, <1>5, <1>7, <2>1
<1>8. CASE ~a.cut /\ ~a.skip /\ ~s.in_osc
  <2>1. a2 = IF d[i] = "9D" THEN To(Osc!On, FALSE)
             ELSE IF d[i] = "ESC" /\ next = "]" THEN To(Osc!On, TRUE) ELSE To(s, FALSE)
    BY <1>8 DEF Osc!ScanByte
  <2>2. PICK x \in {Osc!On, s}, k \in BOOLEAN : a2 = To(x, k)
    BY <2>1
  <2>3. x \in Scans /\ ~x.esc
    BY <1>1, <1>3, <2>2, OnOff
  <2> HIDE DEF a2
  <2> QED
    BY <1>5, <1>8, <2>2, <2>3
<1>9. CASE ~a.cut /\ ~a.skip /\ s.in_osc
  <2>1. a2 = IF d[i] = "BEL" THEN To(Osc!Off, FALSE)
             ELSE IF d[i] # "ESC" THEN
               IF s.count = M THEN [a EXCEPT !.scan = Osc!Off, !.cut = TRUE]
                              ELSE To(Osc!Counted(s), FALSE)
             ELSE IF next = NoControl THEN To([s EXCEPT !.esc = TRUE], FALSE)
             ELSE To(Osc!Off, next = "\\")
    BY <1>9 DEF Osc!ScanByte
  <2>2. CASE d[i] = "BEL"
    <3>1. a2 = To(Osc!Off, FALSE)
      BY <2>1, <2>2
    <3> HIDE DEF a2
    <3> QED
      BY <1>5, <1>9, <2>2, <3>1, OnOff
  <2>3. CASE d[i] \notin {"BEL", "ESC"} /\ s.count = M
    <3>1. a2 = [a EXCEPT !.scan = Osc!Off, !.cut = TRUE]
      BY <2>1, <2>3
    <3> HIDE DEF a2
    <3>2. a2.scan = Osc!Off /\ a2.cut = TRUE /\ a2.fed = a.fed /\ a2 \in ScanStates(Len(d))
      BY <1>1, <3>1, OnOff DEF ScanStates
    <3>3. a.fed = i - 1
      BY <1>9 DEF ScanIs
    <3>4. ScanIs(a2, d, i)
      BY <1>2, <3>2, <3>3, OnOff DEF ScanIs
    <3>5. \A c \in Nat : CountsOn(a2, d, i, c)
      BY <3>2 DEF CountsOn
    <3> QED
      BY <3>2, <3>4, <3>5
  <2>4. CASE d[i] \notin {"BEL", "ESC"} /\ s.count # M
    <3>1. a2 = To(Osc!Counted(s), FALSE)
      BY <2>1, <2>4
    <3> DEFINE x == Osc!Counted(s)
    <3>2. x \in Scans /\ x.count = s.count + 1 /\ x.esc = s.esc /\ x.in_osc = s.in_osc
      BY <1>1, <2>4, CountedIs
    <3> HIDE DEF a2, x
    <3>3. a2 = To(x, FALSE)
      BY <3>1 DEF x
    <3> QED
      BY <1>3, <1>5, <1>9, <3>2, <3>3
  <2>5. CASE d[i] = "ESC" /\ next = NoControl
    <3> DEFINE x == [s EXCEPT !.esc = TRUE]
    <3>1. a2 = To(x, FALSE)
      BY <2>1, <2>5
    <3>2. x \in Scans
      BY <1>1 DEF Scans
    <3>3. i = Len(d)
      BY <1>2, <1>4, <2>5
    <3> HIDE DEF a2, x
    <3> QED
      BY <1>5, <1>9, <2>5, <3>1, <3>2, <3>3
  <2>6. CASE d[i] = "ESC" /\ next # NoControl
    <3>1. PICK k \in BOOLEAN : a2 = To(Osc!Off, k)
      BY <2>1, <2>6
    <3> HIDE DEF a2
    <3> QED
      BY <1>5, <1>9, <2>6, <3>1, OnOff
  <2> QED
    BY <2>2, <2>3, <2>4, <2>5, <2>6
<1> QED
  BY <1>1, <1>6, <1>7, <1>8, <1>9

(* The scan of a read: what is not fed was cut, which leaves the scanner   *)
(* off; only a last ESC is left over; payload is counted to the byte.      *)
LEMMA ScanIsDone ==
  ASSUME NEW d \in Seq(STRING), NEW skip \in BOOLEAN, NEW s \in Scans, ~s.esc
  PROVE  LET a == Osc!Scan(d, skip, s)
         IN  /\ a \in ScanStates(Len(d)) /\ ScanIs(a, d, Len(d))
             /\ s.in_osc /\ ~skip => CountsOn(a, d, Len(d), s.count)
<1> DEFINE n == Len(d)
           X == ScanStates(n)
           b == [scan |-> s, skip |-> skip, fed |-> 0, cut |-> FALSE]
           scan[i \in 0 .. n] == IF i = 0 THEN b ELSE Osc!ScanByte(scan[i - 1], d, i)
           g == [p \in X \X (1 .. n) |-> Osc!ScanByte(p[1], d, p[2])]
<1>1. n \in Nat /\ b \in X
  BY DEF ScanStates
<1>1a. ScanIs(b, d, 0) /\ (s.in_osc /\ ~skip => CountsOn(b, d, 0, s.count)) /\ s.count \in Nat
  BY OnOff DEF ScanIs, CountsOn, Scans
<1>2. ASSUME NEW x \in X, NEW i \in 1 .. n
      PROVE  Osc!ScanByte(x, d, i) \in X
  BY ScanByteType
<1> HIDE DEF X, b, n
<1>3. IsStep(g, X, n)
  BY <1>2 DEF IsStep
<1>4. PICK f : IsRun(f, n, X, b, g)
  <2> HIDE DEF g
  <2> QED
    BY <1>1, <1>3, LoopExists
<1>5. f = [i \in 0 .. n |-> IF i = 0 THEN b ELSE Osc!ScanByte(f[i - 1], d, i)]
  <2>1. ASSUME NEW i \in 1 .. n
        PROVE  f[i] = Osc!ScanByte(f[i - 1], d, i)
    <3>1. f[i - 1] \in X /\ f[i] = g[<<f[i - 1], i>>]
      <4> HIDE DEF g
      <4>1. i - 1 \in 0 .. n
        BY <1>1
      <4> QED
        BY <1>4, <4>1 DEF IsRun
    <3> QED
      BY <3>1
  <2> HIDE DEF g
  <2> QED
    BY <1>1, <1>4, <2>1 DEF IsRun
<1>6. scan = [i \in 0 .. n |-> IF i = 0 THEN b ELSE Osc!ScanByte(scan[i - 1], d, i)]
  BY <1>5, Zenon
<1>7. /\ scan[n] \in X /\ ScanIs(scan[n], d, n)
      /\ s.in_osc /\ ~skip => CountsOn(scan[n], d, n, s.count)
  <2> HIDE DEF scan
  <2> DEFINE P(i) == s.in_osc /\ ~skip => CountsOn(scan[i], d, i, s.count)
             S == {i \in 0 .. n : scan[i] \in X /\ ScanIs(scan[i], d, i) /\ P(i)}
  <2>1. 0 \in S
    <3>1. scan[0] = b /\ 0 \in 0 .. n
      BY <1>1, <1>6
    <3> QED
      BY <1>1, <1>1a, <3>1
  <2>2. ASSUME NEW i \in 1 .. n, i - 1 \in S PROVE i \in S
    <3>1. scan[i - 1] \in X /\ ScanIs(scan[i - 1], d, i - 1) /\ P(i - 1) /\ i \in 0 .. n
      BY <1>1, <2>2
    <3>2. scan[i] = Osc!ScanByte(scan[i - 1], d, i)
      BY <1>1, <1>6, <3>1
    <3>3. /\ scan[i] \in X /\ ScanIs(scan[i], d, i)
          /\ \A c \in Nat : CountsOn(scan[i - 1], d, i - 1, c) => CountsOn(scan[i], d, i, c)
      BY <3>1, <3>2, ScanByteIs DEF X, n
    <3>4. P(i)
      BY <1>1a, <3>1, <3>3
    <3> HIDE DEF P
    <3> QED
      BY <3>1, <3>3, <3>4
  <2>3. \A i \in 0 .. n : i \in S
    <3> HIDE DEF S
    <3> QED
      BY <1>1, <2>1, <2>2, UpTo
  <2> QED
    BY <1>1, <2>3
<1>8. Osc!Scan(d, skip, s) = scan[n]
  BY DEF Osc!Scan, n, b
<1> HIDE DEF scan
<1> QED
  BY <1>7, <1>8 DEF X, n

(* osc_prefilter, the ESC left over from the last read included: what is   *)
(* not fed was cut, and the payload of a sequence that is being counted is *)
(* counted on.                                                             *)
LEMMA PrefilterIs ==
  ASSUME NEW d \in Seq(STRING), d # <<>>, in_osc \in BOOLEAN, pending_esc \in BOOLEAN,
         osc_byte_count \in 0 .. OSC_ACCUMULATION_MAX
  PROVE  LET p == Osc!osc_prefilter(d)
             n == Len(d)
         IN  /\ p.scan \in Scans /\ p.fed \in 0 .. n
             /\ p.fed < n => p.scan = Osc!Off
             /\ p.scan.esc => p.fed = n /\ d[n] = "ESC"
             /\ in_osc /\ ~pending_esc /\ Plain(d, n) /\ p.fed = n
                  => p.scan.in_osc /\ p.scan.count = osc_byte_count + n
<1> DEFINE s == [in_osc |-> in_osc, count |-> osc_byte_count, esc |-> FALSE]
           p == Osc!osc_prefilter(d)
           n == Len(d)
<1>1. s \in Scans /\ s.in_osc = in_osc /\ s.count = osc_byte_count /\ s.esc = FALSE
  BY DEF Scans
<1>2. n \in Nat /\ n > 0
  OBVIOUS
<1>3. p = IF ~ (pending_esc /\ in_osc) THEN Osc!Scan(d, FALSE, s)
          ELSE IF d[1] = "\\" THEN Osc!Scan(d, TRUE, Osc!Off)
          ELSE IF s.count = OSC_ACCUMULATION_MAX THEN [scan |-> Osc!Off, fed |-> 0]
          ELSE Osc!Scan(d, FALSE, Osc!Counted(s))
  BY DEF Osc!osc_prefilter
<1> HIDE DEF s, p
<1>4. ASSUME NEW a \in ScanStates(n), ScanIs(a, d, n)
      PROVE  /\ a.scan \in Scans /\ a.fed \in 0 .. n /\ (a.fed < n => a.scan = Osc!Off)
             /\ (a.scan.esc => a.fed = n /\ d[n] = "ESC") /\ (a.fed = n => ~a.cut)
  <2>1. a.scan \in Scans /\ a.fed \in 0 .. n /\ a.cut \in BOOLEAN
    BY DEF ScanStates
  <2> QED
    BY <1>2, <1>4, <2>1 DEF ScanIs
<1> SUFFICES /\ p.scan \in Scans /\ p.fed \in 0 .. n
             /\ p.fed < n => p.scan = Osc!Off
             /\ p.scan.esc => p.fed = n /\ d[n] = "ESC"
             /\ in_osc /\ ~pending_esc /\ Plain(d, n) /\ p.fed = n
                  => p.scan.in_osc /\ p.scan.count = osc_byte_count + n
  BY DEF p
<1>5. CASE ~ (pending_esc /\ in_osc)
  <2>1. p = Osc!Scan(d, FALSE, s)
    BY <1>3, <1>5
  <2>2. /\ p \in ScanStates(n) /\ ScanIs(p, d, n)
        /\ s.in_osc => CountsOn(p, d, n, s.count)
    BY <1>1, <2>1, ScanIsDone
  <2> QED
    BY <1>1, <1>4, <2>2 DEF CountsOn
<1>6. CASE pending_esc /\ in_osc /\ d[1] = "\\"
  <2>1. p = Osc!Scan(d, TRUE, Osc!Off)
    BY <1>3, <1>6
  <2>2. p \in ScanStates(n) /\ ScanIs(p, d, n)
    BY <2>1, OnOff, ScanIsDone
  <2> QED
    BY <1>4, <1>6, <2>2
<1>7. CASE pending_esc /\ in_osc /\ d[1] # "\\" /\ s.count = OSC_ACCUMULATION_MAX
  <2>1. p = [scan |-> Osc!Off, fed |-> 0]
    BY <1>3, <1>7
  <2> QED
    BY <1>2, <1>7, <2>1, OnOff
<1>8. CASE pending_esc /\ in_osc /\ d[1] # "\\" /\ s.count # OSC_ACCUMULATION_MAX
  <2>1. p = Osc!Scan(d, FALSE, Osc!Counted(s))
    BY <1>3, <1>8
  <2>2. Osc!Counted(s) \in Scans /\ ~Osc!Counted(s).esc
    BY <1>1, <1>8, CountedIs
  <2>3. p \in ScanStates(n) /\ ScanIs(p, d, n)
    BY <2>1, <2>2, ScanIsDone
  <2> QED
    BY <1>4, <1>8, <2>3
<1> QED
  BY <1>5, <1>6, <1>7, <1>8

-----------------------------------------------------------------------------
(* The out-of-band controls: the parser.                                   *)

OscValues == (Titles \cup Clips \cup Links) \X BOOLEAN
Boxes == [Osc!Kinds -> OscValues \cup {NoControl}]
Vtes == [at : {"ground", "escape", "osc"}, first : STRING \cup {NoControl}, raw : Nat,
         began : BOOLEAN]
Parts == [vte : Vtes, scan : Scans, pend : Boxes, due : Boxes, lost : SUBSET Osc!Kinds]

\* What a byte may do to the control of kind k: nothing, set it, or forget what was not sent.
Moves(t, t2, k) ==
  \/ t2.pend[k] = t.pend[k] /\ t2.due[k] = t.due[k] /\ (k \in t2.lost <=> k \in t.lost)
  \/ t2.pend[k] # NoControl /\ t2.pend[k] = t2.due[k]
  \/ /\ t2.pend[k] = NoControl /\ t2.due[k] = t.due[k]
     /\ t.pend[k] # NoControl \/ k \in t.lost => k \in t2.lost

\* The parser is in a sequence it did not begin with this byte, and adds the byte to it.
Adds(t, t2, c) ==
  t2.vte.at = "osc" /\ ~t2.vte.began =>
    /\ t.vte.at = "osc" /\ ~t.vte.began /\ c \notin {"ESC", "BEL"}
    /\ t2.vte.raw = t.vte.raw + 1 /\ t2.scan = t.scan

(* The fields of the parser's state.                                       *)
LEMMA PartsAre ==
  ASSUME NEW t \in Parts
  PROVE  /\ t.vte \in Vtes /\ t.scan \in Scans /\ t.pend \in Boxes /\ t.due \in Boxes
         /\ t.lost \in SUBSET Osc!Kinds
         /\ t.vte.at \in {"ground", "escape", "osc"} /\ t.vte.raw \in Nat
         /\ t.vte.began \in BOOLEAN /\ t.vte.first \in STRING \cup {NoControl}
         /\ t = [vte |-> t.vte, scan |-> t.scan, pend |-> t.pend, due |-> t.due, lost |-> t.lost]
BY DEF Parts, Vtes

(* The parser's ground state, and the states in which it has just seen the *)
(* start of an escape sequence or of an OSC.                               *)
LEMMA GroundIs ==
  /\ Osc!Ground \in Vtes /\ Osc!Ground.at = "ground"
  /\ [Osc!Ground EXCEPT !.at = "escape"] \in Vtes
  /\ [Osc!Ground EXCEPT !.at = "escape"].at = "escape"
  /\ [Osc!Ground EXCEPT !.at = "osc", !.began = TRUE] \in Vtes
  /\ [Osc!Ground EXCEPT !.at = "osc", !.began = TRUE].began
BY DEF Osc!Ground, Vtes

(* osc_dispatch sets at most one control, to what the sequence says.       *)
LEMMA DispatchIs ==
  ASSUME NEW t \in Parts
  PROVE  LET t2 == Osc!osc_dispatch(t)
         IN  /\ t2 \in Parts /\ t2.scan = t.scan /\ t2.vte = t.vte
             /\ \A k \in Osc!Kinds : Moves(t, t2, k)
<1> DEFINE t2 == Osc!osc_dispatch(t)
           k == Osc!KindOf(t.vte.first)
           first == t.vte.first
<1>1. PICK long \in BOOLEAN : long = (k = "clip" /\ t.vte.raw > OSC_52_MAX_BYTES)
  OBVIOUS
<1> DEFINE v == <<first, long>>
<1>2. t2 = IF k = NoControl \/ (k = "title" /\ t.vte.raw > MAX_TITLE_BYTES) THEN t
           ELSE [t EXCEPT !.pend[k] = v, !.due[k] = v, !.lost = t.lost \ {k}]
  BY <1>1 DEF Osc!osc_dispatch
<1> SUFFICES /\ t2 \in Parts /\ t2.scan = t.scan /\ t2.vte = t.vte
             /\ \A x \in Osc!Kinds : Moves(t, t2, x)
  OBVIOUS
<1>3. k # NoControl => k \in Osc!Kinds /\ v \in OscValues
  BY DEF Osc!KindOf, Osc!Kinds, OscValues
<1>4. NoControl \notin OscValues
  BY ControlAssumption DEF Osc!OscAssumption, OscValues
<1> HIDE DEF t2, k, v
<1>5. CASE t2 = t
  BY <1>5 DEF Moves
<1>6. CASE k # NoControl /\ t2 = [t EXCEPT !.pend[k] = v, !.due[k] = v, !.lost = t.lost \ {k}]
  <2>1. /\ t.pend \in Boxes /\ t.due \in Boxes /\ t.lost \in SUBSET Osc!Kinds
        /\ k \in Osc!Kinds /\ v \in OscValues
    BY <1>3, <1>6, PartsAre
  <2>2. t2 = [t EXCEPT !.pend = [t.pend EXCEPT ![k] = v], !.due = [t.due EXCEPT ![k] = v],
                       !.lost = t.lost \ {k}]
    BY <1>6
  <2> DEFINE p == [t.pend EXCEPT ![k] = v]
             u == [t.due EXCEPT ![k] = v]
             l == t.lost \ {k}
  <2>3. p \in Boxes /\ u \in Boxes /\ l \in SUBSET Osc!Kinds
    BY <2>1 DEF Boxes
  <2>4. /\ p[k] = v /\ u[k] = v
        /\ \A x \in Osc!Kinds \ {k} : p[x] = t.pend[x] /\ u[x] = t.due[x] /\ (x \in l <=> x \in t.lost)
    BY <2>1 DEF Boxes
  <2> HIDE DEF p, u, l
  <2>5. t2 = [t EXCEPT !.pend = p, !.due = u, !.lost = l]
    BY <2>2 DEF p, u, l
  <2>6. /\ t2 \in Parts /\ t2.scan = t.scan /\ t2.vte = t.vte /\ t2.pend = p /\ t2.due = u
        /\ t2.lost = l
    BY <2>3, <2>5 DEF Parts
  <2>7. \A x \in Osc!Kinds : Moves(t, t2, x)
    BY <1>4, <2>1, <2>4, <2>6 DEF Moves
  <2> QED
    BY <2>6, <2>7
<1> QED
  BY <1>2, <1>5, <1>6

(* A full reset forgets the scanner and the controls not yet sent.         *)
LEMMA RisIs ==
  ASSUME NEW t \in Parts
  PROVE  LET t2 == Osc!Ris(t)
         IN  /\ t2 \in Parts /\ t2.scan = Osc!Off /\ t2.vte = t.vte
             /\ \A k \in Osc!Kinds : Moves(t, t2, k)
<1> DEFINE t2 == Osc!Ris(t)
           l == t.lost \cup {k \in Osc!Kinds : t.pend[k] # NoControl}
<1>1. t2 = [t EXCEPT !.scan = Osc!Off, !.pend = Osc!NoControls, !.lost = l]
  BY DEF Osc!Ris
<1>2. Osc!NoControls \in Boxes /\ \A k \in Osc!Kinds : Osc!NoControls[k] = NoControl
  BY DEF Osc!NoControls, Boxes
<1>3. l \in SUBSET Osc!Kinds /\ \A k \in Osc!Kinds : t.pend[k] # NoControl \/ k \in t.lost => k \in l
  BY PartsAre
<1> SUFFICES /\ t2 \in Parts /\ t2.scan = Osc!Off /\ t2.vte = t.vte
             /\ \A k \in Osc!Kinds : Moves(t, t2, k)
  OBVIOUS
<1> HIDE DEF t2, l
<1>4. /\ t2 \in Parts /\ t2.scan = Osc!Off /\ t2.vte = t.vte /\ t2.pend = Osc!NoControls
      /\ t2.due = t.due /\ t2.lost = l
  BY <1>1, <1>2, <1>3, OnOff DEF Parts
<1> QED
  BY <1>2, <1>3, <1>4 DEF Moves

(* One byte of the parser.                                                 *)
LEMMA VteStepIs ==
  ASSUME NEW t \in Parts, NEW c \in STRING
  PROVE  LET t2 == Osc!VteStep(t, c)
         IN  /\ t2 \in Parts /\ t2.scan \in {t.scan, Osc!Off} /\ Adds(t, t2, c)
             /\ c = "ESC" => t2.vte.at # "osc"
             /\ \A k \in Osc!Kinds : Moves(t, t2, k)
<1> DEFINE t2 == Osc!VteStep(t, c)
<1> SUFFICES /\ t2 \in Parts /\ t2.scan \in {t.scan, Osc!Off} /\ Adds(t, t2, c)
             /\ c = "ESC" => t2.vte.at # "osc"
             /\ \A k \in Osc!Kinds : Moves(t, t2, k)
  OBVIOUS
<1>0. t.vte \in Vtes /\ t.vte.at \in {"ground", "escape", "osc"} /\ t.vte.raw \in Nat
      /\ t.vte.began \in BOOLEAN /\ t.vte.first \in STRING \cup {NoControl}
  BY PartsAre
\* A step that only moves the parser out of, or into, a sequence.
<1>1. ASSUME NEW u \in Parts, u.scan \in {t.scan, Osc!Off}, \A k \in Osc!Kinds : Moves(t, u, k),
             NEW w \in Vtes, t2 = [u EXCEPT !.vte = w], w.at = "osc" => w.began,
             c = "ESC" => w.at # "osc"
      PROVE  /\ t2 \in Parts /\ t2.scan \in {t.scan, Osc!Off} /\ Adds(t, t2, c)
             /\ c = "ESC" => t2.vte.at # "osc"
             /\ \A k \in Osc!Kinds : Moves(t, t2, k)
  <2> HIDE DEF t2
  <2>1. /\ t2 \in Parts /\ t2.scan = u.scan /\ t2.pend = u.pend /\ t2.due = u.due
        /\ t2.lost = u.lost /\ t2.vte = w
    BY <1>1 DEF Parts
  <2>2. \A k \in Osc!Kinds : Moves(t, t2, k)
    BY <1>1, <2>1 DEF Moves
  <2>3. Adds(t, t2, c)
    BY <1>1, <2>1 DEF Adds
  <2> QED
    BY <1>1, <2>1, <2>2, <2>3
<1>2. \A k \in Osc!Kinds : Moves(t, t, k)
  BY DEF Moves
<1>3. CASE t.vte.at \in {"ground", "escape"} /\ t2 = t
  BY <1>2, <1>3 DEF Adds
<1>4. CASE t.vte.at = "ground"
  <2>1. CASE c = "ESC"
    <3> DEFINE w == [t.vte EXCEPT !.at = "escape"]
    <3>1. t2 = [t EXCEPT !.vte = w]
      BY <1>4, <2>1 DEF Osc!VteStep
    <3>2. w \in Vtes /\ w.at = "escape"
      BY <1>0 DEF Vtes
    <3> HIDE DEF w, t2
    <3> QED
      BY <1>1, <1>2, <3>1, <3>2
  <2>2. CASE c # "ESC"
    <3>1. t2 = t
      BY <1>4, <2>2 DEF Osc!VteStep
    <3> QED
      BY <1>3, <1>4, <3>1
  <2> QED
    BY <2>1, <2>2
<1>5. CASE t.vte.at = "escape"
  <2>1. CASE c = "]"
    <3> DEFINE w == [Osc!Ground EXCEPT !.at = "osc", !.began = TRUE]
    <3>1. t2 = [t EXCEPT !.vte = w]
      BY <1>5, <2>1 DEF Osc!VteStep
    <3>2. w \in Vtes /\ w.began
      BY GroundIs
    <3> HIDE DEF w, t2
    <3> QED
      BY <1>1, <1>2, <2>1, <3>1, <3>2
  <2>2. CASE c = "c"
    <3> DEFINE u == Osc!Ris(t)
    <3>1. t2 = [u EXCEPT !.vte = Osc!Ground]
      BY <1>5, <2>2 DEF Osc!VteStep
    <3>2. u \in Parts /\ u.scan = Osc!Off /\ \A k \in Osc!Kinds : Moves(t, u, k)
      BY RisIs
    <3> HIDE DEF u, t2
    <3> QED
      BY <1>1, <2>2, <3>1, <3>2, GroundIs
  <2>3. CASE c \in {"ESC", "BEL", "9D"}
    <3>1. t2 = t
      BY <1>5, <2>3 DEF Osc!VteStep
    <3> QED
      BY <1>3, <1>5, <3>1
  <2>4. CASE c \notin {"]", "c", "ESC", "BEL", "9D"}
    <3>1. t2 = [t EXCEPT !.vte = Osc!Ground]
      BY <1>5, <2>4 DEF Osc!VteStep
    <3> HIDE DEF t2
    <3> QED
      BY <1>1, <1>2, <3>1, GroundIs
  <2> QED
    BY <2>1, <2>2, <2>3, <2>4
<1>6. CASE t.vte.at = "osc"
  <2> DEFINE u == Osc!osc_dispatch(t)
  <2>0. u \in Parts /\ u.scan = t.scan /\ \A k \in Osc!Kinds : Moves(t, u, k)
    BY DispatchIs
  <2>1. CASE c = "BEL"
    <3>1. t2 = [u EXCEPT !.vte = Osc!Ground]
      BY <1>6, <2>1 DEF Osc!VteStep
    <3> HIDE DEF u, t2
    <3> QED
      BY <1>1, <2>0, <3>1, GroundIs
  <2>2. CASE c = "ESC"
    <3> DEFINE w == [Osc!Ground EXCEPT !.at = "escape"]
    <3>1. t2 = [u EXCEPT !.vte = w]
      BY <1>6, <2>2 DEF Osc!VteStep
    <3>2. w \in Vtes /\ w.at = "escape"
      BY GroundIs
    <3> HIDE DEF u, w, t2
    <3> QED
      BY <1>1, <2>0, <3>1, <3>2
  <2>3. CASE c \notin {"BEL", "ESC"}
    <3> DEFINE w == [t.vte EXCEPT !.raw = t.vte.raw + 1,
                                  !.first = IF t.vte.raw = 0 THEN c ELSE t.vte.first]
    <3>1. t2 = [t EXCEPT !.vte = w]
      BY <1>6, <2>3 DEF Osc!VteStep
    <3>2. w \in Vtes /\ w.at = "osc" /\ w.raw = t.vte.raw + 1 /\ w.began = t.vte.began
      <4> DEFINE f == IF t.vte.raw = 0 THEN c ELSE t.vte.first
                 n == t.vte.raw + 1
                 x == t.vte
      <4>1. f \in STRING \cup {NoControl} /\ n \in Nat /\ x \in Vtes /\ x.at = "osc"
        BY <1>0, <1>6
      <4>2. w = [x EXCEPT !.raw = n, !.first = f]
        OBVIOUS
      <4> HIDE DEF f, n, x, w
      <4>3. w \in Vtes /\ w.at = "osc" /\ w.raw = n
        BY <4>1, <4>2 DEF Vtes
      <4>4. w.began = x.began
        BY <4>1, <4>2, Zenon DEF Vtes
      <4> QED
        BY <4>3, <4>4 DEF n, x
    <3> HIDE DEF w, t2
    <3>3. /\ t2 \in Parts /\ t2.scan = t.scan /\ t2.pend = t.pend /\ t2.due = t.due
          /\ t2.lost = t.lost /\ t2.vte = w
      BY <3>1, <3>2 DEF Parts
    <3>4. \A k \in Osc!Kinds : Moves(t, t2, k)
      BY <3>3 DEF Moves
    <3>5. Adds(t, t2, c)
      BY <1>6, <2>3, <3>2, <3>3 DEF Adds
    <3> QED
      BY <2>3, <3>3, <3>4, <3>5
  <2> QED
    BY <2>1, <2>2, <2>3
<1> QED
  BY <1>0, <1>4, <1>5, <1>6

\* What became, since the pend and due of t0, of the control of kind k.
Owed(t, t0, k) ==
  /\ (t0.pend[k] # NoControl => t0.pend[k] = t0.due[k])
       => (t.pend[k] # NoControl => t.pend[k] = t.due[k])
  /\ \/ t.pend[k] # NoControl \/ k \in t.lost
     \/ t0.pend[k] = NoControl /\ t.due[k] = t0.due[k] /\ k \notin t0.lost

\* The parser after the first i bytes of d, from t0.
FedIs(t, t0, d, i) ==
  /\ t.scan \in {t0.scan, Osc!Off}
  /\ i > 0 /\ d[i] = "ESC" => t.vte.at # "osc"
  /\ t.vte.at = "osc" /\ ~t.vte.began =>
       /\ t0.vte.at = "osc" /\ Plain(d, i)
       /\ t.vte.raw = t0.vte.raw + i /\ t.scan = t0.scan
  /\ \A k \in Osc!Kinds : Owed(t, t0, k)

(* A read, byte after byte.                                                *)
LEMMA FeedIs ==
  ASSUME NEW d \in Seq(STRING), NEW n \in 0 .. Len(d), NEW t0 \in Parts, ~t0.vte.began
  PROVE  Osc!Feed(t0, d, n) \in Parts /\ FedIs(Osc!Feed(t0, d, n), t0, d, n)
<1> DEFINE X == Parts
           b == t0
           fed[i \in 0 .. n] == IF i = 0 THEN b ELSE Osc!VteStep(fed[i - 1], d[i])
           g == [p \in X \X (1 .. n) |-> Osc!VteStep(p[1], d[p[2]])]
<1>1. n \in Nat /\ b \in X /\ n <= Len(d)
  OBVIOUS
<1>1a. \A i \in 1 .. n : d[i] \in STRING
  BY <1>1
<1>2. ASSUME NEW x \in X, NEW i \in 1 .. n
      PROVE  Osc!VteStep(x, d[i]) \in X
  BY <1>1a, VteStepIs
<1> HIDE DEF X, b
<1>3. IsStep(g, X, n)
  BY <1>2 DEF IsStep
<1>4. PICK f : IsRun(f, n, X, b, g)
  <2> HIDE DEF g
  <2> QED
    BY <1>1, <1>3, LoopExists
<1>5. f = [i \in 0 .. n |-> IF i = 0 THEN b ELSE Osc!VteStep(f[i - 1], d[i])]
  <2>1. ASSUME NEW i \in 1 .. n
        PROVE  f[i] = Osc!VteStep(f[i - 1], d[i])
    <3>1. f[i - 1] \in X /\ f[i] = g[<<f[i - 1], i>>]
      <4> HIDE DEF g
      <4>1. i - 1 \in 0 .. n
        BY <1>1
      <4> QED
        BY <1>4, <4>1 DEF IsRun
    <3> QED
      BY <3>1
  <2> HIDE DEF g
  <2> QED
    BY <1>1, <1>4, <2>1 DEF IsRun
<1>6. fed = [i \in 0 .. n |-> IF i = 0 THEN b ELSE Osc!VteStep(fed[i - 1], d[i])]
  BY <1>5, Zenon
<1>7. fed[n] \in X /\ FedIs(fed[n], t0, d, n)
  <2> HIDE DEF fed
  <2> DEFINE S == {i \in 0 .. n : fed[i] \in X /\ FedIs(fed[i], t0, d, i)}
  <2>1. 0 \in S
    <3>1. fed[0] = t0 /\ 0 \in 0 .. n /\ t0 \in X
      BY <1>1, <1>6 DEF b
    <3>2. t0.vte.raw \in Nat
      BY PartsAre
    <3>3. \A k \in Osc!Kinds : Owed(t0, t0, k)
      BY DEF Owed
    <3>4. Plain(d, 0) /\ t0.vte.raw + 0 = t0.vte.raw
      BY <3>2 DEF Plain
    <3>5. FedIs(t0, t0, d, 0)
      BY <3>3, <3>4 DEF FedIs
    <3> QED
      BY <3>1, <3>5
  <2>2. ASSUME NEW i \in 1 .. n, i - 1 \in S PROVE i \in S
    <3> DEFINE t == fed[i - 1]
               t2 == fed[i]
               c == d[i]
    <3>1. t \in Parts /\ FedIs(t, t0, d, i - 1) /\ i \in 0 .. n
      BY <1>1, <2>2 DEF X
    <3>2. t2 = Osc!VteStep(t, c)
      BY <1>1, <1>6, <3>1
    <3>3. c \in STRING
      BY <1>1a
    <3> HIDE DEF t, t2
    <3>4. /\ t2 \in Parts /\ t2.scan \in {t.scan, Osc!Off} /\ Adds(t, t2, c)
          /\ (c = "ESC" => t2.vte.at # "osc")
          /\ \A k \in Osc!Kinds : Moves(t, t2, k)
      <4> HIDE DEF c
      <4> QED
        BY <3>1, <3>2, <3>3, VteStepIs
    <3>5. t2.scan \in {t0.scan, Osc!Off}
      BY <3>1, <3>4 DEF FedIs
    <3>6. t2.vte.at = "osc" /\ ~t2.vte.began =>
            /\ t0.vte.at = "osc" /\ Plain(d, i)
            /\ t2.vte.raw = t0.vte.raw + i /\ t2.scan = t0.scan
      <4> SUFFICES ASSUME t2.vte.at = "osc" /\ ~t2.vte.began
                   PROVE  /\ t0.vte.at = "osc" /\ Plain(d, i)
                          /\ t2.vte.raw = t0.vte.raw + i /\ t2.scan = t0.scan
        OBVIOUS
      <4>1. /\ t.vte.at = "osc" /\ ~t.vte.began /\ c \notin {"ESC", "BEL"}
            /\ t2.vte.raw = t.vte.raw + 1 /\ t2.scan = t.scan
        BY <3>4 DEF Adds
      <4>2. /\ t0.vte.at = "osc" /\ Plain(d, i - 1)
            /\ t.vte.raw = t0.vte.raw + (i - 1) /\ t.scan = t0.scan
        BY <3>1, <4>1 DEF FedIs
      <4>3. t0.vte.raw \in Nat
        BY PartsAre
      <4>4. Plain(d, i)
        BY <4>1, <4>2 DEF Plain
      <4> QED
        BY <4>1, <4>2, <4>3, <4>4
    <3>7. ASSUME NEW k \in Osc!Kinds PROVE Owed(t2, t0, k)
      <4>1. Owed(t, t0, k) /\ Moves(t, t2, k)
        BY <3>1, <3>4 DEF FedIs
      <4> QED
        BY <4>1, Zenon DEF Owed, Moves
    <3>8. FedIs(t2, t0, d, i)
      BY <3>4, <3>5, <3>6, <3>7 DEF FedIs
    <3> QED
      BY <3>1, <3>4, <3>8 DEF t2, X
  <2>3. \A i \in 0 .. n : i \in S
    <3> HIDE DEF S
    <3> QED
      BY <1>1, <2>1, <2>2, UpTo
  <2> QED
    BY <1>1, <2>3
<1>8. Osc!Feed(t0, d, n) = fed[n]
  BY DEF Osc!Feed, b
<1> HIDE DEF fed
<1> QED
  BY <1>7, <1>8 DEF X

-----------------------------------------------------------------------------
(* The out-of-band controls: a read, the stream and the client.            *)

Sent == Osc!Kinds \X OscValues

\* The last control of kind k in w is v; there is none.
LastIs(w, k, v) ==
  \E i \in 1 .. Len(w) : w[i] = <<k, v>> /\ \A j \in 1 .. Len(w) : j > i => w[j][1] # k
Absent(w, k) == \A i \in 1 .. Len(w) : w[i][1] # k

\* The client has written d[k], or does not write it.
WrittenOut(sh, d, k) ==
  \/ sh[k] = d[k]
  \/ k = "title" /\ Status
  \/ k = "clip" /\ d[k] # NoControl /\ d[k][1] \in Refused

OscTypes ==
  /\ in_osc \in BOOLEAN /\ pending_esc \in BOOLEAN
  /\ osc_byte_count \in 0 .. OSC_ACCUMULATION_MAX
  /\ vte \in Vtes /\ pend \in Boxes /\ due \in Boxes /\ shown \in Boxes
  /\ wire \in Seq(Sent) /\ lost \in SUBSET Osc!Kinds

\* A tracked sequence is counted byte for byte, and a cut leaves nothing behind.
OscCounted ==
  /\ tracked => /\ vte.at = "osc" /\ in_osc /\ ~pending_esc
                /\ osc_byte_count = vte.raw
  /\ cut # NoControl => ~in_osc /\ vte = Osc!Ground

\* A control is lost, still in the terminal state, on the stream after every other of its
\* kind, or written out with none of its kind behind it.
OscOnTheWay(k) ==
  \/ k \in lost \/ pend[k] # NoControl
  \/ LastIs(wire, k, due[k])
  \/ Absent(wire, k) /\ WrittenOut(shown, due, k)

OscOwed ==
  /\ pumped => pend = Osc!NoControls
  /\ \A k \in Osc!Kinds : (pend[k] # NoControl => pend[k] = due[k]) /\ OscOnTheWay(k)

OscInv == OscTypes /\ OscCounted /\ OscOwed

\* What one read leaves in t.
Advanced(t) ==
  /\ t.vte \in Vtes /\ t.scan \in Scans /\ t.pend \in Boxes /\ t.due \in Boxes
  /\ t.lost \in SUBSET Osc!Kinds
  /\ t.cut # NoControl => ~t.scan.in_osc /\ t.vte = Osc!Ground
  /\ t.vte.at = "osc" => ~t.scan.esc
  /\ t.vte.at = "osc" /\ ~t.vte.began /\ tracked => t.scan.in_osc /\ t.scan.count = t.vte.raw
  /\ \A k \in Osc!Kinds :
       /\ t.pend[k] # NoControl => t.pend[k] = t.due[k]
       /\ \/ t.pend[k] # NoControl \/ k \in t.lost
          \/ pend[k] = NoControl /\ t.due[k] = due[k] /\ k \notin lost

(* A read: the scanner's count and the parser's agree at its end whenever  *)
(* they agreed at its start and the sequence goes on.                      *)
LEMMA AdvanceIs ==
  ASSUME NEW d \in Seq(STRING), d # <<>>, OscInv
  PROVE  Advanced(Osc!advance(d))
<1> DEFINE p == Osc!osc_prefilter(d)
           n == Len(d)
           v0 == [vte EXCEPT !.began = FALSE]
           t0 == [vte |-> v0, scan |-> p.scan, pend |-> pend, due |-> due, lost |-> lost]
           u == Osc!Feed(t0, d, p.fed)
           t == Osc!advance(d)
<1>1. t = [vte |-> IF p.fed < n THEN Osc!Ground ELSE u.vte,
           cut |-> IF p.fed < n THEN u.vte.at ELSE NoControl,
           scan |-> u.scan, pend |-> u.pend, due |-> u.due, lost |-> u.lost]
  BY DEF Osc!advance
<1>2. /\ p.scan \in Scans /\ p.fed \in 0 .. n
      /\ (p.fed < n => p.scan = Osc!Off)
      /\ (p.scan.esc => p.fed = n /\ d[n] = "ESC")
      /\ (in_osc /\ ~pending_esc /\ Plain(d, n) /\ p.fed = n
            => p.scan.in_osc /\ p.scan.count = osc_byte_count + n)
  BY PrefilterIs DEF OscInv, OscTypes
<1>3. n \in Nat /\ n > 0
  OBVIOUS
<1>4. vte \in Vtes /\ pend \in Boxes /\ due \in Boxes /\ lost \in SUBSET Osc!Kinds
  BY DEF OscInv, OscTypes
<1>5. v0 \in Vtes /\ v0.at = vte.at /\ v0.raw = vte.raw /\ ~v0.began
  BY <1>4 DEF Vtes
<1> HIDE DEF p, v0
<1>6. /\ t0 \in Parts /\ t0.vte = v0 /\ t0.scan = p.scan /\ t0.pend = pend /\ t0.due = due
      /\ t0.lost = lost
  BY <1>2, <1>4, <1>5 DEF Parts
<1> HIDE DEF t0
<1>7. u \in Parts /\ FedIs(u, t0, d, p.fed)
  BY <1>2, <1>5, <1>6, FeedIs
<1> HIDE DEF u
<1>8. /\ u.vte \in Vtes /\ u.scan \in Scans /\ u.pend \in Boxes /\ u.due \in Boxes
      /\ u.lost \in SUBSET Osc!Kinds
  BY <1>7, PartsAre
<1>9. /\ t.vte = (IF p.fed < n THEN Osc!Ground ELSE u.vte)
      /\ t.cut = (IF p.fed < n THEN u.vte.at ELSE NoControl)
      /\ t.scan = u.scan /\ t.pend = u.pend /\ t.due = u.due /\ t.lost = u.lost
  BY <1>1
<1> SUFFICES Advanced(t)
  OBVIOUS
<1> HIDE DEF t
<1>10. ASSUME NEW k \in Osc!Kinds
       PROVE  /\ t.pend[k] # NoControl => t.pend[k] = t.due[k]
              /\ \/ t.pend[k] # NoControl \/ k \in t.lost
                 \/ pend[k] = NoControl /\ t.due[k] = due[k] /\ k \notin lost
  <2>1. Owed(u, t0, k)
    BY <1>7 DEF FedIs
  <2>2. pend[k] # NoControl => pend[k] = due[k]
    BY DEF OscInv, OscOwed
  <2> QED
    BY <1>6, <1>9, <2>1, <2>2 DEF Owed
<1>11. t.cut # NoControl => ~t.scan.in_osc /\ t.vte = Osc!Ground
  <2> SUFFICES ASSUME t.cut # NoControl PROVE ~t.scan.in_osc /\ t.vte = Osc!Ground
    OBVIOUS
  <2>1. p.fed < n
    BY <1>9
  <2>2. u.scan = Osc!Off
    BY <1>2, <1>6, <1>7, <2>1 DEF FedIs
  <2> QED
    BY <1>9, <2>1, <2>2, OnOff
<1>12. ASSUME t.vte.at = "osc"
       PROVE  p.fed = n /\ t.vte = u.vte /\ u.vte.at = "osc"
  BY <1>2, <1>3, <1>9, <1>12, GroundIs
<1>13. t.vte.at = "osc" => ~t.scan.esc
  <2> SUFFICES ASSUME t.vte.at = "osc", t.scan.esc PROVE FALSE
    OBVIOUS
  <2>1. p.fed = n /\ u.vte.at = "osc"
    BY <1>12
  <2>2. u.scan = p.scan
    BY <1>6, <1>7, <1>9, OnOff DEF FedIs
  <2>3. d[n] = "ESC"
    BY <1>2, <1>9, <2>2
  <2> QED
    BY <1>3, <1>7, <2>1, <2>3 DEF FedIs
<1>14. t.vte.at = "osc" /\ ~t.vte.began /\ tracked => t.scan.in_osc /\ t.scan.count = t.vte.raw
  <2> SUFFICES ASSUME t.vte.at = "osc", ~t.vte.began, tracked
               PROVE  t.scan.in_osc /\ t.scan.count = t.vte.raw
    OBVIOUS
  <2>1. p.fed = n /\ t.vte = u.vte /\ u.vte.at = "osc" /\ ~u.vte.began
    BY <1>12
  <2>2. /\ t0.vte.at = "osc" /\ Plain(d, n)
        /\ u.vte.raw = t0.vte.raw + n /\ u.scan = t0.scan
    BY <1>7, <2>1 DEF FedIs
  <2>3. in_osc /\ ~pending_esc /\ osc_byte_count = vte.raw
    BY DEF OscInv, OscCounted
  <2>4. p.scan.in_osc /\ p.scan.count = osc_byte_count + n
    BY <1>2, <2>1, <2>2, <2>3
  <2> QED
    BY <1>5, <1>6, <1>9, <2>1, <2>2, <2>3, <2>4
<1>15. t.vte \in Vtes
  BY <1>8, <1>9, GroundIs
<1>16. /\ t.scan \in Scans /\ t.pend \in Boxes /\ t.due \in Boxes
       /\ t.lost \in SUBSET Osc!Kinds
  BY <1>8, <1>9
<1> QED
  BY <1>10, <1>11, <1>13, <1>14, <1>15, <1>16 DEF Advanced

\* The controls c stand in q, once each and with their values in p.
Listed(q, p) ==
  /\ q \in Seq(Sent)
  /\ \A i \in 1 .. Len(q) : q[i] = <<q[i][1], p[q[i][1]]>> /\ p[q[i][1]] # NoControl
  /\ \A k \in Osc!Kinds : p[k] # NoControl => \E i \in 1 .. Len(q) : q[i][1] = k
  /\ \A i, j \in 1 .. Len(q) : q[i][1] = q[j][1] => i = j

(* One element, or two, and another.                                       *)
LEMMA JoinOne ==
  ASSUME NEW S, NEW x \in S, NEW y \in S, NEW z \in S
  PROVE  <<x>> \o <<y>> = <<x, y>> /\ <<x, y>> \o <<z>> = <<x, y, z>>
<1>1. <<x>> \in Seq(S) /\ <<y>> \in Seq(S) /\ <<z>> \in Seq(S) /\ <<x, y>> \in Seq(S)
  OBVIOUS
<1> DEFINE s == <<x>> \o <<y>>
           w == <<x, y>> \o <<z>>
<1>2. s \in Seq(S) /\ Len(s) = 2 /\ s[1] = x /\ s[2] = y
  BY <1>1
<1>3. w \in Seq(S) /\ Len(w) = 3 /\ w[1] = x /\ w[2] = y /\ w[3] = z
  BY <1>1
<1>4. <<x, y>> \in Seq(S) /\ <<x, y, z>> \in Seq(S)
  OBVIOUS
<1> SUFFICES s = <<x, y>> /\ w = <<x, y, z>>
  OBVIOUS
<1> HIDE DEF s, w
<1>5. s = <<x, y>>
  BY <1>2, <1>4, SeqEqual
<1>6. w = <<x, y, z>>
  BY <1>3, <1>4, SeqEqual
<1> QED
  BY <1>5, <1>6

(* The drain lists every control there is, once.                           *)
LEMMA ControlsAre ==
  ASSUME NEW p \in Boxes
  PROVE  Listed(Osc!Controls(p), p)
<1> DEFINE N == NoControl
           e(k) == <<k, p[k]>>
<1>1. ASSUME NEW k \in Osc!Kinds, p[k] # N PROVE e(k) \in Sent /\ e(k)[1] = k /\ e(k)[2] = p[k]
  BY <1>1 DEF Boxes, Sent
<1>2. ASSUME NEW k \in Osc!Kinds
      PROVE  Osc!Control(p, k) = IF p[k] = N THEN <<>> ELSE <<e(k)>>
  BY DEF Osc!Control
<1>3. "title" \in Osc!Kinds /\ "clip" \in Osc!Kinds /\ "link" \in Osc!Kinds
  BY DEF Osc!Kinds
<1>4. \A k \in Osc!Kinds : k = "title" \/ k = "clip" \/ k = "link"
  BY DEF Osc!Kinds
<1> DEFINE a == e("title")
           b == e("clip")
           c == e("link")
           q == Osc!Controls(p)
<1>5. q = (IF p["title"] = N THEN <<>> ELSE <<a>>)
            \o (IF p["clip"] = N THEN <<>> ELSE <<b>>)
            \o (IF p["link"] = N THEN <<>> ELSE <<c>>)
  BY <1>2, <1>3 DEF Osc!Controls
<1>6. /\ p["title"] # N => a \in Sent /\ a[1] = "title" /\ a[2] = p["title"]
      /\ p["clip"] # N => b \in Sent /\ b[1] = "clip" /\ b[2] = p["clip"]
      /\ p["link"] # N => c \in Sent /\ c[1] = "link" /\ c[2] = p["link"]
  BY <1>1, <1>3
<1>6a. /\ a = <<a[1], p["title"]>> /\ b = <<b[1], p["clip"]>> /\ c = <<c[1], p["link"]>>
  OBVIOUS
<1>6b. \A x, y, z \in Sent : <<x>> \o <<y>> = <<x, y>> /\ <<x, y>> \o <<z>> = <<x, y, z>>
  BY JoinOne
<1>6d. \A x, y \in Sent : /\ <<x>> \o <<>> = <<x>> /\ <<>> \o <<x>> = <<x>>
                        /\ <<x, y>> \o <<>> = <<x, y>>
  OBVIOUS
<1> SUFFICES Listed(q, p)
  OBVIOUS
<1> HIDE DEF a, b, c, q, e
<1>7. CASE p["title"] = N /\ p["clip"] = N /\ p["link"] = N
  <2>1. q = <<>>
    BY <1>5, <1>7
  <2> QED
    BY <1>4, <1>7, <2>1 DEF Listed
<1>8. CASE p["title"] # N /\ p["clip"] = N /\ p["link"] = N
  <2>1. q = <<a>>
    BY <1>5, <1>8
  <2> QED
    BY <1>4, <1>6, <1>6a, <1>8, <2>1 DEF Listed
<1>9. CASE p["title"] = N /\ p["clip"] # N /\ p["link"] = N
  <2>1. q = <<b>>
    BY <1>5, <1>9
  <2> QED
    BY <1>4, <1>6, <1>6a, <1>9, <2>1 DEF Listed
<1>10. CASE p["title"] = N /\ p["clip"] = N /\ p["link"] # N
  <2>1. q = <<c>>
    BY <1>5, <1>10
  <2> QED
    BY <1>4, <1>6, <1>6a, <1>10, <2>1 DEF Listed
<1>11. CASE p["title"] # N /\ p["clip"] # N /\ p["link"] = N
  <2>1. q = <<a, b>>
    BY <1>5, <1>6, <1>6b, <1>6d, <1>11
  <2> QED
    BY <1>4, <1>6, <1>6a, <1>11, <2>1 DEF Listed
<1>12. CASE p["title"] # N /\ p["clip"] = N /\ p["link"] # N
  <2>1. q = <<a, c>>
    BY <1>5, <1>6, <1>6b, <1>6d, <1>12
  <2> QED
    BY <1>4, <1>6, <1>6a, <1>12, <2>1 DEF Listed
<1>13. CASE p["title"] = N /\ p["clip"] # N /\ p["link"] # N
  <2>1. q = <<b, c>>
    BY <1>5, <1>6, <1>6b, <1>6d, <1>13
  <2> QED
    BY <1>4, <1>6, <1>6a, <1>13, <2>1 DEF Listed
<1>14. CASE p["title"] # N /\ p["clip"] # N /\ p["link"] # N
  <2>1. q = <<a, b, c>>
    BY <1>5, <1>6, <1>6b, <1>6d, <1>14, ZenonT(40)
  <2> QED
    BY <1>4, <1>6, <1>6a, <1>14, <2>1 DEF Listed
<1> QED
  BY <1>7, <1>8, <1>9, <1>10, <1>11, <1>12, <1>13, <1>14

(* What follows on the stream and is of other kinds changes nothing.       *)
LEMMA AppendOthers ==
  ASSUME NEW w \in Seq(Sent), NEW q \in Seq(Sent), NEW k, NEW v, Absent(q, k)
  PROVE  /\ LastIs(w, k, v) => LastIs(w \o q, k, v)
         /\ Absent(w, k) => Absent(w \o q, k)
<1> DEFINE z == w \o q
           m == Len(w)
<1>1. /\ m \in Nat /\ Len(q) \in Nat /\ Len(z) = m + Len(q)
      /\ \A i \in 1 .. m : z[i] = w[i]
      /\ \A i \in 1 .. Len(q) : z[m + i] = q[i]
  OBVIOUS
<1> SUFFICES /\ LastIs(w, k, v) => LastIs(z, k, v)
             /\ Absent(w, k) => Absent(z, k)
  OBVIOUS
<1> HIDE DEF z
<1>2. ASSUME NEW j \in 1 .. Len(z), j > m PROVE z[j][1] # k
  <2>1. j - m \in 1 .. Len(q) /\ m + (j - m) = j
    BY <1>1, <1>2
  <2>2. z[j] = q[j - m]
    BY <1>1, <2>1
  <2> QED
    BY <2>1, <2>2 DEF Absent
<1>3. ASSUME Absent(w, k) PROVE Absent(z, k)
  BY <1>1, <1>2, <1>3 DEF Absent
<1>4. ASSUME LastIs(w, k, v) PROVE LastIs(z, k, v)
  <2>1. PICK i \in 1 .. m : w[i] = <<k, v>> /\ \A j \in 1 .. m : j > i => w[j][1] # k
    BY <1>4 DEF LastIs
  <2>2. i \in 1 .. Len(z) /\ z[i] = <<k, v>>
    BY <1>1, <2>1
  <2>3. \A j \in 1 .. Len(z) : j > i => z[j][1] # k
    BY <1>1, <1>2, <2>1
  <2> QED
    BY <2>2, <2>3 DEF LastIs
<1> QED
  BY <1>3, <1>4

(* A control sent is the last of its kind on the stream.                   *)
LEMMA AppendOne ==
  ASSUME NEW w \in Seq(Sent), NEW q \in Seq(Sent), NEW k, NEW v, NEW i \in 1 .. Len(q),
         q[i] = <<k, v>>, \A j \in 1 .. Len(q) : q[j][1] = k => j = i
  PROVE  LastIs(w \o q, k, v)
<1> DEFINE z == w \o q
           m == Len(w)
<1>1. /\ m \in Nat /\ Len(q) \in Nat /\ Len(z) = m + Len(q)
      /\ \A j \in 1 .. Len(q) : z[m + j] = q[j]
  OBVIOUS
<1> SUFFICES LastIs(z, k, v)
  OBVIOUS
<1> HIDE DEF z
<1>2. m + i \in 1 .. Len(z) /\ z[m + i] = <<k, v>>
  BY <1>1
<1>3. ASSUME NEW j \in 1 .. Len(z), j > m + i PROVE z[j][1] # k
  <2>1. j - m \in 1 .. Len(q) /\ m + (j - m) = j /\ j - m # i
    BY <1>1, <1>3
  <2>2. z[j] = q[j - m]
    BY <1>1, <2>1
  <2> QED
    BY <2>1, <2>2
<1> QED
  BY <1>2, <1>3 DEF LastIs

(* The start.                                                              *)
LEMMA OscInit == Osc!Init => OscInv
<1> SUFFICES ASSUME Osc!Init PROVE OscInv
  OBVIOUS
<1>1. Osc!NoControls \in Boxes /\ \A k \in Osc!Kinds : Osc!NoControls[k] = NoControl
  BY DEF Osc!NoControls, Boxes
<1>1a. 0 \in 0 .. OSC_ACCUMULATION_MAX /\ <<>> \in Seq(Sent) /\ {} \in SUBSET Osc!Kinds
  BY OnOff
<1>2. OscTypes
  BY <1>1, <1>1a, GroundIs DEF Osc!Init, OscTypes
<1>3. OscCounted
  BY DEF Osc!Init, OscCounted
<1>4. ASSUME NEW k \in Osc!Kinds PROVE OscOnTheWay(k) /\ pend[k] = NoControl
  <2>1. Absent(wire, k)
    BY DEF Osc!Init, Absent
  <2>2. WrittenOut(shown, due, k)
    BY DEF Osc!Init, WrittenOut
  <2> QED
    BY <1>1, <2>1, <2>2 DEF Osc!Init, OscOnTheWay
<1>5. OscOwed
  BY <1>4 DEF Osc!Init, OscOwed
<1> QED
  BY <1>2, <1>3, <1>5 DEF OscInv

(* A read of the PTY and its writes, however many of them succeed.         *)
LEMMA OscPump == OscInv /\ Osc!PumpChunk => OscInv'
<1> SUFFICES ASSUME OscInv, Osc!PumpChunk PROVE OscInv'
  OBVIOUS
<1>1. PICK d \in PtyReads : LET t == Osc!advance(d)
                                r == Osc!drain_terminal_control(t)
        IN  \E ok \in 0 .. (1 + Len(r.out)) :
             /\ in_osc' = t.scan.in_osc /\ osc_byte_count' = t.scan.count
             /\ pending_esc' = t.scan.esc
             /\ vte' = t.vte
             /\ cut' = t.cut
             /\ tracked' = (/\ t.vte.at = "osc"
                            /\ IF t.vte.began THEN t.scan.in_osc /\ t.scan.count = t.vte.raw
                                              ELSE tracked)
             /\ due' = t.due
             /\ pend' = (IF ok = 0 THEN t.pend ELSE r.left)
             /\ wire' = wire \o (IF ok = 0 THEN <<>> ELSE SubSeq(r.out, 1, ok - 1))
             /\ lost' = t.lost \cup (IF ok = 0 THEN {}
                                     ELSE {r.out[i][1] : i \in ok .. Len(r.out)})
             /\ pumped' = (ok = 1 + Len(r.out))
  BY Zenon DEF Osc!PumpChunk
<1>2. d \in Seq(STRING) /\ d # <<>>
  BY ControlAssumption DEF Osc!OscAssumption
<1> DEFINE t == Osc!advance(d)
           q == Osc!Controls(t.pend)
<1>3. Advanced(t)
  BY <1>2, AdvanceIs
<1> HIDE DEF t
<1>4. Listed(q, t.pend)
  BY <1>3, ControlsAre DEF Advanced
<1> HIDE DEF q
<1>5. PICK ok \in 0 .. (1 + Len(q)) :
             /\ in_osc' = t.scan.in_osc /\ osc_byte_count' = t.scan.count
             /\ pending_esc' = t.scan.esc
             /\ vte' = t.vte
             /\ cut' = t.cut
             /\ tracked' = (/\ t.vte.at = "osc"
                            /\ IF t.vte.began THEN t.scan.in_osc /\ t.scan.count = t.vte.raw
                                              ELSE tracked)
             /\ due' = t.due
             /\ pend' = (IF ok = 0 THEN t.pend ELSE Osc!NoControls)
             /\ wire' = wire \o (IF ok = 0 THEN <<>> ELSE SubSeq(q, 1, ok - 1))
             /\ lost' = t.lost \cup (IF ok = 0 THEN {} ELSE {q[i][1] : i \in ok .. Len(q)})
             /\ pumped' = (ok = 1 + Len(q))
  BY <1>1 DEF Osc!drain_terminal_control, t, q
<1>6. shown' = shown
  BY DEF Osc!PumpChunk
<1>7. q \in Seq(Sent) /\ wire \in Seq(Sent) /\ Len(q) \in Nat
  BY <1>4 DEF Listed, OscInv, OscTypes
<1>8. Osc!NoControls \in Boxes /\ \A k \in Osc!Kinds : Osc!NoControls[k] = NoControl
  BY DEF Osc!NoControls, Boxes
<1>9. OscCounted'
  <2>1. t.vte.began \in BOOLEAN /\ t.vte.raw \in Nat
    BY <1>3 DEF Advanced, Vtes
  <2>2. tracked' => /\ vte'.at = "osc" /\ in_osc' /\ ~pending_esc' /\ osc_byte_count' = vte'.raw
    BY <1>3, <1>5, <2>1 DEF Advanced
  <2>3. cut' # NoControl => ~in_osc' /\ vte' = Osc!Ground
    BY <1>3, <1>5 DEF Advanced
  <2> QED
    BY <2>2, <2>3 DEF OscCounted
<1>10. /\ in_osc' \in BOOLEAN /\ pending_esc' \in BOOLEAN
       /\ osc_byte_count' \in 0 .. OSC_ACCUMULATION_MAX
       /\ vte' \in Vtes /\ due' \in Boxes /\ shown' \in Boxes
  <2>1. t.scan \in Scans /\ t.vte \in Vtes /\ t.due \in Boxes
    BY <1>3 DEF Advanced
  <2> QED
    BY <1>5, <1>6, <2>1 DEF Scans, OscInv, OscTypes
<1>11. CASE ok = 0
  <2>1a. wire \o <<>> = wire /\ 0 # 1 + Len(q)
    BY <1>7
  <2>1. pend' = t.pend /\ wire' = wire /\ lost' = t.lost /\ ~pumped'
    BY <1>5, <1>11, <2>1a
  <2>2. pend' \in Boxes /\ wire' \in Seq(Sent) /\ lost' \in SUBSET Osc!Kinds
    BY <1>3, <1>7, <2>1 DEF Advanced
  <2>3. ASSUME NEW k \in Osc!Kinds
        PROVE  (pend'[k] # NoControl => pend'[k] = due'[k]) /\ OscOnTheWay(k)'
    <3>1. /\ t.pend[k] # NoControl => t.pend[k] = t.due[k]
          /\ \/ t.pend[k] # NoControl \/ k \in t.lost
             \/ pend[k] = NoControl /\ t.due[k] = due[k] /\ k \notin lost
      BY <1>3 DEF Advanced
    <3>2. OscOnTheWay(k)
      BY DEF OscInv, OscOwed
    <3>3. CASE pend'[k] # NoControl \/ k \in lost'
      BY <1>5, <2>1, <3>1, <3>3 DEF OscOnTheWay
    <3>4. CASE pend[k] = NoControl /\ due'[k] = due[k] /\ k \notin lost
      <4>1. LastIs(wire, k, due[k]) \/ (Absent(wire, k) /\ WrittenOut(shown, due, k))
        BY <3>2, <3>4 DEF OscOnTheWay
      <4>2. LastIs(wire', k, due'[k]) \/ (Absent(wire', k) /\ WrittenOut(shown', due', k))
        BY <1>6, <2>1, <3>4, <4>1 DEF WrittenOut
      <4> QED
        BY <1>5, <2>1, <3>1, <4>2 DEF OscOnTheWay
    <3> QED
      BY <1>5, <2>1, <3>1, <3>3, <3>4
  <2> QED
    BY <1>9, <1>10, <2>1, <2>2, <2>3 DEF OscInv, OscTypes, OscOwed
<1>12. CASE ok # 0
  <2> DEFINE h == SubSeq(q, 1, ok - 1)
  <2>1. pend' = Osc!NoControls /\ wire' = wire \o h
        /\ lost' = t.lost \cup {q[i][1] : i \in ok .. Len(q)}
    BY <1>5, <1>12
  <2>2. /\ h \in Seq(Sent) /\ Len(h) = ok - 1 /\ ok - 1 \in 0 .. Len(q)
        /\ \A i \in 1 .. (ok - 1) : h[i] = q[i]
    BY <1>7, <1>12
  <2> HIDE DEF h
  <2>3. pend' \in Boxes /\ wire' \in Seq(Sent)
    BY <1>7, <1>8, <2>1, <2>2
  <2>4. lost' \in SUBSET Osc!Kinds
    <3>1. \A i \in 1 .. Len(q) : q[i][1] \in Osc!Kinds
      BY <1>7 DEF Sent
    <3>2. t.lost \in SUBSET Osc!Kinds
      BY <1>3 DEF Advanced
    <3> QED
      BY <1>12, <2>1, <2>2, <3>1, <3>2
  <2>5. ASSUME NEW k \in Osc!Kinds
        PROVE  pend'[k] = NoControl /\ OscOnTheWay(k)'
    <3>1. /\ t.pend[k] # NoControl => t.pend[k] = t.due[k]
          /\ \/ t.pend[k] # NoControl \/ k \in t.lost
             \/ pend[k] = NoControl /\ t.due[k] = due[k] /\ k \notin lost
      BY <1>3 DEF Advanced
    <3>2. OscOnTheWay(k)
      BY DEF OscInv, OscOwed
    <3>3. CASE k \in t.lost
      BY <1>8, <2>1, <3>3 DEF OscOnTheWay
    <3>4. CASE t.pend[k] # NoControl
      <4>1. PICK i \in 1 .. Len(q) : q[i][1] = k
        BY <1>4, <3>4 DEF Listed
      <4>2. CASE i >= ok
        BY <1>8, <2>1, <2>2, <4>1, <4>2 DEF OscOnTheWay
      <4>3. CASE i < ok
        <5>1. i \in 1 .. Len(h) /\ h[i] = q[i]
          BY <2>2, <4>1, <4>3
        <5>2. q[i] = <<k, t.pend[k]>>
          BY <1>4, <4>1 DEF Listed
        <5>3. \A j \in 1 .. Len(h) : h[j][1] = k => j = i
          BY <1>4, <2>2, <4>1 DEF Listed
        <5>4. LastIs(wire \o h, k, due'[k])
          BY <1>5, <1>7, <2>2, <3>1, <3>4, <5>1, <5>2, <5>3, AppendOne
        <5> QED
          BY <1>8, <2>1, <5>4 DEF OscOnTheWay
      <4> QED
        BY <2>2, <4>1, <4>2, <4>3
    <3>5. CASE t.pend[k] = NoControl /\ pend[k] = NoControl /\ t.due[k] = due[k] /\ k \notin lost
      <4>1. LastIs(wire, k, due[k]) \/ (Absent(wire, k) /\ WrittenOut(shown, due, k))
        BY <3>2, <3>5 DEF OscOnTheWay
      <4>2. Absent(h, k)
        BY <1>4, <2>2, <3>5 DEF Listed, Absent
      <4>3. LastIs(wire', k, due[k]) \/ (Absent(wire', k) /\ WrittenOut(shown, due, k))
        BY <1>7, <2>1, <2>2, <4>1, <4>2, AppendOthers
      <4>4. WrittenOut(shown, due, k) => WrittenOut(shown', due', k)
        BY <1>5, <1>6, <3>5 DEF WrittenOut
      <4>5. due'[k] = due[k]
        BY <1>5, <3>5
      <4> QED
        BY <1>8, <2>1, <4>3, <4>4, <4>5 DEF OscOnTheWay
    <3> QED
      BY <3>1, <3>3, <3>4, <3>5
  <2> QED
    BY <1>9, <1>10, <2>1, <2>3, <2>4, <2>5 DEF OscInv, OscTypes, OscOwed
<1> QED
  BY <1>11, <1>12

(* The client takes the control at the head of the stream.                 *)
LEMMA OscClient == OscInv /\ Osc!ClientControl => OscInv'
<1> SUFFICES ASSUME OscInv, Osc!ClientControl PROVE OscInv'
  OBVIOUS
<1> DEFINE c == wire[1][1]
           v == wire[1][2]
           z == Tail(wire)
           m == Len(wire)
<1>1. wire \in Seq(Sent) /\ wire # <<>>
  BY DEF OscInv, OscTypes, Osc!ClientControl
<1>2. /\ m \in Nat /\ m > 0 /\ z \in Seq(Sent) /\ Len(z) = m - 1
      /\ \A i \in 1 .. (m - 1) : z[i] = wire[i + 1]
  BY <1>1
<1>3. Head(wire) = wire[1] /\ wire[1] \in Sent
  BY <1>1
<1>4. c \in Osc!Kinds /\ v \in OscValues /\ wire[1] = <<c, v>>
  BY <1>3 DEF Sent
<1>5. /\ shown' = IF (c = "title" /\ Status) \/ (c = "clip" /\ v[1] \in Refused) THEN shown
                  ELSE [shown EXCEPT ![c] = v]
      /\ wire' = z
  BY <1>3 DEF Osc!ClientControl
<1>6. /\ in_osc' = in_osc /\ osc_byte_count' = osc_byte_count /\ pending_esc' = pending_esc
      /\ vte' = vte /\ pend' = pend /\ tracked' = tracked /\ cut' = cut /\ due' = due
      /\ lost' = lost /\ pumped' = pumped
  BY DEF Osc!ClientControl, Osc!scanVars
<1> HIDE DEF c, v, z, m
<1>7. shown \in Boxes /\ NoControl \notin OscValues
  BY ControlAssumption DEF Osc!OscAssumption, OscValues, OscInv, OscTypes
<1>8. /\ shown' \in Boxes
      /\ \A k \in Osc!Kinds : k # c => shown'[k] = shown[k]
      /\ \/ (c = "title" /\ Status) \/ (c = "clip" /\ v[1] \in Refused)
         \/ shown'[c] = v
  BY <1>4, <1>5, <1>7 DEF Boxes
<1>9. ASSUME NEW k \in Osc!Kinds PROVE OscOnTheWay(k)'
  <2>1. OscOnTheWay(k)
    BY DEF OscInv, OscOwed
  <2>2. CASE k \in lost \/ pend[k] # NoControl
    BY <1>6, <2>2 DEF OscOnTheWay
  <2>3. CASE Absent(wire, k) /\ WrittenOut(shown, due, k)
    <3>1. k # c
      BY <1>2, <2>3 DEF Absent, c, m
    <3>2. \A i \in 1 .. (m - 1) : i + 1 \in 1 .. m
      BY <1>2
    <3>3. Absent(wire', k)
      BY <1>2, <1>5, <2>3, <3>2 DEF Absent, m
    <3>4. WrittenOut(shown', due', k)
      BY <1>6, <1>8, <2>3, <3>1 DEF WrittenOut
    <3> QED
      BY <3>3, <3>4 DEF OscOnTheWay
  <2>4. CASE LastIs(wire, k, due[k])
    <3>1. PICK i \in 1 .. m : wire[i] = <<k, due[k]>> /\ \A j \in 1 .. m : j > i => wire[j][1] # k
      BY <2>4 DEF LastIs, m
    <3>2. CASE i = 1
      <4>1. c = k /\ v = due[k]
        BY <3>1, <3>2 DEF c, v
      <4>2. \A j \in 1 .. (m - 1) : j + 1 \in 1 .. m /\ j + 1 > 1
        BY <1>2
      <4>3. Absent(wire', k)
        BY <1>2, <1>5, <3>1, <3>2, <4>2 DEF Absent
      <4>4. WrittenOut(shown', due', k)
        BY <1>4, <1>6, <1>7, <1>8, <4>1 DEF WrittenOut
      <4> QED
        BY <4>3, <4>4 DEF OscOnTheWay
    <3>3. CASE i # 1
      <4>1. i - 1 \in 1 .. (m - 1) /\ (i - 1) + 1 = i
        BY <1>2, <3>1, <3>3
      <4>2. z[i - 1] = <<k, due[k]>>
        BY <1>2, <3>1, <4>1
      <4>3. ASSUME NEW j \in 1 .. (m - 1), j > i - 1 PROVE z[j][1] # k
        <5>1. j + 1 \in 1 .. m /\ j + 1 > i
          BY <1>2, <4>1, <4>3
        <5> QED
          BY <1>2, <3>1, <5>1
      <4>4. LastIs(z, k, due[k])
        BY <1>2, <4>1, <4>2, <4>3 DEF LastIs
      <4> QED
        BY <1>5, <1>6, <4>4 DEF OscOnTheWay
    <3> QED
      BY <3>2, <3>3
  <2> QED
    BY <2>1, <2>2, <2>3, <2>4 DEF OscOnTheWay
<1>10. OscTypes'
  BY <1>2, <1>5, <1>6, <1>8 DEF OscInv, OscTypes
<1>11. OscCounted'
  BY <1>6 DEF OscInv, OscCounted
<1>12. OscOwed'
  BY <1>6, <1>9 DEF OscInv, OscOwed
<1> QED
  BY <1>10, <1>11, <1>12 DEF OscInv

(* A lost connection changes nothing, and a new one has an empty stream.   *)
LEMMA OscLink == OscInv /\ (Osc!TransportLost \/ Osc!Reattach) => OscInv'
<1> SUFFICES ASSUME OscInv, Osc!TransportLost \/ Osc!Reattach PROVE OscInv'
  OBVIOUS
<1>1. /\ in_osc' = in_osc /\ osc_byte_count' = osc_byte_count /\ pending_esc' = pending_esc
      /\ vte' = vte /\ pend' = pend /\ tracked' = tracked /\ cut' = cut /\ due' = due
      /\ shown' = shown
  BY DEF Osc!TransportLost, Osc!Reattach, Osc!scanVars
<1>2. OscCounted'
  BY <1>1 DEF OscInv, OscCounted
<1>3. CASE Osc!TransportLost
  <2>1. wire' = wire /\ lost' = lost /\ pumped' = FALSE
    BY <1>3 DEF Osc!TransportLost
  <2>2. OscTypes'
    BY <1>1, <2>1 DEF OscInv, OscTypes
  <2>3. OscOwed'
    BY <1>1, <2>1 DEF OscInv, OscOwed, OscOnTheWay
  <2> QED
    BY <1>2, <2>2, <2>3 DEF OscInv
<1>4. CASE Osc!Reattach
  <2>1. /\ wire' = <<>> /\ lost' = lost \cup {wire[i][1] : i \in DOMAIN wire}
        /\ pumped' = pumped
    BY <1>4 DEF Osc!Reattach
  <2>2. wire \in Seq(Sent) /\ DOMAIN wire = 1 .. Len(wire)
    BY DEF OscInv, OscTypes
  <2>3. \A i \in 1 .. Len(wire) : wire[i][1] \in Osc!Kinds
    BY <2>2 DEF Sent
  <2>4. OscTypes'
    BY <1>1, <2>1, <2>2, <2>3 DEF OscInv, OscTypes
  <2>5. ASSUME NEW k \in Osc!Kinds PROVE OscOnTheWay(k)'
    <3>1. OscOnTheWay(k)
      BY DEF OscInv, OscOwed
    <3>2. CASE LastIs(wire, k, due[k])
      <4>1. PICK i \in 1 .. Len(wire) : wire[i] = <<k, due[k]>>
        BY <3>2 DEF LastIs
      <4>2. k \in lost'
        BY <2>1, <2>2, <4>1
      <4> QED
        BY <4>2 DEF OscOnTheWay
    <3>3. CASE WrittenOut(shown, due, k)
      <4>1. WrittenOut(shown', due', k)
        BY <1>1, <3>3 DEF WrittenOut
      <4>2. Absent(wire', k)
        BY <2>1 DEF Absent
      <4> QED
        BY <4>1, <4>2 DEF OscOnTheWay
    <3>4. CASE k \in lost \/ pend[k] # NoControl
      BY <1>1, <2>1, <3>4 DEF OscOnTheWay
    <3> QED
      BY <3>1, <3>2, <3>3, <3>4 DEF OscOnTheWay
  <2>6. OscOwed'
    BY <1>1, <2>1, <2>5 DEF OscInv, OscOwed
  <2> QED
    BY <1>2, <2>4, <2>6 DEF OscInv
<1> QED
  BY <1>3, <1>4

(* The scanner, the parser, the stream and the client keep OscInv: the     *)
(* scanner counts a tracked sequence byte for byte, and every control is   *)
(* lost, kept, the last of its kind on the stream, or written out.         *)
THEOREM OscInvariance == Osc!Spec => []OscInv
<1>1. OscInv /\ [Osc!Next]_(Osc!vars) => OscInv'
  <2> SUFFICES ASSUME OscInv, [Osc!Next]_(Osc!vars) PROVE OscInv'
    OBVIOUS
  <2>1. CASE UNCHANGED Osc!vars
    BY <2>1 DEF Osc!vars, Osc!scanVars, OscInv, OscTypes, OscCounted, OscOwed, OscOnTheWay
  <2> QED
    BY <2>1, OscPump, OscClient, OscLink DEF Osc!Next
<1> QED
  BY <1>1, OscInit, PTL DEF Osc!Spec

(* For every set of reads: a sequence the scanner counts from its start is *)
(* bounded by OSC_ACCUMULATION_MAX over any cut into reads, and the latest *)
(* control of each kind reaches the client's terminal or is accounted for. *)
THEOREM OscControlsArrive == Osc!Spec => []ControlsArrive
<1>1. OscInv => ControlsArrive
  <2> SUFFICES ASSUME OscInv PROVE ControlsArrive
    OBVIOUS
  <2>1. osc_byte_count \in 0 .. OSC_ACCUMULATION_MAX /\ OSC_ACCUMULATION_MAX \in Nat
    BY OnOff DEF OscInv, OscTypes
  <2>2. Osc!TrackedIsBounded
    BY <2>1 DEF OscInv, OscCounted, Osc!TrackedIsBounded
  <2>3. ASSUME wire = <<>>, pend = Osc!NoControls, NEW k \in Osc!Kinds
        PROVE  WrittenOut(shown, due, k) \/ k \in lost
    <3>1. pend[k] = NoControl
      BY <2>3 DEF Osc!NoControls
    <3>2. ~LastIs(wire, k, due[k])
      BY <2>3 DEF LastIs
    <3> QED
      BY <3>1, <3>2 DEF OscInv, OscOwed, OscOnTheWay
  <2>4. Osc!ControlsArrive
    BY <2>3 DEF OscInv, OscOwed, WrittenOut, Osc!ControlsArrive
  <2> QED
    BY <2>2, <2>4 DEF ControlsArrive
<1> QED
  BY <1>1, OscInvariance, PTL

-----------------------------------------------------------------------------
(* The client's screen: grids.                                             *)

Cells == {" ", "a", "b", "w", ">", "p", "#", "?"}
Grids(m, n) == [1 .. n -> [1 .. m -> Cells]]
Runs == [row : Nat \ {0}, start : Nat \ {0}, chars : Seq(Cells)]

\* No wide glyph, nor the second half of one.
NarrowRow(line, m) == \A c \in 1 .. m : line[c] # "w" /\ line[c] # ">"
Narrow(g, m, n, W) == \A r \in 1 .. n : r \notin W => NarrowRow(g[r], m)

(* The size of a grid.                                                     *)
LEMMA GridSize ==
  ASSUME NEW m \in Nat \ {0}, NEW n \in Nat \ {0}, NEW g \in Grids(m, n)
  PROVE  /\ Screen!RowsOf(g) = n /\ Screen!ColsOf(g) = m /\ Len(g) = n
         /\ \A r \in 1 .. n : Len(g[r]) = m /\ g[r] \in [1 .. m -> Cells] /\ g[r] \in Seq(Cells)
<1>1. g \in Seq([1 .. m -> Cells]) /\ Len(g) = n
  BY DEF Grids
<1>2. ASSUME NEW r \in 1 .. n
      PROVE  Len(g[r]) = m /\ g[r] \in [1 .. m -> Cells] /\ g[r] \in Seq(Cells)
  <2>1. g[r] \in [1 .. m -> Cells]
    BY DEF Grids
  <2> QED
    BY <2>1
<1>3. 1 \in 1 .. n
  OBVIOUS
<1> QED
  BY <1>1, <1>2, <1>3 DEF Screen!RowsOf, Screen!ColsOf

-----------------------------------------------------------------------------
(* The client's screen: the diff of the server.                            *)

\* Run x covers the cell <<r, c>>.
Covers(x, r, c) == x.row = r /\ x.start <= c /\ c < x.start + Len(x.chars)
Covered(runs, r, c) == \E j \in 1 .. Len(runs) : Covers(runs[j], r, c)

\* On a narrow row the characters of x are the cells from x.start on.
Copies(x, now, m, n, W) ==
  x.row \in 1 .. n /\ x.row \notin W =>
    \A i \in 1 .. Len(x.chars) : /\ x.start + i - 1 <= m
                                 /\ x.chars[i] = now[x.row][x.start + i - 1]
AllCopy(runs, now, m, n, W) == \A j \in 1 .. Len(runs) : Copies(runs[j], now, m, n, W)

OldRow(old, r) == IF r <= Len(old) THEN old[r] ELSE <<>>

DiffStates == [runs : Seq(Runs), open : BOOLEAN]

\* After c cells of row r, when the loop over the row began with runs0.
DiffIs(a, runs0, r, c, now, old, m, n, W) ==
  /\ AllCopy(a.runs, now, m, n, W)
  /\ \A s \in 1 .. n, k \in 1 .. m : Covered(runs0, s, k) => Covered(a.runs, s, k)
  /\ r \notin W => \A k \in 1 .. c : Screen!Changed(now[r], OldRow(old, r), k)
                                       => Covered(a.runs, r, k)
  /\ a.open => /\ a.runs # <<>>
               /\ a.runs[Len(a.runs)].row = r
               /\ r \notin W => LET x == a.runs[Len(a.runs)]
                                IN  x.start + Len(x.chars) = c + 1

(* A run added to the list.                                                *)
LEMMA AddRun ==
  ASSUME NEW runs \in Seq(Runs), NEW r \in Nat \ {0}, NEW c \in Nat \ {0}, NEW g \in Cells
  PROVE  LET x == Screen!RunFrom(r, c, g)
             runs2 == Append(runs, x)
         IN  /\ x \in Runs /\ x.row = r /\ x.start = c /\ Len(x.chars) = 1 /\ x.chars[1] = g
             /\ runs2 \in Seq(Runs) /\ Len(runs2) = Len(runs) + 1
             /\ runs2[Len(runs) + 1] = x
             /\ \A j \in 1 .. Len(runs) : runs2[j] = runs[j]
<1> DEFINE x == Screen!RunFrom(r, c, g)
<1>1. x \in Runs /\ x.row = r /\ x.start = c /\ Len(x.chars) = 1 /\ x.chars[1] = g
  BY DEF Screen!RunFrom, Runs
<1> HIDE DEF x
<1>2. LET runs2 == Append(runs, x)
      IN  /\ runs2 \in Seq(Runs) /\ Len(runs2) = Len(runs) + 1
          /\ runs2[Len(runs) + 1] = x
          /\ \A j \in 1 .. Len(runs) : runs2[j] = runs[j]
  BY <1>1
<1> QED
  BY <1>1, <1>2 DEF x

(* A character added to the last run.                                      *)
LEMMA AddChar ==
  ASSUME NEW runs \in Seq(Runs), runs # <<>>, NEW g \in Cells
  PROVE  LET n == Len(runs)
             runs2 == Screen!Extend(runs, g)
             x == runs[n]
             y == runs2[n]
         IN  /\ runs2 \in Seq(Runs) /\ Len(runs2) = n /\ n \in Nat \ {0}
             /\ \A j \in 1 .. (n - 1) : runs2[j] = runs[j]
             /\ y.row = x.row /\ y.start = x.start /\ Len(y.chars) = Len(x.chars) + 1
             /\ y.chars[Len(x.chars) + 1] = g
             /\ \A i \in 1 .. Len(x.chars) : y.chars[i] = x.chars[i]
<1> DEFINE n == Len(runs)
           x == runs[n]
           q == Append(x.chars, g)
           y == [x EXCEPT !.chars = q]
           runs2 == Screen!Extend(runs, g)
<1>1. n \in Nat \ {0} /\ n \in 1 .. n /\ x \in Runs
  OBVIOUS
<1>2. runs2 = [runs EXCEPT ![n] = y]
  BY DEF Screen!Extend
<1> HIDE DEF x
<1>3. x.chars \in Seq(Cells)
  BY <1>1 DEF Runs
<1>4. /\ q \in Seq(Cells) /\ Len(q) = Len(x.chars) + 1 /\ q[Len(x.chars) + 1] = g
      /\ \A i \in 1 .. Len(x.chars) : q[i] = x.chars[i]
  BY <1>3
<1> HIDE DEF q
<1>5. y \in Runs /\ y.row = x.row /\ y.start = x.start /\ y.chars = q
  BY <1>1, <1>4 DEF Runs
<1> HIDE DEF y, n
<1>6. /\ runs2 \in Seq(Runs) /\ Len(runs2) = n /\ runs2[n] = y
      /\ \A j \in 1 .. (n - 1) : runs2[j] = runs[j]
  BY <1>1, <1>2, <1>5 DEF n
<1> QED
  BY <1>1, <1>4, <1>5, <1>6 DEF x, n

(* One cell of the diff.                                                   *)
LEMMA DiffCellIs ==
  ASSUME NEW m \in Nat \ {0}, NEW n \in Nat \ {0}, NEW W, NEW now \in Grids(m, n), NEW old,
         Narrow(now, m, n, W), NEW runs0, NEW r \in 1 .. n, NEW c \in 1 .. m,
         NEW a \in DiffStates, DiffIs(a, runs0, r, c - 1, now, old, m, n, W)
  PROVE  LET b == Screen!DiffCell(a, r, now[r], OldRow(old, r), c)
         IN  b \in DiffStates /\ DiffIs(b, runs0, r, c, now, old, m, n, W)
<1> DEFINE b == Screen!DiffCell(a, r, now[r], OldRow(old, r), c)
           g == now[r][c]
           len == Len(a.runs)
           Ch(k) == Screen!Changed(now[r], OldRow(old, r), k)
<1>1. g \in Cells /\ (r \notin W => g # "w" /\ g # ">") /\ r \in Nat \ {0} /\ c \in Nat \ {0}
  BY DEF Grids, Narrow, NarrowRow
<1>2. a.runs \in Seq(Runs) /\ a.open \in BOOLEAN /\ len \in Nat
  BY DEF DiffStates
<1>3. PICK same \in BOOLEAN : same <=> a.open /\ Screen!Style(g) = Screen!Style(a.runs[len].chars[1])
  OBVIOUS
<1>4. b = IF g = ">" THEN a
          ELSE IF ~Ch(c) THEN [a EXCEPT !.open = FALSE]
          ELSE IF same THEN [a EXCEPT !.runs = Screen!Extend(a.runs, g)]
          ELSE [runs |-> Append(a.runs, Screen!RunFrom(r, c, g)), open |-> TRUE]
  BY <1>3 DEF Screen!DiffCell, Screen!Cont
<1>5. /\ AllCopy(a.runs, now, m, n, W)
      /\ \A s \in 1 .. n, k \in 1 .. m : Covered(runs0, s, k) => Covered(a.runs, s, k)
      /\ r \notin W => \A k \in 1 .. (c - 1) : Ch(k) => Covered(a.runs, r, k)
      /\ a.open => /\ a.runs # <<>> /\ a.runs[len].row = r
                   /\ r \notin W => a.runs[len].start + Len(a.runs[len].chars) = c
  <2>1. (c - 1) + 1 = c
    BY <1>1
  <2> QED
    BY <2>1 DEF DiffIs
<1> SUFFICES b \in DiffStates /\ DiffIs(b, runs0, r, c, now, old, m, n, W)
  OBVIOUS
<1> HIDE DEF b, g, len, Ch
\* It is enough to say what is covered, and where an open run ends.
<1>6. ASSUME b \in DiffStates, AllCopy(b.runs, now, m, n, W),
             \A s \in 1 .. n, k \in 1 .. m : Covered(a.runs, s, k) => Covered(b.runs, s, k),
             r \notin W /\ Ch(c) => Covered(b.runs, r, c),
             b.open => /\ b.runs # <<>> /\ b.runs[Len(b.runs)].row = r
                       /\ r \notin W => b.runs[Len(b.runs)].start
                                          + Len(b.runs[Len(b.runs)].chars) = c + 1
      PROVE  b \in DiffStates /\ DiffIs(b, runs0, r, c, now, old, m, n, W)
  <2>1. ASSUME r \notin W, NEW k \in 1 .. c, Ch(k) PROVE Covered(b.runs, r, k)
    <3>1. k = c \/ k \in 1 .. (c - 1)
      BY <1>1
    <3>2. k \in 1 .. m
      OBVIOUS
    <3> QED
      BY <1>5, <1>6, <2>1, <3>1, <3>2
  <2>2. r \notin W => \A k \in 1 .. c : Screen!Changed(now[r], OldRow(old, r), k)
                                         => Covered(b.runs, r, k)
    BY <2>1 DEF Ch
  <2>3. \A s \in 1 .. n, k \in 1 .. m : Covered(runs0, s, k) => Covered(b.runs, s, k)
    BY <1>5, <1>6
  <2> QED
    BY <1>6, <2>2, <2>3 DEF DiffIs
<1>7. CASE g = ">"
  <2>1. b = a /\ r \in W
    BY <1>1, <1>4, <1>7
  <2> QED
    BY <1>5, <1>6, <2>1 DEF len
<1>8. CASE g # ">" /\ ~Ch(c)
  <2>1. b = [a EXCEPT !.open = FALSE]
    BY <1>4, <1>8
  <2>2. b \in DiffStates /\ b.runs = a.runs /\ ~b.open
    BY <2>1 DEF DiffStates
  <2> QED
    BY <1>5, <1>6, <1>8, <2>2
<1>9. CASE g # ">" /\ Ch(c) /\ same
  <2> DEFINE q == Screen!Extend(a.runs, g)
             x == a.runs[len]
             y == q[len]
             l == Len(x.chars)
  <2>1. a.runs # <<>> /\ x.row = r /\ (r \notin W => x.start + l = c)
    BY <1>3, <1>5, <1>9
  <2>2. /\ q \in Seq(Runs) /\ Len(q) = len /\ len \in Nat \ {0}
        /\ \A j \in 1 .. (len - 1) : q[j] = a.runs[j]
        /\ y.row = x.row /\ y.start = x.start /\ Len(y.chars) = l + 1
        /\ y.chars[l + 1] = g
        /\ \A i \in 1 .. l : y.chars[i] = x.chars[i]
    BY <1>1, <1>2, <2>1, AddChar, SMTT(40) DEF len
  <2>3. b = [a EXCEPT !.runs = q]
    BY <1>4, <1>9
  <2>3a. x \in Runs
    BY <1>2, <2>2 DEF len
  <2> HIDE DEF q, x, y
  <2>4. x \in Runs /\ x.start \in Nat /\ l \in Nat
    BY <2>3a DEF Runs
  <2> HIDE DEF l
  <2>5. b \in DiffStates /\ b.runs = q /\ b.open = a.open
    BY <2>2, <2>3 DEF DiffStates
  <2>6. AllCopy(q, now, m, n, W)
    <3>1. ASSUME NEW j \in 1 .. (len - 1) PROVE Copies(q[j], now, m, n, W)
      <4>1. j \in 1 .. len /\ q[j] = a.runs[j]
        BY <2>2
      <4> QED
        BY <1>5, <4>1 DEF AllCopy, len
    <3>2. Copies(y, now, m, n, W)
      <4> SUFFICES ASSUME r \notin W, NEW i \in 1 .. Len(y.chars)
                   PROVE  /\ y.start + i - 1 <= m
                          /\ y.chars[i] = now[r][y.start + i - 1]
        BY <2>1, <2>2 DEF Copies
      <4>1. CASE i = l + 1
        <5>1. y.start + i - 1 = c
          BY <1>1, <2>1, <2>2, <2>4, <4>1
        <5> QED
          BY <1>1, <2>2, <4>1, <5>1 DEF g
      <4>2. CASE i \in 1 .. l
        <5>1. Copies(x, now, m, n, W)
          BY <1>5, <2>2 DEF AllCopy, len, x
        <5> QED
          BY <2>1, <2>2, <4>2, <5>1 DEF Copies, l
      <4> QED
        BY <2>2, <2>4, <4>1, <4>2
    <3>3. \A j \in 1 .. len : j = len \/ j \in 1 .. (len - 1)
      BY <2>2
    <3> QED
      BY <2>2, <3>1, <3>2, <3>3 DEF AllCopy, y
  <2>7. ASSUME NEW s \in 1 .. n, NEW k \in 1 .. m, Covered(a.runs, s, k)
        PROVE  Covered(q, s, k)
    <3>1. PICK j \in 1 .. len : Covers(a.runs[j], s, k)
      BY <2>7 DEF Covered, len
    <3>2. CASE j = len
      <4>1. Covers(y, s, k)
        <5>1. Covers(x, s, k)
          BY <3>1, <3>2 DEF x
        <5>2. x.row = s /\ x.start <= k /\ k < x.start + l
          BY <5>1 DEF Covers, l
        <5> QED
          BY <2>2, <2>4, <5>2 DEF Covers
      <4> QED
        BY <2>2, <3>2, <4>1 DEF Covered, y
    <3>3. CASE j # len
      <4>1. j \in 1 .. (len - 1)
        BY <2>2, <3>3
      <4> QED
        BY <2>2, <3>1, <4>1 DEF Covered
    <3> QED
      BY <3>2, <3>3
  <2>8. r \notin W => Covered(q, r, c)
    <3> SUFFICES ASSUME r \notin W PROVE Covered(q, r, c)
      OBVIOUS
    <3>1. Covers(y, r, c)
      BY <1>1, <2>1, <2>2, <2>4 DEF Covers
    <3> QED
      BY <2>2, <3>1 DEF Covered, y
  <2>9. q # <<>> /\ y.row = r /\ (r \notin W => y.start + Len(y.chars) = c + 1)
    BY <1>1, <2>1, <2>2, <2>4, SMTT(40)
  <2> QED
    BY <1>6, <2>2, <2>5, <2>6, <2>7, <2>8, <2>9 DEF y
<1>10. CASE g # ">" /\ Ch(c) /\ ~same
  <2> DEFINE x == Screen!RunFrom(r, c, g)
             q == Append(a.runs, x)
  <2>1. /\ x \in Runs /\ x.row = r /\ x.start = c /\ Len(x.chars) = 1 /\ x.chars[1] = g
        /\ q \in Seq(Runs) /\ Len(q) = len + 1 /\ q[len + 1] = x
        /\ \A j \in 1 .. len : q[j] = a.runs[j]
    BY <1>1, <1>2, AddRun DEF len
  <2>2. b = [runs |-> q, open |-> TRUE]
    BY <1>4, <1>10
  <2> HIDE DEF x, q
  <2>3. b \in DiffStates /\ b.runs = q /\ b.open
    BY <2>1, <2>2 DEF DiffStates
  <2>4. \A j \in 1 .. (len + 1) : j = len + 1 \/ j \in 1 .. len
    BY <1>2
  <2>5. AllCopy(q, now, m, n, W)
    <3>1. Copies(x, now, m, n, W)
      <4> SUFFICES ASSUME NEW i \in 1 .. Len(x.chars)
                   PROVE  /\ x.start + i - 1 <= m
                          /\ x.chars[i] = now[r][x.start + i - 1]
        BY <2>1 DEF Copies
      <4>1. i = 1 /\ x.start + i - 1 = c
        BY <1>1, <2>1
      <4> QED
        BY <1>1, <2>1, <4>1 DEF g
    <3> QED
      BY <1>5, <2>1, <2>4, <3>1 DEF AllCopy, len
  <2>6. ASSUME NEW s \in 1 .. n, NEW k \in 1 .. m, Covered(a.runs, s, k)
        PROVE  Covered(q, s, k)
    <3>1. PICK j \in 1 .. len : Covers(a.runs[j], s, k)
      BY <2>6 DEF Covered, len
    <3>2. j \in 1 .. Len(q) /\ q[j] = a.runs[j]
      BY <1>2, <2>1
    <3> QED
      BY <3>1, <3>2 DEF Covered
  <2>7. Covered(q, r, c)
    <3>1. Covers(x, r, c)
      BY <1>1, <2>1 DEF Covers
    <3>2. len + 1 \in 1 .. Len(q)
      BY <1>2, <2>1
    <3> QED
      BY <2>1, <3>1, <3>2 DEF Covered
  <2>8. q # <<>> /\ q[Len(q)] = x /\ x.start + Len(x.chars) = c + 1
    BY <1>1, <1>2, <2>1
  <2> QED
    BY <1>6, <2>1, <2>3, <2>5, <2>6, <2>7, <2>8
<1> QED
  BY <1>7, <1>8, <1>9, <1>10

\* An open run is there.
OpenStates == {a \in DiffStates : a.open => a.runs # <<>>}

(* One cell of the diff gives a state of the diff.                         *)
LEMMA DiffCellType ==
  ASSUME NEW m \in Nat \ {0}, NEW line \in [1 .. m -> Cells], NEW old, NEW r \in Nat \ {0},
         NEW c \in 1 .. m, NEW a \in OpenStates
  PROVE  Screen!DiffCell(a, r, line, old, c) \in OpenStates
<1> DEFINE b == Screen!DiffCell(a, r, line, old, c)
           g == line[c]
<1>1. a \in DiffStates /\ a.runs \in Seq(Runs) /\ a.open \in BOOLEAN /\ (a.open => a.runs # <<>>)
  BY DEF OpenStates, DiffStates
<1>2. g \in Cells /\ c \in Nat \ {0}
  OBVIOUS
<1> DEFINE q == Screen!Extend(a.runs, g)
           z == Append(a.runs, Screen!RunFrom(r, c, g))
<1>3. a.open => q \in Seq(Runs) /\ q # <<>>
  <2> SUFFICES ASSUME a.open PROVE q \in Seq(Runs) /\ q # <<>>
    OBVIOUS
  <2>1. q \in Seq(Runs) /\ Len(q) = Len(a.runs) /\ Len(a.runs) \in Nat \ {0}
    BY <1>1, <1>2, AddChar
  <2> HIDE DEF q
  <2> QED
    BY <2>1
<1>4. z \in Seq(Runs) /\ z # <<>>
  <2>1. z \in Seq(Runs) /\ Len(z) = Len(a.runs) + 1
    BY <1>1, <1>2, AddRun
  <2> HIDE DEF z
  <2> QED
    BY <1>1, <2>1
<1>5. \/ b = a \/ b = [a EXCEPT !.open = FALSE]
      \/ a.open /\ b = [a EXCEPT !.runs = q]
      \/ b = [runs |-> z, open |-> TRUE]
  BY DEF Screen!DiffCell
<1> SUFFICES b \in OpenStates
  OBVIOUS
<1> HIDE DEF b, q, z
<1>6. CASE b = a
  BY <1>6
<1>7. CASE b = [a EXCEPT !.open = FALSE]
  BY <1>1, <1>7 DEF OpenStates, DiffStates
<1>8. CASE a.open /\ b = [a EXCEPT !.runs = q]
  BY <1>1, <1>3, <1>8 DEF OpenStates, DiffStates
<1>9. CASE b = [runs |-> z, open |-> TRUE]
  BY <1>4, <1>9 DEF OpenStates, DiffStates
<1> QED
  BY <1>5, <1>6, <1>7, <1>8, <1>9

(* One row of the diff: every changed cell of a narrow row is covered.     *)
LEMMA DiffRowIs ==
  ASSUME NEW m \in Nat \ {0}, NEW n \in Nat \ {0}, NEW W, NEW now \in Grids(m, n), NEW old,
         Narrow(now, m, n, W), NEW r \in 1 .. n,
         NEW runs0 \in Seq(Runs), AllCopy(runs0, now, m, n, W)
  PROVE  LET runs == Screen!DiffRow(runs0, r, now[r], OldRow(old, r))
         IN  /\ runs \in Seq(Runs) /\ AllCopy(runs, now, m, n, W)
             /\ \A s \in 1 .. n, k \in 1 .. m : Covered(runs0, s, k) => Covered(runs, s, k)
             /\ r \notin W => \A k \in 1 .. m : Screen!Changed(now[r], OldRow(old, r), k)
                                                  => Covered(runs, r, k)
<1> DEFINE X == OpenStates
           b == [runs |-> runs0, open |-> FALSE]
           line == now[r]
           was == OldRow(old, r)
           acc[c \in 0 .. m] == IF c = 0 THEN b
                                ELSE Screen!DiffCell(acc[c - 1], r, line, was, c)
           g == [p \in X \X (1 .. m) |-> Screen!DiffCell(p[1], r, line, was, p[2])]
           Inv(a, c) == DiffIs(a, runs0, r, c, now, old, m, n, W)
<1>1. m \in Nat /\ b \in X
  BY DEF OpenStates, DiffStates
<1>1a. line \in [1 .. m -> Cells] /\ Len(line) = m /\ r \in Nat \ {0}
  BY GridSize
<1>2. ASSUME NEW x \in X, NEW i \in 1 .. m
      PROVE  Screen!DiffCell(x, r, line, was, i) \in X
  <2> HIDE DEF line, was
  <2> QED
    BY <1>1a, DiffCellType
<1>2a. Inv(b, 0)
  <2>1. b.runs = runs0 /\ ~b.open
    OBVIOUS
  <2> HIDE DEF b
  <2> QED
    BY <2>1 DEF DiffIs
<1>2b. ASSUME NEW x \in X, NEW i \in 1 .. m, Inv(x, i - 1)
       PROVE  Inv(Screen!DiffCell(x, r, line, was, i), i)
  BY <1>2b, DiffCellIs DEF OpenStates
<1>2c. Screen!DiffRow(runs0, r, line, was) = acc[m].runs
  BY <1>1a DEF Screen!DiffRow
<1> HIDE DEF Inv, line, was
<1> HIDE DEF X, b
<1>3. IsStep(g, X, m)
  BY <1>2 DEF IsStep
<1>4. PICK f : IsRun(f, m, X, b, g)
  <2> HIDE DEF g
  <2> QED
    BY <1>1, <1>3, LoopExists
<1>5. f = [i \in 0 .. m |-> IF i = 0 THEN b ELSE Screen!DiffCell(f[i - 1], r, line, was, i)]
  <2>1. ASSUME NEW i \in 1 .. m
        PROVE  f[i] = Screen!DiffCell(f[i - 1], r, line, was, i)
    <3>1. f[i - 1] \in X /\ f[i] = g[<<f[i - 1], i>>]
      <4> HIDE DEF g
      <4>1. i - 1 \in 0 .. m
        BY <1>1
      <4> QED
        BY <1>4, <4>1 DEF IsRun
    <3> QED
      BY <3>1
  <2> HIDE DEF g
  <2> QED
    BY <1>1, <1>4, <2>1 DEF IsRun
<1>6. acc = [i \in 0 .. m |-> IF i = 0 THEN b ELSE Screen!DiffCell(acc[i - 1], r, line, was, i)]
  BY <1>5, Zenon
<1>7. acc[m] \in X /\ Inv(acc[m], m)
  <2> HIDE DEF acc
  <2> DEFINE S == {i \in 0 .. m : acc[i] \in X /\ Inv(acc[i], i)}
  <2>1. 0 \in S
    <3>1. acc[0] = b /\ 0 \in 0 .. m
      BY <1>1, <1>6
    <3>2. Inv(b, 0)
      BY <1>2a
    <3> QED
      BY <1>1, <3>1, <3>2
  <2>2. ASSUME NEW i \in 1 .. m, i - 1 \in S PROVE i \in S
    <3> DEFINE x == acc[i - 1]
               y == acc[i]
    <3>1. x \in X /\ Inv(x, i - 1) /\ i \in 0 .. m
      BY <1>1, <2>2
    <3>2. y = Screen!DiffCell(x, r, line, was, i)
      BY <1>1, <1>6, <3>1
    <3> HIDE DEF x, y
    <3>3. y \in X /\ Inv(y, i)
      BY <1>2, <1>2b, <3>1, <3>2
    <3> QED
      BY <3>1, <3>3 DEF y
  <2>3. \A i \in 0 .. m : i \in S
    <3> HIDE DEF S
    <3> QED
      BY <1>1, <2>1, <2>2, UpTo
  <2> QED
    BY <1>1, <2>3
<1> DEFINE z == acc[m].runs
           q == acc[m]
<1> HIDE DEF acc
<1>8. q \in DiffStates /\ z \in Seq(Runs)
  <2> HIDE DEF q
  <2>1. q \in DiffStates
    BY <1>7 DEF X, OpenStates, q
  <2> QED
    BY <2>1 DEF DiffStates, q
<1>9. /\ z \in Seq(Runs) /\ AllCopy(z, now, m, n, W)
      /\ \A s \in 1 .. n, k \in 1 .. m : Covered(runs0, s, k) => Covered(z, s, k)
      /\ r \notin W => \A k \in 1 .. m : Screen!Changed(line, was, k) => Covered(z, r, k)
  BY <1>7, <1>8 DEF DiffIs, Inv, line, was
<1> HIDE DEF z
<1> QED
  BY <1>2c, <1>9 DEF line, was, z

\* Every changed cell of the first i rows, if they are narrow, is covered.
RowsCovered(runs, i, now, old, m, W) ==
  \A s \in 1 .. i : s \notin W =>
    \A k \in 1 .. m : Screen!Changed(now[s], OldRow(old, s), k) => Covered(runs, s, k)

(* The diff of two grids: on narrow rows the runs are made of cells of the *)
(* new grid and cover every cell that changed.                             *)
LEMMA DiffRunsAre ==
  ASSUME NEW m \in Nat \ {0}, NEW n \in Nat \ {0}, NEW W, NEW now \in Grids(m, n), NEW old,
         Narrow(now, m, n, W)
  PROVE  LET runs == Screen!ComputeDiffRuns(now, old)
         IN  /\ runs \in Seq(Runs) /\ AllCopy(runs, now, m, n, W)
             /\ RowsCovered(runs, n, now, old, m, W)
<1> DEFINE X == {q \in Seq(Runs) : AllCopy(q, now, m, n, W)}
           b == <<>>
           acc[r \in 0 .. n] == IF r = 0 THEN b
                                ELSE Screen!DiffRow(acc[r - 1], r, now[r],
                                                    IF r <= Len(old) THEN old[r] ELSE <<>>)
           g == [p \in X \X (1 .. n) |->
                   Screen!DiffRow(p[1], p[2], now[p[2]],
                                  IF p[2] <= Len(old) THEN old[p[2]] ELSE <<>>)]
           Inv(q, i) == RowsCovered(q, i, now, old, m, W)
<1>1. n \in Nat /\ b \in X
  BY DEF AllCopy
<1>2x. ASSUME NEW x \in X, NEW i \in 1 .. n
       PROVE  LET y == Screen!DiffRow(x, i, now[i], IF i <= Len(old) THEN old[i] ELSE <<>>)
              IN  /\ y \in X
                  /\ \A s \in 1 .. n, k \in 1 .. m : Covered(x, s, k) => Covered(y, s, k)
                  /\ i \notin W => \A k \in 1 .. m : Screen!Changed(now[i], OldRow(old, i), k)
                                                       => Covered(y, i, k)
  <2> DEFINE y == Screen!DiffRow(x, i, now[i], OldRow(old, i))
  <2>1. x \in Seq(Runs) /\ AllCopy(x, now, m, n, W)
    OBVIOUS
  <2>2. /\ y \in Seq(Runs) /\ AllCopy(y, now, m, n, W)
        /\ \A s \in 1 .. n, k \in 1 .. m : Covered(x, s, k) => Covered(y, s, k)
        /\ i \notin W => \A k \in 1 .. m : Screen!Changed(now[i], OldRow(old, i), k)
                                             => Covered(y, i, k)
    BY <2>1, DiffRowIs
  <2>3. y = Screen!DiffRow(x, i, now[i], IF i <= Len(old) THEN old[i] ELSE <<>>)
    BY DEF OldRow
  <2> HIDE DEF y
  <2> QED
    BY <2>2, <2>3
<1>2. ASSUME NEW x \in X, NEW i \in 1 .. n
      PROVE  Screen!DiffRow(x, i, now[i], IF i <= Len(old) THEN old[i] ELSE <<>>) \in X
  BY <1>2x
<1>2a. Inv(b, 0)
  BY DEF RowsCovered
<1>2b. ASSUME NEW x \in X, NEW i \in 1 .. n, Inv(x, i - 1), NEW y,
              y = Screen!DiffRow(x, i, now[i], IF i <= Len(old) THEN old[i] ELSE <<>>)
       PROVE  Inv(y, i)
  <2>1. /\ \A s \in 1 .. n, k \in 1 .. m : Covered(x, s, k) => Covered(y, s, k)
        /\ i \notin W => \A k \in 1 .. m : Screen!Changed(now[i], OldRow(old, i), k)
                                             => Covered(y, i, k)
    BY <1>2b, <1>2x
  <2>2. \A s \in 1 .. i : s = i \/ s \in 1 .. (i - 1)
    OBVIOUS
  <2> QED
    BY <1>2b, <2>1, <2>2 DEF RowsCovered
<1>2d. Len(now) = n
  BY GridSize
<1>2c. Screen!ComputeDiffRuns(now, old) = acc[n]
  BY <1>2d DEF Screen!ComputeDiffRuns
<1> HIDE DEF Inv
<1> HIDE DEF X, b
<1>3. IsStep(g, X, n)
  BY <1>2 DEF IsStep
<1>4. PICK f : IsRun(f, n, X, b, g)
  <2> HIDE DEF g
  <2> QED
    BY <1>1, <1>3, LoopExists
<1>5. f = [i \in 0 .. n |-> IF i = 0 THEN b ELSE Screen!DiffRow(f[i - 1], i, now[i], IF i <= Len(old) THEN old[i] ELSE <<>>)]
  <2>1. ASSUME NEW i \in 1 .. n
        PROVE  f[i] = Screen!DiffRow(f[i - 1], i, now[i], IF i <= Len(old) THEN old[i] ELSE <<>>)
    <3>1. f[i - 1] \in X /\ f[i] = g[<<f[i - 1], i>>]
      <4> HIDE DEF g
      <4>1. i - 1 \in 0 .. n
        BY <1>1
      <4> QED
        BY <1>4, <4>1 DEF IsRun
    <3> QED
      BY <3>1
  <2> HIDE DEF g
  <2> QED
    BY <1>1, <1>4, <2>1 DEF IsRun
<1>6. acc = [i \in 0 .. n |-> IF i = 0 THEN b ELSE Screen!DiffRow(acc[i - 1], i, now[i], IF i <= Len(old) THEN old[i] ELSE <<>>)]
  BY <1>5, Zenon
<1>7. acc[n] \in X /\ Inv(acc[n], n)
  <2> HIDE DEF acc
  <2> DEFINE S == {i \in 0 .. n : acc[i] \in X /\ Inv(acc[i], i)}
  <2>1. 0 \in S
    <3>1. acc[0] = b /\ 0 \in 0 .. n
      BY <1>1, <1>6
    <3>2. Inv(b, 0)
      BY <1>2a DEF b
    <3> QED
      BY <1>1, <3>1, <3>2
  <2>2. ASSUME NEW i \in 1 .. n, i - 1 \in S PROVE i \in S
    <3> DEFINE x == acc[i - 1]
               y == acc[i]
    <3>1. x \in X /\ Inv(x, i - 1) /\ i \in 0 .. n
      BY <1>1, <2>2
    <3>2. y = Screen!DiffRow(x, i, now[i], IF i <= Len(old) THEN old[i] ELSE <<>>)
      BY <1>1, <1>6, <3>1
    <3> HIDE DEF x, y
    <3>3. y \in X /\ Inv(y, i)
      BY <1>2, <1>2b, <3>1, <3>2
    <3> QED
      BY <3>1, <3>3 DEF y
  <2>3. \A i \in 0 .. n : i \in S
    <3> HIDE DEF S
    <3> QED
      BY <1>1, <2>1, <2>2, UpTo
  <2> QED
    BY <1>1, <2>3
<1> DEFINE z == acc[n]
<1> HIDE DEF acc
<1>8. z \in Seq(Runs) /\ AllCopy(z, now, m, n, W) /\ RowsCovered(z, n, now, old, m, W)
  BY <1>7 DEF X, Inv
<1> HIDE DEF z
<1> QED
  BY <1>2c, <1>8 DEF z

-----------------------------------------------------------------------------
(* The client's screen: the diff applied.                                  *)

SetCell(h, g, r, c, v) == h = [g EXCEPT ![r][c] = v]

(* A grid with one cell replaced.                                          *)
LEMMA PutCell ==
  ASSUME NEW m \in Nat \ {0}, NEW n \in Nat \ {0}, NEW g \in Grids(m, n),
         NEW r \in 1 .. n, NEW c \in 1 .. m, NEW v \in Cells, NEW h, SetCell(h, g, r, c, v)
  PROVE  /\ h \in Grids(m, n) /\ h[r][c] = v
         /\ \A s \in 1 .. n : s # r => h[s] = g[s]
         /\ \A k \in 1 .. m : k # c => h[r][k] = g[r][k]
<1> DEFINE line == [g[r] EXCEPT ![c] = v]
<1>1. h = [g EXCEPT ![r] = line]
  BY DEF SetCell
<1>2. g[r] \in [1 .. m -> Cells]
  BY DEF Grids
<1>3. line \in [1 .. m -> Cells] /\ line[c] = v /\ \A k \in 1 .. m : k # c => line[k] = g[r][k]
  BY <1>2
<1> HIDE DEF line
<1>4. h \in Grids(m, n) /\ h[r] = line /\ \A s \in 1 .. n : s # r => h[s] = g[s]
  BY <1>1, <1>3 DEF Grids
<1> QED
  BY <1>3, <1>4

\* h is g with the i-th character of x put in its cell, if it is narrow; the other rows
\* are those of g.
PutOne(h, g, x, i, m, n) ==
  /\ \A s \in 1 .. n : s # x.row => h[s] = g[s]
  /\ x.chars[i] # "w" => \A k \in 1 .. m : h[x.row][k] = IF k = x.start + i - 1 THEN x.chars[i]
                                                          ELSE g[x.row][k]

(* One character of a run changes its row only, and if it is narrow its    *)
(* own cell only.                                                          *)
LEMMA PutCharIs ==
  ASSUME NEW m \in Nat \ {0}, NEW n \in Nat \ {0}, NEW g \in Grids(m, n), NEW x \in Runs,
         x.row <= n, NEW i \in 1 .. Len(x.chars)
  PROVE  /\ Screen!PutChar(g, x, i) \in Grids(m, n)
         /\ PutOne(Screen!PutChar(g, x, i), g, x, i, m, n)
<1> DEFINE h == Screen!PutChar(g, x, i)
           c == x.start + i - 1
           v == x.chars[i]
           r == x.row
           one == IF c > m THEN g ELSE [g EXCEPT ![r][c] = v]
<1>1. r \in 1 .. n /\ v \in Cells /\ c \in Nat \ {0} /\ x.start \in Nat \ {0}
  BY DEF Runs
<1>2. Screen!ColsOf(g) = m
  BY GridSize
<1> HIDE DEF r, v, c
<1>3. /\ one \in Grids(m, n) /\ \A s \in 1 .. n : s # r => one[s] = g[s]
      /\ \A k \in 1 .. m : one[r][k] = IF k = c THEN v ELSE g[r][k]
  <2>1. CASE c > m
    BY <1>1, <2>1
  <2>2. CASE ~(c > m)
    <3>1. c \in 1 .. m /\ one = [g EXCEPT ![r][c] = v]
      BY <1>1, <2>2
    <3>2. SetCell(one, g, r, c, v)
      BY <3>1 DEF SetCell
    <3>3. c \in 1 .. m
      BY <3>1
    <3> HIDE DEF one
    <3>4. /\ one \in Grids(m, n) /\ one[r][c] = v /\ \A s \in 1 .. n : s # r => one[s] = g[s]
          /\ \A k \in 1 .. m : k # c => one[r][k] = g[r][k]
      BY <1>1, <3>2, <3>3, PutCell
    <3> QED
      BY <3>4
  <2> QED
    BY <2>1, <2>2
<1>4. Screen!ColsOf(one) = m
  BY <1>3, GridSize
<1>5. h = IF v = "w" /\ c + 1 <= m THEN [one EXCEPT ![r][c + 1] = ">"] ELSE one
  BY <1>2, <1>4 DEF Screen!PutChar, Screen!Wide, Screen!Cont, c, v, r
<1> SUFFICES /\ h \in Grids(m, n)
             /\ \A s \in 1 .. n : s # r => h[s] = g[s]
             /\ v # "w" => \A k \in 1 .. m : h[r][k] = IF k = c THEN v ELSE g[r][k]
  BY DEF PutOne, r, v, c
<1> HIDE DEF h, one
<1>6. CASE v = "w" /\ c + 1 <= m
  <2>1. c + 1 \in 1 .. m /\ ">" \in Cells
    BY <1>1, <1>6 DEF Cells
  <2>2. h \in Grids(m, n) /\ \A s \in 1 .. n : s # r => h[s] = one[s]
    <3>1. SetCell(h, one, r, c + 1, ">")
      BY <1>5, <1>6 DEF SetCell
    <3> QED
      BY <1>1, <1>3, <2>1, <3>1, PutCell
  <2> QED
    BY <1>3, <1>6, <2>2
<1>7. CASE ~(v = "w" /\ c + 1 <= m)
  BY <1>3, <1>5, <1>7
<1> QED
  BY <1>6, <1>7

\* After i characters of x: its row where no character is wide, and the other rows.
PutIs(h, g, x, i, m, n) ==
  /\ \A s \in 1 .. n : s # x.row => h[s] = g[s]
  /\ (\A j \in 1 .. i : x.chars[j] # "w") =>
       \A k \in 1 .. m : IF x.start <= k /\ k < x.start + i
                         THEN h[x.row][k] = x.chars[k - x.start + 1]
                         ELSE h[x.row][k] = g[x.row][k]

(* A run applied to a grid.                                                *)
LEMMA ApplyRunIs ==
  ASSUME NEW m \in Nat \ {0}, NEW n \in Nat \ {0}, NEW g \in Grids(m, n), NEW x \in Runs,
         x.row <= n
  PROVE  LET h == Screen!ApplyRun(g, x)
         IN  h \in Grids(m, n) /\ PutIs(h, g, x, Len(x.chars), m, n)
<1> DEFINE X == Grids(m, n)
           b == g
           e == Len(x.chars)
           put[i \in 0 .. e] == IF i = 0 THEN b ELSE Screen!PutChar(put[i - 1], x, i)
           step == [p \in X \X (1 .. e) |-> Screen!PutChar(p[1], x, p[2])]
           Inv(h, i) == PutIs(h, g, x, i, m, n)
<1>0. x.chars \in Seq(Cells) /\ x.row \in 1 .. n /\ x.start \in Nat \ {0}
  BY DEF Runs
<1>1. e \in Nat /\ b \in X
  BY <1>0
<1>2. ASSUME NEW h \in X, NEW i \in 1 .. e
      PROVE  Screen!PutChar(h, x, i) \in X
  BY PutCharIs
<1>2a. Inv(b, 0)
  BY <1>0 DEF PutIs
<1>2b. ASSUME NEW h \in X, NEW i \in 1 .. e, Inv(h, i - 1)
       PROVE  Inv(Screen!PutChar(h, x, i), i)
  <2> DEFINE z == Screen!PutChar(h, x, i)
             c == x.start + i - 1
  <2>1. /\ \A s \in 1 .. n : s # x.row => z[s] = h[s]
        /\ x.chars[i] # "w" => \A k \in 1 .. m : z[x.row][k] = IF k = c THEN x.chars[i]
                                                               ELSE h[x.row][k]
    <3>1. PutOne(z, h, x, i, m, n)
      BY PutCharIs
    <3> HIDE DEF z
    <3> QED
      BY <3>1 DEF PutOne
  <2> HIDE DEF z
  <2>2. ASSUME \A j \in 1 .. i : x.chars[j] # "w", NEW k \in 1 .. m
        PROVE  IF x.start <= k /\ k < x.start + i
               THEN z[x.row][k] = x.chars[k - x.start + 1] ELSE z[x.row][k] = g[x.row][k]
    <3>1. x.chars[i] # "w" /\ \A j \in 1 .. (i - 1) : x.chars[j] # "w"
      BY <1>1, <2>2
    <3>2. z[x.row][k] = IF k = c THEN x.chars[i] ELSE h[x.row][k]
      BY <2>1, <3>1
    <3>3. IF x.start <= k /\ k < x.start + (i - 1)
          THEN h[x.row][k] = x.chars[k - x.start + 1] ELSE h[x.row][k] = g[x.row][k]
      BY <1>2b, <3>1 DEF PutIs
    <3>4. CASE k = c
      <4>1. k - x.start + 1 = i /\ x.start <= k /\ k < x.start + i
        BY <1>0, <1>1, <3>4
      <4> QED
        BY <3>2, <3>4, <4>1
    <3>5. CASE k # c
      <4>1. (x.start <= k /\ k < x.start + i) <=> (x.start <= k /\ k < x.start + (i - 1))
        BY <1>0, <1>1, <3>5
      <4> QED
        BY <3>2, <3>3, <3>5, <4>1
    <3> QED
      BY <3>4, <3>5
  <2>3. \A s \in 1 .. n : s # x.row => z[s] = g[s]
    BY <1>2b, <2>1 DEF PutIs
  <2>4. Inv(z, i)
    BY <2>2, <2>3 DEF PutIs
  <2> QED
    BY <2>4 DEF z
<1>2c. Screen!ApplyRun(g, x) = put[e]
  <2>1. ~(x.row > Screen!RowsOf(g))
    BY <1>0, GridSize
  <2> QED
    BY <2>1 DEF Screen!ApplyRun
<1> HIDE DEF Inv, e
<1> HIDE DEF X, b
<1>3. IsStep(step, X, e)
  BY <1>2 DEF IsStep
<1>4. PICK f : IsRun(f, e, X, b, step)
  <2> HIDE DEF step
  <2> QED
    BY <1>1, <1>3, LoopExists
<1>5. f = [i \in 0 .. e |-> IF i = 0 THEN b ELSE Screen!PutChar(f[i - 1], x, i)]
  <2>1. ASSUME NEW i \in 1 .. e
        PROVE  f[i] = Screen!PutChar(f[i - 1], x, i)
    <3>1. f[i - 1] \in X /\ f[i] = step[<<f[i - 1], i>>]
      <4> HIDE DEF step
      <4>1. i - 1 \in 0 .. e
        BY <1>1
      <4> QED
        BY <1>4, <4>1 DEF IsRun
    <3> QED
      BY <3>1
  <2> HIDE DEF step
  <2> QED
    BY <1>1, <1>4, <2>1 DEF IsRun
<1>6. put = [i \in 0 .. e |-> IF i = 0 THEN b ELSE Screen!PutChar(put[i - 1], x, i)]
  BY <1>5, Zenon
<1>7. put[e] \in X /\ Inv(put[e], e)
  <2> HIDE DEF put
  <2> DEFINE S == {i \in 0 .. e : put[i] \in X /\ Inv(put[i], i)}
  <2>1. 0 \in S
    <3>1. put[0] = b /\ 0 \in 0 .. e
      BY <1>1, <1>6
    <3>2. Inv(b, 0)
      BY <1>2a
    <3> QED
      BY <1>1, <3>1, <3>2
  <2>2. ASSUME NEW i \in 1 .. e, i - 1 \in S PROVE i \in S
    <3> DEFINE w == put[i - 1]
               y == put[i]
    <3>1. w \in X /\ Inv(w, i - 1) /\ i \in 0 .. e
      BY <1>1, <2>2
    <3>2. y = Screen!PutChar(w, x, i)
      BY <1>1, <1>6, <3>1
    <3> HIDE DEF w, y
    <3>3. y \in X /\ Inv(y, i)
      BY <1>2, <1>2b, <3>1, <3>2
    <3> QED
      BY <3>1, <3>3 DEF y
  <2>3. \A i \in 0 .. e : i \in S
    <3> HIDE DEF S
    <3> QED
      BY <1>1, <2>1, <2>2, UpTo
  <2> QED
    BY <1>1, <2>3
<1> HIDE DEF put
<1> QED
  BY <1>2c, <1>7 DEF X, Inv, e

\* After i runs of the diff, applied to g: narrow rows have the new cell where it is
\* covered and their own elsewhere.
AppliedIs(h, g, runs, i, now, m, n, W) ==
  \A r \in 1 .. n : r \notin W => \A k \in 1 .. m :
    IF \E j \in 1 .. i : Covers(runs[j], r, k) THEN h[r][k] = now[r][k] ELSE h[r][k] = g[r][k]

(* The next run.                                                           *)
LEMMA ApplyNext ==
  ASSUME NEW m \in Nat \ {0}, NEW n \in Nat \ {0}, NEW W, NEW now \in Grids(m, n),
         Narrow(now, m, n, W), NEW runs \in Seq(Runs), AllCopy(runs, now, m, n, W),
         NEW g \in Grids(m, n), NEW i \in 1 .. Len(runs), NEW h \in Grids(m, n),
         AppliedIs(h, g, runs, i - 1, now, m, n, W)
  PROVE  AppliedIs(Screen!ApplyRun(h, runs[i]), g, runs, i, now, m, n, W)
<1> DEFINE x == runs[i]
           z == Screen!ApplyRun(h, x)
<1>1. x \in Runs /\ Copies(x, now, m, n, W) /\ Len(runs) \in Nat
  BY DEF AllCopy
<1>2. \A j \in 1 .. i : j = i \/ j \in 1 .. (i - 1)
  OBVIOUS
<1>2a. \A j \in 1 .. (i - 1) : j \in 1 .. i
  OBVIOUS
<1> SUFFICES ASSUME NEW r \in 1 .. n, r \notin W, NEW k \in 1 .. m
             PROVE  IF \E j \in 1 .. i : Covers(runs[j], r, k)
                    THEN z[r][k] = now[r][k] ELSE z[r][k] = g[r][k]
  BY DEF AppliedIs
<1>3. IF \E j \in 1 .. (i - 1) : Covers(runs[j], r, k)
      THEN h[r][k] = now[r][k] ELSE h[r][k] = g[r][k]
  BY DEF AppliedIs
<1>4. i \in 1 .. i
  OBVIOUS
<1>5. CASE ~(x.row <= n)
  <2>1. z = h
    <3>1. x.row > Screen!RowsOf(h)
      <4>1. Screen!RowsOf(h) = n /\ x.row \in Nat
        BY <1>1, GridSize DEF Runs
      <4> QED
        BY <1>5, <4>1
    <3> QED
      BY <3>1 DEF Screen!ApplyRun
  <2>2. ~Covers(x, r, k)
    BY <1>5 DEF Covers
  <2> HIDE DEF z
  <2>3. (\E j \in 1 .. i : Covers(runs[j], r, k)) <=> \E j \in 1 .. (i - 1) : Covers(runs[j], r, k)
    BY <1>2, <1>2a, <2>2
  <2> QED
    BY <1>3, <2>1, <2>3
<1>6. CASE x.row <= n
  <2>1. PutIs(z, h, x, Len(x.chars), m, n)
    BY <1>1, <1>6, ApplyRunIs
  <2> HIDE DEF z
  <2>2. CASE x.row # r
    <3>1. z[r] = h[r] /\ ~Covers(x, r, k)
      BY <2>1, <2>2 DEF PutIs, Covers
    <3>2. (\E j \in 1 .. i : Covers(runs[j], r, k)) <=> \E j \in 1 .. (i - 1) : Covers(runs[j], r, k)
      BY <1>2, <1>2a, <3>1
    <3> QED
      BY <1>3, <3>1, <3>2
  <2>3. CASE x.row = r
    <3> HIDE DEF x
    <3>1. x.start \in Nat \ {0} /\ Len(x.chars) \in Nat
      BY <1>1 DEF Runs
    <3>2. \A j \in 1 .. Len(x.chars) : /\ x.start + j - 1 <= m
                                       /\ x.chars[j] = now[r][x.start + j - 1]
      BY <1>1, <2>3 DEF Copies
    <3>3. \A j \in 1 .. Len(x.chars) : x.chars[j] # "w"
      <4> SUFFICES ASSUME NEW j \in 1 .. Len(x.chars) PROVE x.chars[j] # "w"
        OBVIOUS
      <4>1. x.start + j - 1 \in 1 .. m
        BY <3>1, <3>2
      <4> QED
        BY <3>2, <4>1 DEF Narrow, NarrowRow
    <3>4. IF x.start <= k /\ k < x.start + Len(x.chars)
          THEN z[r][k] = x.chars[k - x.start + 1] ELSE z[r][k] = h[r][k]
      BY <2>1, <2>3, <3>3 DEF PutIs
    <3>5. CASE Covers(x, r, k)
      <4>1. x.start <= k /\ k < x.start + Len(x.chars)
        BY <3>5 DEF Covers
      <4>2. k - x.start + 1 \in 1 .. Len(x.chars) /\ x.start + (k - x.start + 1) - 1 = k
        BY <3>1, <4>1, SMTT(40)
      <4>3. z[r][k] = now[r][k]
        BY <3>2, <3>4, <4>1, <4>2
      <4>4. \E j \in 1 .. i : Covers(runs[j], r, k)
        BY <1>4, <3>5 DEF x
      <4> QED
        BY <4>3, <4>4
    <3>6. CASE ~Covers(x, r, k)
      <4>1. z[r][k] = h[r][k]
        BY <2>3, <3>4, <3>6 DEF Covers
      <4>2. (\E j \in 1 .. i : Covers(runs[j], r, k)) <=> \E j \in 1 .. (i - 1) : Covers(runs[j], r, k)
        BY <1>2, <1>2a, <3>6 DEF x
      <4> QED
        BY <1>3, <4>1, <4>2
    <3> QED
      BY <3>5, <3>6
  <2> QED
    BY <2>2, <2>3
<1> QED
  BY <1>5, <1>6

\* The cell <<r, k>> of a grid of m columns and n rows, or a blank.
CellOf(g, m, n, r, k) == IF r <= n /\ k <= m THEN g[r][k] ELSE " "

(* A grid cut or padded to another size.                                   *)
LEMMA FitGridIs ==
  ASSUME NEW m \in Nat \ {0}, NEW n \in Nat \ {0}, NEW g \in Grids(m, n),
         NEW m2 \in Nat \ {0}, NEW n2 \in Nat \ {0}
  PROVE  /\ Screen!FitGrid(g, m2, n2) \in Grids(m2, n2)
         /\ \A r \in 1 .. n2, k \in 1 .. m2 :
              Screen!FitGrid(g, m2, n2)[r][k] = CellOf(g, m, n, r, k)
<1>1. Screen!RowsOf(g) = n /\ Screen!ColsOf(g) = m
  BY GridSize
<1>2. Screen!FitGrid(g, m2, n2) = [r \in 1 .. n2 |-> [c \in 1 .. m2 |-> CellOf(g, m, n, r, c)]]
  BY <1>1 DEF Screen!FitGrid, CellOf, Screen!Blank
<1>3. \A r \in 1 .. n2, c \in 1 .. m2 : CellOf(g, m, n, r, c) \in Cells
  <2> SUFFICES ASSUME NEW r \in 1 .. n2, NEW c \in 1 .. m2 PROVE CellOf(g, m, n, r, c) \in Cells
    OBVIOUS
  <2>1. CASE r <= n /\ c <= m
    <3>1. r \in 1 .. n /\ c \in 1 .. m
      BY <2>1
    <3> QED
      BY <2>1, <3>1 DEF CellOf, Grids
  <2>2. CASE ~(r <= n /\ c <= m)
    BY <2>2 DEF CellOf, Cells
  <2> QED
    BY <2>1, <2>2
<1> QED
  BY <1>2, <1>3 DEF Grids

(* A blank grid.                                                           *)
LEMMA BlankGrid ==
  ASSUME NEW m \in Nat \ {0}, NEW n \in Nat \ {0}
  PROVE  /\ Screen!MakeGrid(m, n) \in Grids(m, n)
         /\ \A r \in 1 .. n, k \in 1 .. m : Screen!MakeGrid(m, n)[r][k] = " "
BY DEF Screen!MakeGrid, Screen!Blank, Grids, Cells

(* What Narrow asks survives a change of size.                             *)
LEMMA FitNarrow ==
  ASSUME NEW m \in Nat \ {0}, NEW n \in Nat \ {0}, NEW g \in Grids(m, n), NEW W,
         NEW m2 \in Nat \ {0}, NEW n2 \in Nat \ {0}, Narrow(g, m, n, W)
  PROVE  Narrow(Screen!FitGrid(g, m2, n2), m2, n2, W)
<1> SUFFICES ASSUME NEW r \in 1 .. n2, r \notin W, NEW k \in 1 .. m2
             PROVE  /\ Screen!FitGrid(g, m2, n2)[r][k] # "w"
                    /\ Screen!FitGrid(g, m2, n2)[r][k] # ">"
  BY DEF Narrow, NarrowRow
<1>1. Screen!FitGrid(g, m2, n2)[r][k] = CellOf(g, m, n, r, k)
  BY FitGridIs
<1>2. CellOf(g, m, n, r, k) # "w" /\ CellOf(g, m, n, r, k) # ">"
  <2>1. CASE r <= n /\ k <= m
    <3>1. r \in 1 .. n /\ k \in 1 .. m
      BY <2>1
    <3> QED
      BY <2>1, <3>1 DEF CellOf, Narrow, NarrowRow
  <2>2. CASE ~(r <= n /\ k <= m)
    BY <2>2 DEF CellOf
  <2> QED
    BY <2>1, <2>2
<1> QED
  BY <1>1, <1>2

(* The server's grid at another size: what leaves at the top moves the     *)
(* rows that stay.                                                         *)
LEMMA FitServerIs ==
  ASSUME NEW m \in Nat \ {0}, NEW n \in Nat \ {0}, NEW g \in Grids(m, n), NEW W \in SUBSET Int,
         NEW m2 \in Nat \ {0}, NEW n2 \in Nat \ {0}, Narrow(g, m, n, W)
  PROVE  /\ Screen!FitServer(g, m2, n2) \in Grids(m2, n2)
         /\ Narrow(Screen!FitServer(g, m2, n2), m2, n2, {r - Screen!Excess(g, n2) : r \in W})
<1> DEFINE e == Screen!Excess(g, n2)
           V == {r - e : r \in W}
           h == SubSeq(g, e + 1, n)
           k == n - e
<1>1. e \in Nat /\ k \in Nat \ {0} /\ Screen!RowsOf(g) = n
  BY GridSize DEF Screen!Excess, Screen!SatSub
<1>2. g \in Seq([1 .. m -> Cells]) /\ Len(g) = n
  BY DEF Grids
<1>3. Screen!FitServer(g, m2, n2) = Screen!FitGrid(h, m2, n2)
  BY <1>1 DEF Screen!FitServer
<1> HIDE DEF e
<1>4. h = [r \in 1 .. k |-> g[r + e]]
  BY <1>1, <1>2
<1>5. \A r \in 1 .. k : r + e \in 1 .. n
  BY <1>1
<1>6. h \in Grids(m, k)
  BY <1>4, <1>5 DEF Grids
<1> HIDE DEF V
<1>7. Narrow(h, m, k, V)
  <2> SUFFICES ASSUME NEW r \in 1 .. k, r \notin V PROVE NarrowRow(h[r], m)
    BY DEF Narrow
  <2>1. r + e \notin W
    <3> SUFFICES ASSUME r + e \in W PROVE r \in V
      OBVIOUS
    <3>1. r = (r + e) - e
      BY <1>1
    <3> QED
      BY <3>1 DEF V
  <2> QED
    BY <1>4, <1>5, <2>1 DEF Narrow
<1> HIDE DEF h, k
<1> QED
  BY <1>1, <1>3, <1>6, <1>7, FitGridIs, FitNarrow DEF V, e

\* The narrow rows of two grids of one size agree.
RowsAgree(g, h, n, W) == \A r \in 1 .. n : r \notin W => g[r] = h[r]

(* The diff of a new grid against an old one, applied to a grid that       *)
(* agrees with the old one, gives the new one, on narrow rows.             *)
LEMMA ApplyIs ==
  ASSUME NEW m \in Nat \ {0}, NEW n \in Nat \ {0}, NEW W, NEW now \in Grids(m, n),
         Narrow(now, m, n, W),
         NEW m1 \in Nat \ {0}, NEW n1 \in Nat \ {0}, NEW old \in Grids(m1, n1),
         NEW g \in Grids(m1, n1), RowsAgree(g, old, n1, W)
  PROVE  LET h == Screen!Apply(g, Screen!ComputeDiffRuns(now, old), m, n)
         IN  h \in Grids(m, n) /\ RowsAgree(h, now, n, W)
<1> DEFINE runs == Screen!ComputeDiffRuns(now, old)
           X == Grids(m, n)
           b == IF m # m1 \/ n # n1 THEN Screen!FitGrid(g, m, n) ELSE g
           e == Len(runs)
           applied[i \in 0 .. e] == IF i = 0 THEN b ELSE Screen!ApplyRun(applied[i - 1], runs[i])
           step == [p \in X \X (1 .. e) |-> Screen!ApplyRun(p[1], runs[p[2]])]
           Inv(h, i) == AppliedIs(h, b, runs, i, now, m, n, W)
<1>0. /\ runs \in Seq(Runs) /\ AllCopy(runs, now, m, n, W)
      /\ RowsCovered(runs, n, now, old, m, W)
  BY DiffRunsAre
<1>0a. Screen!ColsOf(g) = m1 /\ Screen!RowsOf(g) = n1
  BY GridSize
<1>0b. Screen!Apply(g, runs, m, n) = applied[e]
  BY <1>0a DEF Screen!Apply
<1> HIDE DEF runs
<1>0c. /\ b \in X
       /\ \A r \in 1 .. n, k \in 1 .. m : b[r][k] = CellOf(g, m1, n1, r, k)
  <2>1. CASE m # m1 \/ n # n1
    BY <2>1, FitGridIs, SMTT(40)
  <2>2. CASE m = m1 /\ n = n1
    BY <2>2 DEF CellOf
  <2> QED
    BY <2>1, <2>2
<1> HIDE DEF b, e
<1>1. e \in Nat /\ b \in X
  BY <1>0, <1>0c DEF e
<1>2. ASSUME NEW h \in X, NEW i \in 1 .. e
      PROVE  Screen!ApplyRun(h, runs[i]) \in X
  <2>1. runs[i] \in Runs
    BY <1>0 DEF e
  <2>2. CASE runs[i].row <= n
    BY <2>1, <2>2, ApplyRunIs
  <2>3. CASE ~(runs[i].row <= n)
    <3>1. runs[i].row > Screen!RowsOf(h)
      <4>1. Screen!RowsOf(h) = n /\ runs[i].row \in Nat
        BY <2>1, GridSize DEF Runs
      <4> QED
        BY <2>3, <4>1
    <3> QED
      BY <3>1 DEF Screen!ApplyRun
  <2> QED
    BY <2>2, <2>3
<1>2a. Inv(b, 0)
  BY DEF AppliedIs
<1>2b. ASSUME NEW h \in X, NEW i \in 1 .. e, Inv(h, i - 1)
       PROVE  Inv(Screen!ApplyRun(h, runs[i]), i)
  BY <1>0, <1>0c, <1>2b, ApplyNext DEF e
<1> HIDE DEF Inv
<1> HIDE DEF X, b
<1>3. IsStep(step, X, e)
  BY <1>2 DEF IsStep
<1>4. PICK f : IsRun(f, e, X, b, step)
  <2> HIDE DEF step
  <2> QED
    BY <1>1, <1>3, LoopExists
<1>5. f = [i \in 0 .. e |-> IF i = 0 THEN b ELSE Screen!ApplyRun(f[i - 1], runs[i])]
  <2>1. ASSUME NEW i \in 1 .. e
        PROVE  f[i] = Screen!ApplyRun(f[i - 1], runs[i])
    <3>1. f[i - 1] \in X /\ f[i] = step[<<f[i - 1], i>>]
      <4> HIDE DEF step
      <4>1. i - 1 \in 0 .. e
        BY <1>1
      <4> QED
        BY <1>4, <4>1 DEF IsRun
    <3> QED
      BY <3>1
  <2> HIDE DEF step
  <2> QED
    BY <1>1, <1>4, <2>1 DEF IsRun
<1>6. applied = [i \in 0 .. e |-> IF i = 0 THEN b ELSE Screen!ApplyRun(applied[i - 1], runs[i])]
  BY <1>5, Zenon
<1>7. applied[e] \in X /\ Inv(applied[e], e)
  <2> HIDE DEF applied
  <2> DEFINE S == {i \in 0 .. e : applied[i] \in X /\ Inv(applied[i], i)}
  <2>1. 0 \in S
    <3>1. applied[0] = b /\ 0 \in 0 .. e
      BY <1>1, <1>6
    <3>2. Inv(b, 0)
      BY <1>2a
    <3> QED
      BY <1>1, <3>1, <3>2
  <2>2. ASSUME NEW i \in 1 .. e, i - 1 \in S PROVE i \in S
    <3> DEFINE x == applied[i - 1]
               y == applied[i]
    <3>1. x \in X /\ Inv(x, i - 1) /\ i \in 0 .. e
      BY <1>1, <2>2
    <3>2. y = Screen!ApplyRun(x, runs[i])
      BY <1>1, <1>6, <3>1
    <3> HIDE DEF x, y
    <3>3. y \in X /\ Inv(y, i)
      BY <1>2, <1>2b, <3>1, <3>2
    <3> QED
      BY <3>1, <3>3 DEF y
  <2>3. \A i \in 0 .. e : i \in S
    <3> HIDE DEF S
    <3> QED
      BY <1>1, <2>1, <2>2, UpTo
  <2> QED
    BY <1>1, <2>3
<1> DEFINE h == applied[e]
<1>8. h \in Grids(m, n) /\ AppliedIs(h, b, runs, e, now, m, n, W)
  BY <1>7 DEF X, Inv
<1> HIDE DEF h
<1>9. ASSUME NEW r \in 1 .. n, r \notin W PROVE h[r] = now[r]
  <2>1. ASSUME NEW k \in 1 .. m PROVE h[r][k] = now[r][k]
    <3>1. IF Covered(runs, r, k) THEN h[r][k] = now[r][k] ELSE h[r][k] = b[r][k]
      BY <1>8, <1>9 DEF AppliedIs, Covered, e
    <3>2. CASE Screen!Changed(now[r], OldRow(old, r), k)
      BY <1>0, <1>9, <3>1, <3>2 DEF RowsCovered
    <3>3. CASE ~Screen!Changed(now[r], OldRow(old, r), k)
      <4>1. ~(k > Len(OldRow(old, r))) /\ OldRow(old, r)[k] = now[r][k]
        BY <3>3 DEF Screen!Changed
      <4>2. Len(old) = n1 /\ \A s \in 1 .. n1 : Len(old[s]) = m1
        BY GridSize
      <4>3. r <= n1
        <5> SUFFICES ASSUME ~(r <= n1) PROVE FALSE
          OBVIOUS
        <5>1. OldRow(old, r) = <<>>
          BY <4>2 DEF OldRow
        <5> QED
          BY <4>1, <5>1
      <4>4. OldRow(old, r) = old[r] /\ r \in 1 .. n1 /\ k \in 1 .. m1
        BY <4>1, <4>2, <4>3 DEF OldRow
      <4>5. b[r][k] = g[r][k] /\ g[r] = old[r]
        <5>1. b[r][k] = CellOf(g, m1, n1, r, k)
          BY <1>0c
        <5>2. r <= n1 /\ k <= m1
          BY <4>4
        <5>3. CellOf(g, m1, n1, r, k) = g[r][k]
          BY <5>2 DEF CellOf
        <5>4. g[r] = old[r]
          BY <1>9, <4>4 DEF RowsAgree
        <5> QED
          BY <5>1, <5>3, <5>4
      <4> QED
        BY <3>1, <4>1, <4>4, <4>5
    <3> QED
      BY <3>2, <3>3
  <2>2. h[r] \in [1 .. m -> Cells] /\ now[r] \in [1 .. m -> Cells]
    BY <1>8 DEF Grids
  <2> QED
    BY <2>1, <2>2
<1>10. h \in Grids(m, n) /\ RowsAgree(h, now, n, W)
  BY <1>8, <1>9 DEF RowsAgree
<1> HIDE DEF applied
<1> QED
  BY <1>0b, <1>10 DEF h, runs

-----------------------------------------------------------------------------
(* The client's screen: the minimal diff written to the terminal.          *)

Ttys(m, n) == [grid : Grids(m, n), row : 1 .. n, col : Nat]
Accs(m, n) == [t : Ttys(m, n), last : Nat \X Nat]

\* Where emit_diff believes the cursor is: always on its row, and on a narrow row at its
\* column.
CursorKnown(a, W) ==
  a.last # <<0, 0>> => a.last[1] = a.t.row /\ (a.last[1] \notin W => a.last[2] = a.t.col)

\* A row after its k-th cell but for halves of wide glyphs that were there.
KeepsNarrow(line, line0, k, m) ==
  \A j \in 1 .. m : j # k => line[j] = line0[j] \/ line0[j] = "w" \/ line0[j] = ">"

(* The terminal takes a character.                                         *)
LEMMA TtyWriteIs ==
  ASSUME NEW m \in Nat \ {0}, NEW n \in Nat \ {0}, NEW t \in Ttys(m, n), NEW g \in Cells
  PROVE  LET u == Screen!TtyWrite(t, g)
         IN  /\ u \in Ttys(m, n) /\ u.row = t.row
             /\ \A s \in 1 .. n : s # t.row => u.grid[s] = t.grid[s]
             /\ g # "w" /\ t.col \in 1 .. m =>
                  /\ u.col = t.col + 1 /\ u.grid[t.row][t.col] = g
                  /\ KeepsNarrow(u.grid[t.row], t.grid[t.row], t.col, m)
<1> DEFINE r == t.row
           c == t.col
           G == t.grid
           line == G[r]
           put == [k \in DOMAIN line |->
                     IF k = c THEN g
                     ELSE IF Screen!Wide(g) /\ k = c + 1 THEN ">"
                     ELSE IF k = c - 1 /\ Screen!Wide(line[k]) THEN " "
                     ELSE IF k > c /\ line[k] = ">" /\ line[k - 1] # ">"
                             /\ (k - 1 = c \/ (Screen!Wide(g) /\ k - 1 = c + 1)) THEN " "
                     ELSE line[k]]
           col2 == c + IF Screen!Wide(g) THEN 2 ELSE 1
           u == Screen!TtyWrite(t, g)
<1>1. r \in 1 .. n /\ c \in Nat /\ G \in Grids(m, n)
  BY DEF Ttys
<1>2. line \in [1 .. m -> Cells] /\ Len(line) = m /\ DOMAIN line = 1 .. m
  <2> HIDE DEF r, G
  <2> QED
    BY <1>1, GridSize
<1>3. u = IF c > m THEN t ELSE [t EXCEPT !.grid = [G EXCEPT ![r] = put], !.col = col2]
  BY <1>2 DEF Screen!TtyWrite, Screen!Cont, Screen!Blank
<1>4. col2 \in Nat /\ (g # "w" => col2 = c + 1)
  BY <1>1 DEF Screen!Wide
<1> HIDE DEF line
<1>5. put \in [1 .. m -> Cells]
  BY <1>2 DEF Cells
<1>6. g # "w" => \A k \in 1 .. m : IF k = c THEN put[k] = g
                                   ELSE put[k] = line[k] \/ line[k] = "w" \/ line[k] = ">"
  BY <1>2 DEF Screen!Wide
<1> SUFFICES /\ u \in Ttys(m, n) /\ u.row = r
             /\ \A s \in 1 .. n : s # r => u.grid[s] = G[s]
             /\ g # "w" /\ c \in 1 .. m =>
                  /\ u.col = c + 1 /\ u.grid[r][c] = g
                  /\ KeepsNarrow(u.grid[r], line, c, m)
  BY DEF line
<1> HIDE DEF put, col2, u, r, c, G
<1>7. CASE c > m
  BY <1>1, <1>3, <1>7 DEF r, G
<1>8. CASE ~(c > m)
  <2> DEFINE H == [G EXCEPT ![r] = put]
  <2>1. H \in Grids(m, n) /\ H[r] = put /\ \A s \in 1 .. n : s # r => H[s] = G[s]
    BY <1>1, <1>5 DEF Grids
  <2>2. u = [t EXCEPT !.grid = H, !.col = col2]
    BY <1>3, <1>8
  <2> HIDE DEF H
  <2>3. u \in Ttys(m, n) /\ u.row = r /\ u.grid = H /\ u.col = col2
    BY <1>4, <2>1, <2>2 DEF Ttys, r
  <2>4. g # "w" => KeepsNarrow(put, line, c, m)
    BY <1>6 DEF KeepsNarrow
  <2> QED
    BY <1>4, <1>6, <2>1, <2>3, <2>4
<1> QED
  BY <1>7, <1>8

\* The effect of emit_diff's step for the cell <<r, c>>, where w is wanted and h was.
CellDone(b, a, r, c, w, h, m, n, W) ==
  /\ \A s \in 1 .. n : s # r => b.t.grid[s] = a.t.grid[s]
  /\ r \notin W => IF w = h THEN b.t.grid[r] = a.t.grid[r]
                   ELSE b.t.grid[r][c] = w /\ KeepsNarrow(b.t.grid[r], a.t.grid[r], c, m)

(* One cell of emit_diff.                                                  *)
LEMMA EmitCellIs ==
  ASSUME NEW m \in Nat \ {0}, NEW n \in Nat \ {0}, NEW W, NEW a \in Accs(m, n),
         CursorKnown(a, W), NEW r \in 1 .. n, NEW c \in 1 .. m, NEW w \in Cells, NEW h,
         r \notin W => w # "w" /\ w # ">"
  PROVE  LET b == Screen!EmitCell(a, <<r, c>>, w, h)
         IN  /\ b \in Accs(m, n) /\ CursorKnown(b, W)
             /\ CellDone(b, a, r, c, w, h, m, n, W)
<1> DEFINE b == Screen!EmitCell(a, <<r, c>>, w, h)
           at == IF a.last = <<r, c>> THEN a.t ELSE [a.t EXCEPT !.row = r, !.col = c]
           u == Screen!TtyWrite(at, w)
<1>1. a.t \in Ttys(m, n) /\ a.last \in Nat \X Nat
  BY DEF Accs
<1>2. b = IF w = h \/ w = ">" THEN a ELSE [t |-> u, last |-> <<r, c + 1>>]
  BY DEF Screen!EmitCell, Screen!Cont
<1>3. at \in Ttys(m, n) /\ at.row = r /\ at.grid = a.t.grid /\ (r \notin W => at.col = c)
  <2>1. CASE a.last = <<r, c>>
    <3>1. a.last # <<0, 0>> /\ a.last[1] = r /\ a.last[2] = c
      BY <2>1
    <3> QED
      BY <1>1, <2>1, <3>1 DEF CursorKnown
  <2>2. CASE a.last # <<r, c>>
    <3> DEFINE z == a.t
    <3>1. at = [z EXCEPT !.row = r, !.col = c] /\ z \in Ttys(m, n)
      BY <1>1, <2>2
    <3> HIDE DEF z, at
    <3>1a. c \in Nat /\ z = [grid |-> z.grid, row |-> z.row, col |-> z.col] /\ z.grid \in Grids(m, n)
      BY <3>1 DEF Ttys
    <3>1b. at = [grid |-> z.grid, row |-> r, col |-> c]
      BY <3>1, <3>1a
    <3>2. at \in Ttys(m, n) /\ at.row = r /\ at.col = c
      BY <3>1a, <3>1b DEF Ttys
    <3>3. at.grid = z.grid
      BY <3>1, Zenon DEF Ttys
    <3> QED
      BY <3>2, <3>3 DEF z
  <2> QED
    BY <2>1, <2>2
<1> SUFFICES /\ b \in Accs(m, n) /\ CursorKnown(b, W)
             /\ CellDone(b, a, r, c, w, h, m, n, W)
  OBVIOUS
<1> HIDE DEF b, at
<1>4. /\ u \in Ttys(m, n) /\ u.row = r
      /\ \A s \in 1 .. n : s # r => u.grid[s] = a.t.grid[s]
      /\ r \notin W => /\ u.col = c + 1 /\ u.grid[r][c] = w
                       /\ KeepsNarrow(u.grid[r], a.t.grid[r], c, m)
  <2>1. /\ u \in Ttys(m, n) /\ u.row = at.row
        /\ \A s \in 1 .. n : s # at.row => u.grid[s] = at.grid[s]
        /\ w # "w" /\ at.col \in 1 .. m =>
             /\ u.col = at.col + 1 /\ u.grid[at.row][at.col] = w
             /\ KeepsNarrow(u.grid[at.row], at.grid[at.row], at.col, m)
    BY <1>3, TtyWriteIs
  <2> HIDE DEF u
  <2> QED
    BY <1>3, <2>1
<1> HIDE DEF u
<1>5. CASE w = h \/ w = ">"
  <2>1. b = a
    BY <1>2, <1>5
  <2> QED
    BY <1>5, <2>1 DEF CellDone
<1>6. CASE ~(w = h \/ w = ">")
  <2>1. b = [t |-> u, last |-> <<r, c + 1>>]
    BY <1>2, <1>6
  <2>2. b \in Accs(m, n) /\ b.t = u /\ b.last[1] = r /\ b.last[2] = c + 1
    BY <1>4, <2>1 DEF Accs
  <2>3. CursorKnown(b, W)
    BY <1>4, <2>2 DEF CursorKnown
  <2>4. CellDone(b, a, r, c, w, h, m, n, W)
    BY <1>4, <1>6, <2>2 DEF CellDone
  <2> QED
    BY <2>2, <2>3, <2>4
<1> QED
  BY <1>5, <1>6

\* A narrow row after its first k cells: drawn where it had to be, kept where it was right.
Drawn(line, line0, want, have, k, m) ==
  \A c \in 1 .. m : IF c <= k /\ want[c] # have[c] THEN line[c] = want[c]
                    ELSE line0[c] = have[c] => line[c] = have[c]

Cursors(m, n, W) == {a \in Accs(m, n) : CursorKnown(a, W)}

\* After k cells of row r of emit_diff, from a0.
RowIs(a, a0, want, have, r, k, m, n, W) ==
  /\ \A s \in 1 .. n : s # r => a.t.grid[s] = a0.t.grid[s]
  /\ r \notin W => Drawn(a.t.grid[r], a0.t.grid[r], want[r], have[r], k, m)

(* The next cell of a row.                                                 *)
LEMMA EmitNext ==
  ASSUME NEW m \in Nat \ {0}, NEW n \in Nat \ {0}, NEW W,
         NEW want \in Grids(m, n), NEW have \in Grids(m, n),
         Narrow(want, m, n, W), Narrow(have, m, n, W),
         NEW a0 \in Cursors(m, n, W), NEW a \in Cursors(m, n, W),
         NEW r \in 1 .. n, NEW c \in 1 .. m, RowIs(a, a0, want, have, r, c - 1, m, n, W),
         NEW b, b = Screen!EmitCell(a, <<r, c>>, want[r][c], have[r][c])
  PROVE  b \in Cursors(m, n, W) /\ RowIs(b, a0, want, have, r, c, m, n, W)
<1> DEFINE w == want[r][c]
           h == have[r][c]
<1>1. w \in Cells /\ (r \notin W => w # "w" /\ w # ">")
  BY DEF Grids, Narrow, NarrowRow
<1>2. a \in Accs(m, n) /\ CursorKnown(a, W)
  BY DEF Cursors
<1>3. b = Screen!EmitCell(a, <<r, c>>, w, h)
  OBVIOUS
<1> HIDE DEF w, h
<1>4. b \in Accs(m, n) /\ CursorKnown(b, W) /\ CellDone(b, a, r, c, w, h, m, n, W)
  BY <1>1, <1>2, <1>3, EmitCellIs
<1>5. \A s \in 1 .. n : s # r => b.t.grid[s] = a0.t.grid[s]
  BY <1>4 DEF CellDone, RowIs
<1>6. ASSUME r \notin W PROVE Drawn(b.t.grid[r], a0.t.grid[r], want[r], have[r], c, m)
  <2> DEFINE line == b.t.grid[r]
             mid == a.t.grid[r]
             line0 == a0.t.grid[r]
             new == want[r]
             old == have[r]
  <2>1. IF w = h THEN line = mid ELSE line[c] = w /\ KeepsNarrow(line, mid, c, m)
    BY <1>4, <1>6 DEF CellDone
  <2>2. Drawn(mid, line0, new, old, c - 1, m)
    BY <1>6 DEF RowIs
  <2>3. \A k \in 1 .. m : new[k] # "w" /\ new[k] # ">" /\ old[k] # "w" /\ old[k] # ">"
    BY <1>6 DEF Narrow, NarrowRow
  <2>4. w = new[c] /\ h = old[c]
    BY DEF w, h
  <2> SUFFICES Drawn(line, line0, new, old, c, m)
    OBVIOUS
  <2> HIDE DEF line, mid, line0, new, old
  <2> SUFFICES ASSUME NEW k \in 1 .. m
               PROVE  IF k <= c /\ new[k] # old[k] THEN line[k] = new[k]
                      ELSE line0[k] = old[k] => line[k] = old[k]
    BY DEF Drawn
  <2>5. IF k <= c - 1 /\ new[k] # old[k] THEN mid[k] = new[k]
        ELSE line0[k] = old[k] => mid[k] = old[k]
    BY <2>2 DEF Drawn
  <2>6. CASE k = c
    <3>1. k <= c /\ ~(k <= c - 1)
      BY <2>6
    <3> QED
      BY <2>1, <2>4, <2>5, <2>6, <3>1
  <2>7. CASE k # c
    <3>1. k <= c <=> k <= c - 1
      BY <2>7
    <3>2. line[k] = mid[k] \/ mid[k] = "w" \/ mid[k] = ">"
      BY <2>1, <2>7 DEF KeepsNarrow
    <3> QED
      BY <2>3, <2>5, <3>1, <3>2
  <2> QED
    BY <2>6, <2>7
<1> QED
  BY <1>4, <1>5, <1>6 DEF Cursors, RowIs

(* One row of emit_diff.                                                   *)
LEMMA EmitRowIs ==
  ASSUME NEW m \in Nat \ {0}, NEW n \in Nat \ {0}, NEW W,
         NEW want \in Grids(m, n), NEW have \in Grids(m, n),
         Narrow(want, m, n, W), Narrow(have, m, n, W),
         NEW a0 \in Cursors(m, n, W), NEW r \in 1 .. n
  PROVE  LET a == Screen!EmitRow(a0, want, have, r, m)
         IN  a \in Cursors(m, n, W) /\ RowIs(a, a0, want, have, r, m, m, n, W)
<1> DEFINE X == Cursors(m, n, W)
           b == a0
           acc[c \in 0 .. m] == IF c = 0 THEN b
                                ELSE Screen!EmitCell(acc[c - 1], <<r, c>>, want[r][c], have[r][c])
           step == [p \in X \X (1 .. m) |->
                      Screen!EmitCell(p[1], <<r, p[2]>>, want[r][p[2]], have[r][p[2]])]
           Inv(a, c) == RowIs(a, a0, want, have, r, c, m, n, W)
<1>1. m \in Nat /\ b \in X
  OBVIOUS
<1>2. ASSUME NEW x \in X, NEW i \in 1 .. m
      PROVE  Screen!EmitCell(x, <<r, i>>, want[r][i], have[r][i]) \in X
  <2>1. want[r][i] \in Cells /\ (r \notin W => want[r][i] # "w" /\ want[r][i] # ">")
    BY DEF Grids, Narrow, NarrowRow
  <2>2. x \in Accs(m, n) /\ CursorKnown(x, W)
    BY DEF Cursors
  <2> QED
    BY <2>1, <2>2, EmitCellIs DEF Cursors
<1>2a. Inv(b, 0)
  BY DEF RowIs, Drawn
<1>2b. ASSUME NEW x \in X, NEW i \in 1 .. m, Inv(x, i - 1), NEW y,
              y = Screen!EmitCell(x, <<r, i>>, want[r][i], have[r][i])
       PROVE  Inv(y, i)
  BY <1>2b, EmitNext
<1>2c. Screen!EmitRow(a0, want, have, r, m) = acc[m]
  BY DEF Screen!EmitRow
<1> HIDE DEF Inv
<1> HIDE DEF X, b
<1>3. IsStep(step, X, m)
  BY <1>2 DEF IsStep
<1>4. PICK f : IsRun(f, m, X, b, step)
  <2> HIDE DEF step
  <2> QED
    BY <1>1, <1>3, LoopExists
<1>5. f = [i \in 0 .. m |-> IF i = 0 THEN b ELSE Screen!EmitCell(f[i - 1], <<r, i>>, want[r][i], have[r][i])]
  <2>1. ASSUME NEW i \in 1 .. m
        PROVE  f[i] = Screen!EmitCell(f[i - 1], <<r, i>>, want[r][i], have[r][i])
    <3>1. f[i - 1] \in X /\ f[i] = step[<<f[i - 1], i>>]
      <4> HIDE DEF step
      <4>1. i - 1 \in 0 .. m
        BY <1>1
      <4> QED
        BY <1>4, <4>1 DEF IsRun
    <3> QED
      BY <3>1
  <2> HIDE DEF step
  <2> QED
    BY <1>1, <1>4, <2>1 DEF IsRun
<1>6. acc = [i \in 0 .. m |-> IF i = 0 THEN b ELSE Screen!EmitCell(acc[i - 1], <<r, i>>, want[r][i], have[r][i])]
  BY <1>5, Zenon
<1>7. acc[m] \in X /\ Inv(acc[m], m)
  <2> HIDE DEF acc
  <2> DEFINE S == {i \in 0 .. m : acc[i] \in X /\ Inv(acc[i], i)}
  <2>1. 0 \in S
    <3>1. acc[0] = b /\ 0 \in 0 .. m
      BY <1>1, <1>6
    <3>2. Inv(b, 0)
      BY <1>2a
    <3> QED
      BY <1>1, <3>1, <3>2
  <2>2. ASSUME NEW i \in 1 .. m, i - 1 \in S PROVE i \in S
    <3> DEFINE x == acc[i - 1]
               y == acc[i]
    <3>1. x \in X /\ Inv(x, i - 1) /\ i \in 0 .. m
      BY <1>1, <2>2
    <3>2. y = Screen!EmitCell(x, <<r, i>>, want[r][i], have[r][i])
      BY <1>1, <1>6, <3>1
    <3> HIDE DEF x, y
    <3>3. y \in X /\ Inv(y, i)
      BY <1>2, <1>2b, <3>1, <3>2
    <3> QED
      BY <3>1, <3>3 DEF y
  <2>3. \A i \in 0 .. m : i \in S
    <3> HIDE DEF S
    <3> QED
      BY <1>1, <2>1, <2>2, UpTo
  <2> QED
    BY <1>1, <2>3
<1> HIDE DEF acc
<1> QED
  BY <1>2c, <1>7 DEF X, Inv

\* After i rows of emit_diff, from the terminal's grid t.
RowsAre(a, t, want, have, i, m, n, W) ==
  \A s \in 1 .. n : IF s <= i THEN s \notin W => Drawn(a.t.grid[s], t[s], want[s], have[s], m, m)
                    ELSE a.t.grid[s] = t[s]

(* emit_diff: on every narrow row the cells that differ are drawn, and the *)
(* others are left as they were.                                           *)
LEMMA EmitDiffIs ==
  ASSUME NEW m \in Nat \ {0}, NEW n \in Nat \ {0}, NEW W,
         NEW t \in Grids(m, n), NEW want \in Grids(m, n), NEW have \in Grids(m, n),
         Narrow(want, m, n, W), Narrow(have, m, n, W)
  PROVE  LET z == Screen!EmitDiff(t, want, have)
         IN  /\ z \in Grids(m, n)
             /\ \A s \in 1 .. n : s \notin W => Drawn(z[s], t[s], want[s], have[s], m, m)
<1> DEFINE X == Cursors(m, n, W)
           b == [t |-> [grid |-> t, row |-> 1, col |-> 1], last |-> <<0, 0>>]
           acc[r \in 0 .. n] == IF r = 0 THEN b
                                ELSE Screen!EmitRow(acc[r - 1], want, have, r, m)
           step == [p \in X \X (1 .. n) |-> Screen!EmitRow(p[1], want, have, p[2], m)]
           Inv(a, i) == RowsAre(a, t, want, have, i, m, n, W)
<1>0. b.t.grid = t /\ b.last = <<0, 0>>
  OBVIOUS
<1>1. n \in Nat /\ b \in X
  BY DEF Cursors, CursorKnown, Accs, Ttys
<1>2. ASSUME NEW x \in X, NEW i \in 1 .. n
      PROVE  Screen!EmitRow(x, want, have, i, m) \in X
  BY EmitRowIs
<1>2a. Inv(b, 0)
  <2> HIDE DEF b
  <2> QED
    BY <1>0 DEF RowsAre
<1>2b. ASSUME NEW x \in X, NEW i \in 1 .. n, Inv(x, i - 1), NEW y,
              y = Screen!EmitRow(x, want, have, i, m)
       PROVE  Inv(y, i)
  <2>1. RowIs(y, x, want, have, i, m, m, n, W)
    BY <1>2b, EmitRowIs
  <2> SUFFICES ASSUME NEW s \in 1 .. n
               PROVE  IF s <= i THEN s \notin W => Drawn(y.t.grid[s], t[s], want[s], have[s], m, m)
                      ELSE y.t.grid[s] = t[s]
    BY DEF RowsAre
  <2>2. IF s <= i - 1 THEN s \notin W => Drawn(x.t.grid[s], t[s], want[s], have[s], m, m)
        ELSE x.t.grid[s] = t[s]
    BY <1>2b DEF RowsAre
  <2>3. CASE s = i
    <3>1. s <= i /\ ~(s <= i - 1)
      BY <2>3
    <3>2. s \notin W => Drawn(y.t.grid[s], x.t.grid[s], want[s], have[s], m, m)
      BY <2>1, <2>3 DEF RowIs
    <3>3. x.t.grid[s] = t[s]
      BY <2>2, <3>1
    <3> QED
      BY <3>1, <3>2, <3>3
  <2>4. CASE s # i
    <3>1. s <= i <=> s <= i - 1
      BY <2>4
    <3>2. y.t.grid[s] = x.t.grid[s]
      BY <2>1, <2>4 DEF RowIs
    <3> QED
      BY <2>2, <3>1, <3>2
  <2> QED
    BY <2>3, <2>4
<1>2c. Screen!EmitDiff(t, want, have) = acc[n].t.grid
  <2>1. /\ Screen!ColsOf(want) = m /\ Screen!ColsOf(have) = m
        /\ Screen!RowsOf(want) = n /\ Screen!RowsOf(have) = n
    BY GridSize
  <2>2. /\ Screen!Min2(Screen!ColsOf(want), Screen!ColsOf(have)) = m
        /\ Screen!Min2(Screen!RowsOf(want), Screen!RowsOf(have)) = n
    BY <2>1 DEF Screen!Min2
  <2> QED
    BY <2>2 DEF Screen!EmitDiff
<1> HIDE DEF Inv
<1> HIDE DEF X, b
<1>3. IsStep(step, X, n)
  BY <1>2 DEF IsStep
<1>4. PICK f : IsRun(f, n, X, b, step)
  <2> HIDE DEF step
  <2> QED
    BY <1>1, <1>3, LoopExists
<1>5. f = [i \in 0 .. n |-> IF i = 0 THEN b ELSE Screen!EmitRow(f[i - 1], want, have, i, m)]
  <2>1. ASSUME NEW i \in 1 .. n
        PROVE  f[i] = Screen!EmitRow(f[i - 1], want, have, i, m)
    <3>1. f[i - 1] \in X /\ f[i] = step[<<f[i - 1], i>>]
      <4> HIDE DEF step
      <4>1. i - 1 \in 0 .. n
        BY <1>1
      <4> QED
        BY <1>4, <4>1 DEF IsRun
    <3> QED
      BY <3>1
  <2> HIDE DEF step
  <2> QED
    BY <1>1, <1>4, <2>1 DEF IsRun
<1>6. acc = [i \in 0 .. n |-> IF i = 0 THEN b ELSE Screen!EmitRow(acc[i - 1], want, have, i, m)]
  BY <1>5, Zenon
<1>7. acc[n] \in X /\ Inv(acc[n], n)
  <2> HIDE DEF acc
  <2> DEFINE S == {i \in 0 .. n : acc[i] \in X /\ Inv(acc[i], i)}
  <2>1. 0 \in S
    <3>1. acc[0] = b /\ 0 \in 0 .. n
      BY <1>1, <1>6
    <3>2. Inv(b, 0)
      BY <1>2a
    <3> QED
      BY <1>1, <3>1, <3>2
  <2>2. ASSUME NEW i \in 1 .. n, i - 1 \in S PROVE i \in S
    <3> DEFINE x == acc[i - 1]
               y == acc[i]
    <3>1. x \in X /\ Inv(x, i - 1) /\ i \in 0 .. n
      BY <1>1, <2>2
    <3>2. y = Screen!EmitRow(x, want, have, i, m)
      BY <1>1, <1>6, <3>1
    <3> HIDE DEF x, y
    <3>3. y \in X /\ Inv(y, i)
      BY <1>2, <1>2b, <3>1, <3>2
    <3> QED
      BY <3>1, <3>3 DEF y
  <2>3. \A i \in 0 .. n : i \in S
    <3> HIDE DEF S
    <3> QED
      BY <1>1, <2>1, <2>2, UpTo
  <2> QED
    BY <1>1, <2>3
<1> DEFINE q == acc[n]
           z == q.t.grid
<1>8. q \in Accs(m, n) /\ RowsAre(q, t, want, have, n, m, n, W)
  BY <1>7 DEF X, Inv, Cursors
<1> HIDE DEF q, acc
<1>9. z \in Grids(m, n)
  BY <1>8 DEF Accs, Ttys
<1>10. \A s \in 1 .. n : s \notin W => Drawn(z[s], t[s], want[s], have[s], m, m)
  BY <1>8 DEF RowsAre
<1> HIDE DEF z
<1> QED
  BY <1>2c, <1>9, <1>10 DEF z, q

-----------------------------------------------------------------------------
(* The client's screen: renders and frames.                                *)

\* What grid p claims was drawn is on the terminal t, on narrow rows.
Claims(t, p, m, n, W) ==
  \A r \in 1 .. n, c \in 1 .. m : r \in W \/ p[r][c] = " " \/ t[r][c] = p[r][c]

\* The terminal has the size of the client's grids.
Fitting(m, n, tm, tn) == m = tm /\ n = tn

\* An outcome of a render of m by n cells that began with t on the terminal and have
\* recorded.  Only on a terminal of that size is anything known of what it shows.
RenderOk(o, t, have, m, n, tm, tn, W) ==
  /\ o.tty \in Grids(tm, tn) /\ o.physical \in Grids(m, n) /\ Narrow(o.physical, m, n, W)
  /\ Fitting(m, n, tm, tn) /\ (o.dirty # {} \/ Claims(t, have, m, n, W))
       => Claims(o.tty, o.physical, m, n, W)
  /\ Fitting(m, n, tm, tn) /\ o.dirty = {} /\ RowsAgree(t, have, n, W)
       => RowsAgree(o.tty, o.physical, n, W)

(* A blank grid is narrow and claims nothing.                              *)
LEMMA BlankClaims ==
  ASSUME NEW m \in Nat \ {0}, NEW n \in Nat \ {0}, NEW W, NEW g \in Grids(m, n), NEW t
  PROVE  /\ Screen!BlankLike(g) \in Grids(m, n) /\ Narrow(Screen!BlankLike(g), m, n, W)
         /\ Claims(t, Screen!BlankLike(g), m, n, W)
<1> DEFINE z == Screen!MakeGrid(m, n)
<1>1. Screen!BlankLike(g) = z
  BY GridSize DEF Screen!BlankLike
<1>2. z \in Grids(m, n) /\ \A r \in 1 .. n, k \in 1 .. m : z[r][k] = " "
  BY BlankGrid
<1> HIDE DEF z
<1>3. Narrow(z, m, n, W)
  BY <1>2 DEF Narrow, NarrowRow
<1>4. Claims(t, z, m, n, W)
  BY <1>2 DEF Claims
<1> QED
  BY <1>1, <1>2, <1>3, <1>4

(* The banner and the predictions are narrow.                              *)
LEMMA ComposeIs ==
  ASSUME NEW m \in Nat \ {0}, NEW n \in Nat \ {0}, NEW W, NEW g \in Grids(m, n),
         Narrow(g, m, n, W), NEW on \in BOOLEAN, NEW cells
  PROVE  Screen!Compose(g, on, cells) \in Grids(m, n)
         /\ Narrow(Screen!Compose(g, on, cells), m, n, W)
<1> DEFINE z == Screen!Compose(g, on, cells)
<1>1. Screen!RowsOf(g) = n /\ Screen!ColsOf(g) = m
  BY GridSize
<1>2. z = [r \in 1 .. n |-> [c \in 1 .. m |-> IF <<r, c>> \in cells THEN "p"
                                               ELSE IF on /\ r = 1 THEN "#" ELSE g[r][c]]]
  BY <1>1 DEF Screen!Compose
<1>3. \A r \in 1 .. n, c \in 1 .. m : z[r][c] \in {"p", "#", g[r][c]} /\ g[r][c] \in Cells
  BY <1>2 DEF Grids
<1> DEFINE v(r, c) == IF <<r, c>> \in cells THEN "p" ELSE IF on /\ r = 1 THEN "#" ELSE g[r][c]
<1>4a. \A r \in 1 .. n, c \in 1 .. m : v(r, c) \in Cells
  BY <1>3 DEF Cells
<1>4b. z = [r \in 1 .. n |-> [c \in 1 .. m |-> v(r, c)]]
  BY <1>2
<1> HIDE DEF z, v
<1>4. z \in Grids(m, n)
  BY <1>4a, <1>4b DEF Grids
<1>5. Narrow(z, m, n, W)
  BY <1>3 DEF Narrow, NarrowRow
<1> QED
  BY <1>4, <1>5 DEF z

(* What is drawn on a terminal leaves it its size.                         *)
LEMMA DrawnIs ==
  ASSUME NEW m \in Nat \ {0}, NEW n \in Nat \ {0}, NEW tm \in Nat \ {0}, NEW tn \in Nat \ {0},
         NEW t \in Grids(tm, tn), NEW frame \in Grids(m, n), NEW done,
         Fitting(m, n, tm, tn) => done \in Grids(tm, tn)
  PROVE  LET z == Screen!Drawn(t, frame, done)
         IN  z \in Grids(tm, tn) /\ (Fitting(m, n, tm, tn) => z = done)
<1>1. /\ Screen!RowsOf(t) = tn /\ Screen!ColsOf(t) = tm
      /\ Screen!RowsOf(frame) = n /\ Screen!ColsOf(frame) = m
  BY GridSize
<1>2. Screen!Drawn(t, frame, done) =
        IF Fitting(m, n, tm, tn) THEN done ELSE Screen!Unknown(tm, tn)
  BY <1>1 DEF Screen!Drawn, Screen!SameSize, Fitting
<1>3. Screen!Unknown(tm, tn) \in Grids(tm, tn)
  BY DEF Screen!Unknown, Grids, Cells
<1> QED
  BY <1>2, <1>3

(* A render, whether its write succeeds or fails: what is then recorded as *)
(* drawn is on the terminal.                                               *)
LEMMA RenderIs ==
  ASSUME NEW m \in Nat \ {0}, NEW n \in Nat \ {0}, NEW tm \in Nat \ {0}, NEW tn \in Nat \ {0},
         NEW W, NEW t \in Grids(tm, tn), NEW want \in Grids(m, n), NEW have \in Grids(m, n),
         Narrow(want, m, n, W), Narrow(have, m, n, W), NEW o \in Screen!Render(t, want, have)
  PROVE  RenderOk(o, t, have, m, n, tm, tn, W)
<1> DEFINE z == Screen!Drawn(t, want, Screen!EmitDiff(t, want, have))
           y == Screen!BlankLike(have)
           x == Screen!Commit(want, have)
<1>1. /\ z \in Grids(tm, tn)
      /\ Fitting(m, n, tm, tn) =>
           \A s \in 1 .. n : s \notin W => Drawn(z[s], t[s], want[s], have[s], m, m)
  <2> DEFINE d == Screen!EmitDiff(t, want, have)
  <2>1. Fitting(m, n, tm, tn) =>
          /\ d \in Grids(tm, tn)
          /\ \A s \in 1 .. n : s \notin W => Drawn(d[s], t[s], want[s], have[s], m, m)
    BY EmitDiffIs DEF Fitting
  <2> HIDE DEF d
  <2>2. LET u == Screen!Drawn(t, want, d)
        IN  u \in Grids(tm, tn) /\ (Fitting(m, n, tm, tn) => u = d)
    BY <2>1, DrawnIs
  <2> QED
    BY <2>1, <2>2 DEF d
<1>2. x = want
  <2>1. Screen!RowsOf(want) = n /\ Screen!ColsOf(want) = m
    BY GridSize
  <2>2. DOMAIN have = 1 .. n /\ \A r \in 1 .. n : DOMAIN have[r] = 1 .. m
    BY DEF Grids
  <2>3. x = [r \in 1 .. n |-> [c \in 1 .. m |-> want[r][c]]]
    BY <2>1, <2>2 DEF Screen!Commit
  <2> QED
    BY <2>3 DEF Grids
<1>3. \/ o = [tty |-> z, physical |-> x, dirty |-> {}]
      \/ o = [tty |-> t, physical |-> y, dirty |-> {"write"}]
      \/ o = [tty |-> z, physical |-> y, dirty |-> {"write"}]
  BY DEF Screen!Render, Screen!FailedWrite
<1> HIDE DEF z, y, x
<1>4. CASE o = [tty |-> z, physical |-> x, dirty |-> {}]
  <2>1. o.tty = z /\ o.physical = want /\ o.dirty = {}
    BY <1>2, <1>4
  <2>2. ASSUME Fitting(m, n, tm, tn), NEW r \in 1 .. n, r \notin W, NEW c \in 1 .. m
        PROVE  /\ have[r][c] = " " \/ t[r][c] = have[r][c]
                    => want[r][c] = " " \/ z[r][c] = want[r][c]
               /\ t[r] = have[r] => z[r][c] = want[r][c]
    <3>1. IF want[r][c] # have[r][c] THEN z[r][c] = want[r][c]
          ELSE t[r][c] = have[r][c] => z[r][c] = have[r][c]
      BY <1>1, <2>2 DEF Drawn
    <3> QED
      BY <3>1
  <2>3. Fitting(m, n, tm, tn) /\ Claims(t, have, m, n, W) => Claims(z, want, m, n, W)
    BY <2>2 DEF Claims
  <2>4. Fitting(m, n, tm, tn) /\ RowsAgree(t, have, n, W) => RowsAgree(z, want, n, W)
    <3> SUFFICES ASSUME Fitting(m, n, tm, tn), RowsAgree(t, have, n, W),
                        NEW r \in 1 .. n, r \notin W
                 PROVE  z[r] = want[r]
      BY DEF RowsAgree
    <3>1. z[r] \in [1 .. m -> Cells] /\ want[r] \in [1 .. m -> Cells]
      BY <1>1 DEF Grids, Fitting
    <3>2. t[r] = have[r]
      BY DEF RowsAgree
    <3>3. \A c \in 1 .. m : z[r][c] = want[r][c]
      BY <2>2, <3>2
    <3> QED
      BY <3>1, <3>3
  <2> QED
    BY <1>1, <2>1, <2>3, <2>4 DEF RenderOk
<1>5. ASSUME NEW u \in Grids(tm, tn), o = [tty |-> u, physical |-> y, dirty |-> {"write"}]
      PROVE  RenderOk(o, t, have, m, n, tm, tn, W)
  <2>1. o.tty = u /\ o.physical = y /\ o.dirty # {}
    BY <1>5
  <2>2. y \in Grids(m, n) /\ Narrow(y, m, n, W) /\ Claims(u, y, m, n, W)
    BY BlankClaims DEF y
  <2> QED
    BY <2>1, <2>2 DEF RenderOk
<1> QED
  BY <1>1, <1>3, <1>4, <1>5

HistoryLines == Seq(Seq(Cells))
Views == [active : BOOLEAN, lines : HistoryLines, offset : Nat]

(* A scrollback frame fits the screen.                                     *)
LEMMA FrameIs ==
  ASSUME NEW m \in Nat \ {0}, NEW n \in Nat \ {0}, confirmed \in Grids(m, n), NEW v \in Views
  PROVE  Screen!ScrollbackFrame(v) \in Grids(m, n)
<1>1. Screen!RowsOf(confirmed) = n /\ Screen!ColsOf(confirmed) = m
  BY GridSize
<1>2. v.lines \in Seq(Seq(Cells)) /\ v.offset \in Nat
  BY DEF Views, HistoryLines
<1> DEFINE top == Screen!SatSub(Screen!SatSub(Len(v.lines), v.offset), n)
<1>3. top \in Nat
  BY <1>2 DEF Screen!SatSub
<1>4. Screen!ScrollbackFrame(v) =
        [r \in 1 .. n |-> [c \in 1 .. m |->
           IF top + r <= Len(v.lines) /\ c <= Len(v.lines[top + r]) THEN v.lines[top + r][c]
           ELSE " "]]
  BY <1>1 DEF Screen!ScrollbackFrame, Screen!Blank
<1> HIDE DEF top
<1>5. ASSUME NEW r \in 1 .. n, NEW c \in 1 .. m,
             top + r <= Len(v.lines), c <= Len(v.lines[top + r])
      PROVE  v.lines[top + r][c] \in Cells
  <2>1. top + r \in 1 .. Len(v.lines)
    BY <1>2, <1>3, <1>5
  <2>2. v.lines[top + r] \in Seq(Cells)
    BY <1>2, <2>1
  <2>3. c \in 1 .. Len(v.lines[top + r])
    BY <1>5, <2>2
  <2> QED
    BY <2>2, <2>3
<1>6. " " \in Cells
  BY DEF Cells
<1> QED
  BY <1>4, <1>5, <1>6, ZenonT(40) DEF Grids

(* A painted frame, or a failed one, leaves nothing recorded as drawn.     *)
LEMMA PaintIs ==
  ASSUME NEW m \in Nat \ {0}, NEW n \in Nat \ {0}, NEW tm \in Nat \ {0}, NEW tn \in Nat \ {0},
         NEW W, confirmed \in Grids(m, n), physical \in Grids(m, n), tty \in Grids(tm, tn),
         NEW v \in Views, NEW o \in Screen!Paint(v)
  PROVE  RenderOk(o, tty, physical, m, n, tm, tn, W) /\ o.dirty # {}
<1> DEFINE y == Screen!BlankLike(physical)
           f == Screen!ScrollbackFrame(v)
           z == Screen!Drawn(tty, confirmed, f)
<1>1. f \in Grids(m, n)
  BY FrameIs
<1>2. PICK u \in {z, tty}, d \in {"history", "write"} :
        o = [tty |-> u, physical |-> y, dirty |-> {d}]
  BY DEF Screen!Paint
<1> HIDE DEF y, f
<1>3. z \in Grids(tm, tn)
  BY <1>1, DrawnIs DEF Fitting
<1> HIDE DEF z
<1>4. o.tty = u /\ o.physical = y /\ o.dirty # {} /\ u \in Grids(tm, tn)
  BY <1>2, <1>3
<1>5. y \in Grids(m, n) /\ Narrow(y, m, n, W) /\ Claims(u, y, m, n, W)
  BY BlankClaims DEF y
<1> QED
  BY <1>4, <1>5 DEF RenderOk

-----------------------------------------------------------------------------
(* The client's screen: the invariant.                                     *)

Sized == Nat \ {0}

\* The terminal is tm by tn, and what the client's m by n cells say of it.
TtyAt(m, n, tm, tn) ==
  /\ physical \in Grids(m, n) /\ Narrow(physical, m, n, wide)
  /\ tty \in Grids(tm, tn) /\ moved \in BOOLEAN
  /\ ~moved => Fitting(m, n, tm, tn) /\ Claims(tty, physical, m, n, wide)
  /\ dirty = {} => Fitting(m, n, tm, tn) /\ RowsAgree(tty, physical, n, wide)

\* The client's grids are m by n, the server's sm by sn.
GridsAt(m, n, sm, sn) ==
  /\ wide \in SUBSET Int
  /\ srv \in Grids(sm, sn) /\ Narrow(srv, sm, sn, wide)
  /\ base \in Grids(m, n) /\ Narrow(base, m, n, wide)
  /\ confirmed \in Grids(m, n) /\ RowsAgree(confirmed, base, n, wide)
  /\ view \in Views /\ banner \in BOOLEAN

ScreenInv ==
  \E m, n, sm, sn, tm, tn \in Sized : GridsAt(m, n, sm, sn) /\ TtyAt(m, n, tm, tn)

(* The constants.                                                          *)
LEMMA ScreenConstants ==
  /\ \A s \in ScreenSizes : s[1] \in Sized /\ s[2] \in Sized
  /\ ScreenGlyphs \subseteq {"a", "b", "w"}
  /\ \A l \in Lines : l \in Seq(Cells)
<1>1. /\ ScreenSizes \subseteq (Nat \ {0}) \X (Nat \ {0}) /\ ScreenGlyphs \subseteq {"a", "b", "w"}
      /\ Lines \subseteq Seq({" ", "a", "b", "w", ">"})
  BY ScreenSideAssumption DEF Screen!ScreenAssumption
<1>2. {" ", "a", "b", "w", ">"} \subseteq Cells
  BY DEF Cells
<1>3. \A l \in Seq({" ", "a", "b", "w", ">"}) : l \in Seq(Cells)
  <2> DEFINE S == {" ", "a", "b", "w", ">"}
  <2> HIDE DEF S
  <2>1. S \subseteq Cells
    BY <1>2 DEF S
  <2>2. \A l \in Seq(S) : l \in Seq(Cells)
    BY <2>1
  <2> QED
    BY <2>2 DEF S
<1> QED
  BY <1>1, <1>3 DEF Sized

(* The live view.                                                          *)
LEMMA LiveIs == Screen!Live \in Views
<1>1. <<>> \in Seq(Seq(Cells))
  OBVIOUS
<1> QED
  BY <1>1 DEF Screen!Live, Views, HistoryLines

(* Rows that agree with narrow rows are narrow.                            *)
LEMMA AgreeNarrow ==
  ASSUME NEW m, NEW n, NEW W, NEW g, NEW h, RowsAgree(g, h, n, W), Narrow(h, m, n, W)
  PROVE  Narrow(g, m, n, W)
BY DEF RowsAgree, Narrow

(* Narrow rows, and what is said of them, when more rows are wide.         *)
LEMMA MoreWide ==
  ASSUME NEW m, NEW n, NEW W, NEW W2, W \subseteq W2, NEW g, NEW h
  PROVE  /\ Narrow(g, m, n, W) => Narrow(g, m, n, W2)
         /\ RowsAgree(g, h, n, W) => RowsAgree(g, h, n, W2)
         /\ Claims(g, h, m, n, W) => Claims(g, h, m, n, W2)
<1>1. \A r : r \notin W2 => r \notin W
  OBVIOUS
<1> QED
  BY <1>1 DEF Narrow, RowsAgree, Claims

(* The start.                                                              *)
LEMMA ScreenInit == Screen!Init => ScreenInv
<1> SUFFICES ASSUME Screen!Init PROVE ScreenInv
  OBVIOUS
<1>1. PICK s \in ScreenSizes : srv = Screen!MakeGrid(s[1], s[2])
  BY DEF Screen!Init
<1> DEFINE m == s[1]
           n == s[2]
<1>2. m \in Sized /\ n \in Sized
  BY ScreenConstants
<1>3. srv = Screen!MakeGrid(m, n)
  BY <1>1
<1> HIDE DEF m, n
<1>4. srv \in Grids(m, n) /\ \A r \in 1 .. n, k \in 1 .. m : srv[r][k] = " "
  BY <1>2, <1>3, BlankGrid DEF Sized
<1>5. Narrow(srv, m, n, wide) /\ RowsAgree(srv, srv, n, wide) /\ Claims(srv, srv, m, n, wide)
  BY <1>4 DEF Narrow, NarrowRow, RowsAgree, Claims
<1>6. /\ base = srv /\ confirmed = srv /\ physical = srv /\ tty = srv /\ view = Screen!Live
      /\ banner = FALSE /\ moved = FALSE /\ wide = {}
  BY DEF Screen!Init
<1>7. GridsAt(m, n, m, n)
  BY <1>4, <1>5, <1>6, LiveIs DEF GridsAt
<1>8. TtyAt(m, n, m, n)
  BY <1>4, <1>5, <1>6 DEF TtyAt, Fitting
<1> QED
  BY <1>2, <1>7, <1>8 DEF ScreenInv

(* What is known of the terminal when more rows are wide.                  *)
LEMMA TtyWider ==
  ASSUME NEW m \in Sized, NEW n \in Sized, NEW tm \in Sized, NEW tn \in Sized,
         TtyAt(m, n, tm, tn), wide \subseteq wide', physical' = physical, tty' = tty,
         dirty' = dirty, moved' = moved
  PROVE  TtyAt(m, n, tm, tn)'
<1>1. /\ Narrow(physical, m, n, wide')
      /\ Claims(tty, physical, m, n, wide) => Claims(tty, physical, m, n, wide')
      /\ RowsAgree(tty, physical, n, wide) => RowsAgree(tty, physical, n, wide')
  BY MoreWide DEF TtyAt
<1> QED
  BY <1>1 DEF TtyAt

(* A program prints.                                                       *)
LEMMA ScreenWrites == ScreenInv /\ Screen!ServerWrites => ScreenInv'
<1> SUFFICES ASSUME ScreenInv, Screen!ServerWrites PROVE ScreenInv'
  OBVIOUS
<1>1. PICK m, n, sm, sn, tm, tn \in Sized : GridsAt(m, n, sm, sn) /\ TtyAt(m, n, tm, tn)
  BY DEF ScreenInv
<1>2. srv \in Grids(sm, sn) /\ Screen!RowsOf(srv) = sn /\ Screen!ColsOf(srv) = sm
  BY <1>1, GridSize DEF GridsAt, Sized
<1>3. PICK r \in 1 .. sn, c \in 1 .. sm, g \in ScreenGlyphs \union {Screen!Blank} :
        /\ srv' = [srv EXCEPT ![r] = [k \in DOMAIN srv[r] |->
               IF k = c THEN g ELSE IF Screen!Wide(g) /\ k = c + 1 THEN Screen!Cont ELSE srv[r][k]]]
        /\ wide' = IF Screen!Wide(g) THEN wide \union {r} ELSE wide
  BY <1>2 DEF Screen!ServerWrites
<1> DEFINE line == [k \in 1 .. sm |-> IF k = c THEN g
                                      ELSE IF Screen!Wide(g) /\ k = c + 1 THEN ">" ELSE srv[r][k]]
<1>4. srv[r] \in [1 .. sm -> Cells] /\ g \in Cells /\ g # ">"
  BY <1>2, ScreenConstants DEF Grids, Cells, Screen!Blank
<1>5. srv' = [srv EXCEPT ![r] = line]
  BY <1>3, <1>4 DEF Screen!Cont
<1>6. /\ line \in [1 .. sm -> Cells]
      /\ ~Screen!Wide(g) => \A k \in 1 .. sm : line[k] = IF k = c THEN g ELSE srv[r][k]
  BY <1>4 DEF Cells
<1> HIDE DEF line
<1>7. srv' \in Grids(sm, sn) /\ srv'[r] = line /\ \A s \in 1 .. sn : s # r => srv'[s] = srv[s]
  BY <1>2, <1>5, <1>6 DEF Grids
<1>8. wide \subseteq wide' /\ wide' \in SUBSET Int /\ (r \notin wide' => ~Screen!Wide(g))
  BY <1>1, <1>3 DEF GridsAt
<1>9. Narrow(srv', sm, sn, wide')
  <2> SUFFICES ASSUME NEW s \in 1 .. sn, s \notin wide', NEW k \in 1 .. sm
               PROVE  srv'[s][k] # "w" /\ srv'[s][k] # ">"
    BY DEF Narrow, NarrowRow
  <2>1. s \notin wide /\ srv[s][k] # "w" /\ srv[s][k] # ">"
    BY <1>1, <1>8 DEF GridsAt, Narrow, NarrowRow
  <2>2. CASE s # r
    BY <1>7, <2>1, <2>2
  <2>3. CASE s = r
    <3>1. line[k] = IF k = c THEN g ELSE srv[r][k]
      BY <1>6, <1>8, <2>3
    <3>2. g # "w"
      BY <1>8, <2>3 DEF Screen!Wide
    <3> QED
      BY <1>4, <1>7, <2>1, <2>3, <3>1, <3>2
  <2> QED
    BY <2>2, <2>3
<1>10. /\ base' = base /\ confirmed' = confirmed /\ physical' = physical /\ tty' = tty
       /\ view' = view /\ banner' = banner /\ dirty' = dirty /\ moved' = moved
  BY DEF Screen!ServerWrites
<1>11. /\ Narrow(base, m, n, wide') /\ RowsAgree(confirmed, base, n, wide')
       /\ view \in Views /\ banner \in BOOLEAN
  BY <1>1, <1>8, MoreWide DEF GridsAt
<1>12. GridsAt(m, n, sm, sn)'
  BY <1>1, <1>7, <1>8, <1>9, <1>10, <1>11 DEF GridsAt
<1>13. TtyAt(m, n, tm, tn)'
  BY <1>1, <1>8, <1>10, TtyWider
<1> QED
  BY <1>12, <1>13 DEF ScreenInv

(* The window changes.                                                     *)
LEMMA ScreenMoved == ScreenInv /\ Screen!WindowResized => ScreenInv'
<1> SUFFICES ASSUME ScreenInv, Screen!WindowResized PROVE ScreenInv'
  OBVIOUS
<1>1. PICK m, n, sm, sn, tm, tn \in Sized : GridsAt(m, n, sm, sn) /\ TtyAt(m, n, tm, tn)
  BY DEF ScreenInv
<1>2. PICK s \in ScreenSizes : tty' = Screen!Unknown(s[1], s[2])
  BY DEF Screen!WindowResized
<1> DEFINE m2 == s[1]
           n2 == s[2]
<1>3. m2 \in Sized /\ n2 \in Sized
  BY ScreenConstants
<1> HIDE DEF m2, n2
<1>4. tty' = Screen!Unknown(m2, n2)
  BY <1>2 DEF m2, n2
<1>5. tty' \in Grids(m2, n2)
  BY <1>3, <1>4 DEF Screen!Unknown, Grids, Cells
<1>6. /\ srv' = srv /\ base' = base /\ confirmed' = confirmed /\ physical' = physical
      /\ view' = view /\ banner' = banner /\ wide' = wide
      /\ moved' = TRUE /\ dirty' # {}
  BY DEF Screen!WindowResized
<1>7. GridsAt(m, n, sm, sn)'
  BY <1>1, <1>6 DEF GridsAt
<1>8. TtyAt(m, n, m2, n2)'
  BY <1>1, <1>5, <1>6 DEF TtyAt
<1> QED
  BY <1>3, <1>7, <1>8 DEF ScreenInv

(* The server hears of it.                                                 *)
LEMMA ScreenResized == ScreenInv /\ Screen!ServerResized => ScreenInv'
<1> SUFFICES ASSUME ScreenInv, Screen!ServerResized PROVE ScreenInv'
  OBVIOUS
<1>1. PICK m, n, sm, sn, tm, tn \in Sized : GridsAt(m, n, sm, sn) /\ TtyAt(m, n, tm, tn)
  BY DEF ScreenInv
<1>2. Screen!ColsOf(tty) = tm /\ Screen!RowsOf(tty) = tn
  BY <1>1, GridSize DEF TtyAt, Sized
<1> DEFINE V == {r - Screen!Excess(srv, tn) : r \in wide}
<1>3. srv' = Screen!FitServer(srv, tm, tn) /\ wide' = wide \union V
  BY <1>2 DEF Screen!ServerResized
<1>4. /\ srv' \in Grids(tm, tn) /\ Narrow(srv', tm, tn, V)
      /\ V \in SUBSET Int
  <2>1. srv' \in Grids(tm, tn) /\ Narrow(srv', tm, tn, V)
    BY <1>1, <1>3, FitServerIs DEF GridsAt, Sized
  <2>2. Screen!Excess(srv, tn) \in Int
    BY <1>1, GridSize DEF GridsAt, Sized, Screen!Excess, Screen!SatSub
  <2> QED
    BY <1>1, <2>1, <2>2 DEF GridsAt
<1> HIDE DEF V
<1>5. wide \subseteq wide' /\ V \subseteq wide' /\ wide' \in SUBSET Int
  BY <1>1, <1>3, <1>4 DEF GridsAt
<1>6. Narrow(srv', tm, tn, wide')
  BY <1>4, <1>5, MoreWide
<1>7. /\ base' = base /\ confirmed' = confirmed /\ physical' = physical /\ tty' = tty
      /\ view' = view /\ banner' = banner /\ dirty' = dirty /\ moved' = moved
  BY DEF Screen!ServerResized
<1>8. Narrow(base, m, n, wide') /\ RowsAgree(confirmed, base, n, wide')
  BY <1>1, <1>5, MoreWide DEF GridsAt
<1>9. GridsAt(m, n, tm, tn)'
  BY <1>1, <1>4, <1>5, <1>6, <1>7, <1>8 DEF GridsAt
<1>10. TtyAt(m, n, tm, tn)'
  BY <1>1, <1>5, <1>7, TtyWider
<1> QED
  BY <1>9, <1>10 DEF ScreenInv

(* What a step shows: an outcome of a render on the terminal as it was,    *)
(* over cells recorded as have.  They are the physical grid, or blank.     *)
LEMMA ShowsIs ==
  ASSUME NEW m1 \in Sized, NEW n1 \in Sized, NEW tm \in Sized, NEW tn \in Sized,
         TtyAt(m1, n1, tm, tn), NEW m \in Sized, NEW n \in Sized, NEW have, NEW o,
         RenderOk(o, tty, have, m, n, tm, tn, wide), Screen!Shows(o), wide' = wide,
         \/ m = m1 /\ n = n1 /\ have = physical
         \/ o.dirty # {} /\ Claims(tty, have, m, n, wide)
  PROVE  TtyAt(m, n, tm, tn)'
<1>1. /\ tty' = o.tty /\ physical' = o.physical /\ dirty' = dirty \union o.dirty
      /\ moved' = (~Screen!SameSize(o.tty, o.physical) \/ (moved /\ o.dirty = {}))
  BY DEF Screen!Shows
<1>2. o.tty \in Grids(tm, tn) /\ o.physical \in Grids(m, n) /\ Narrow(o.physical, m, n, wide)
  BY DEF RenderOk
<1>3. Screen!SameSize(o.tty, o.physical) <=> Fitting(m, n, tm, tn)
  <2>1. /\ Screen!RowsOf(o.tty) = tn /\ Screen!ColsOf(o.tty) = tm
        /\ Screen!RowsOf(o.physical) = n /\ Screen!ColsOf(o.physical) = m
    BY <1>2, GridSize DEF Sized
  <2> QED
    BY <2>1 DEF Screen!SameSize, Fitting
<1>4. moved' \in BOOLEAN
  BY <1>1
<1>5. ASSUME ~moved'
      PROVE  Fitting(m, n, tm, tn) /\ Claims(o.tty, o.physical, m, n, wide)
  <2>1. Fitting(m, n, tm, tn) /\ (~moved \/ o.dirty # {})
    BY <1>1, <1>3, <1>5, ZenonT(40)
  <2>2. o.dirty # {} \/ Claims(tty, have, m, n, wide)
    BY <2>1 DEF TtyAt
  <2> QED
    BY <2>1, <2>2 DEF RenderOk
<1>6. ASSUME dirty' = {}
      PROVE  Fitting(m, n, tm, tn) /\ RowsAgree(o.tty, o.physical, n, wide)
  <2>1. dirty = {} /\ o.dirty = {}
    BY <1>1, <1>6
  <2>2. Fitting(m, n, tm, tn) /\ RowsAgree(tty, have, n, wide)
    BY <2>1 DEF TtyAt
  <2> QED
    BY <2>1, <2>2 DEF RenderOk
<1> QED
  BY <1>1, <1>2, <1>4, <1>5, <1>6 DEF TtyAt

(* A diff arrives.                                                         *)
LEMMA ScreenDatagram == ScreenInv /\ Screen!Datagram => ScreenInv'
<1> SUFFICES ASSUME ScreenInv, Screen!Datagram PROVE ScreenInv'
  OBVIOUS
<1>1. PICK m, n, sm, sn, tm, tn \in Sized : GridsAt(m, n, sm, sn) /\ TtyAt(m, n, tm, tn)
  BY DEF ScreenInv
<1>2. /\ srv \in Grids(sm, sn) /\ Narrow(srv, sm, sn, wide) /\ wide \in SUBSET Int
      /\ base \in Grids(m, n) /\ confirmed \in Grids(m, n) /\ RowsAgree(confirmed, base, n, wide)
      /\ physical \in Grids(m, n) /\ Narrow(physical, m, n, wide) /\ tty \in Grids(tm, tn)
      /\ m \in Nat \ {0} /\ n \in Nat \ {0} /\ sm \in Nat \ {0} /\ sn \in Nat \ {0}
      /\ tm \in Nat \ {0} /\ tn \in Nat \ {0}
  BY <1>1 DEF GridsAt, TtyAt, Sized
<1>3. /\ Screen!ColsOf(srv) = sm /\ Screen!RowsOf(srv) = sn
      /\ Screen!ColsOf(confirmed) = m /\ Screen!RowsOf(confirmed) = n
  BY <1>2, GridSize
<1> DEFINE new == Screen!Apply(confirmed, Screen!ComputeDiffRuns(srv, base), sm, sn)
           resized == sm # m \/ sn # n
           have == IF resized THEN Screen!BlankLike(srv) ELSE physical
           want == Screen!Compose(new, FALSE, pred')
           why == IF resized THEN {"resize"} ELSE {}
<1>4. /\ confirmed' = new /\ base' = srv /\ view' = Screen!Live /\ banner' = FALSE
      /\ srv' = srv /\ wide' = wide
  BY <1>3 DEF Screen!Datagram
<1>5. PICK o \in Screen!Render(tty, want, have) :
        Screen!Shows([o EXCEPT !.dirty = o.dirty \union why])
  BY <1>3, <1>4 DEF Screen!Datagram, Screen!SameSize
<1>6. new \in Grids(sm, sn) /\ RowsAgree(new, srv, sn, wide)
  BY <1>2, ApplyIs
<1> HIDE DEF new
<1>7. Narrow(new, sm, sn, wide)
  BY <1>2, <1>6, AgreeNarrow
<1>8. want \in Grids(sm, sn) /\ Narrow(want, sm, sn, wide)
  <2> DEFINE p == pred'
  <2> HIDE DEF p
  <2>1. LET y == Screen!Compose(new, FALSE, p) IN y \in Grids(sm, sn) /\ Narrow(y, sm, sn, wide)
    BY <1>2, <1>6, <1>7, ComposeIs
  <2> QED
    BY <2>1 DEF p
<1>9. /\ have \in Grids(sm, sn) /\ Narrow(have, sm, sn, wide)
      /\ resized => Claims(tty, have, sm, sn, wide)
  <2>1. CASE resized
    BY <1>2, <2>1, BlankClaims
  <2>2. CASE ~resized
    BY <1>2, <2>2
  <2> QED
    BY <2>1, <2>2
<1>10. RenderOk(o, tty, have, sm, sn, tm, tn, wide)
  <2> HIDE DEF want, have
  <2> QED
    BY <1>2, <1>5, <1>8, <1>9, RenderIs
<1>11. PICK q : q = [o EXCEPT !.dirty = o.dirty \union why]
  OBVIOUS
<1>12. q.tty = o.tty /\ q.physical = o.physical /\ q.dirty = o.dirty \union why
  <2>1. o.dirty = {} \/ o.dirty # {}
    OBVIOUS
  <2>2. \E a, b, d : o = [tty |-> a, physical |-> b, dirty |-> d]
    <3> HIDE DEF want, have
    <3> QED
      BY <1>5 DEF Screen!Render, Screen!FailedWrite
  <2> QED
    BY <1>11, <2>2
<1>13. resized => Claims(o.tty, o.physical, sm, sn, wide) \/ ~Fitting(sm, sn, tm, tn)
  BY <1>9, <1>10 DEF RenderOk
<1>14. RenderOk(q, tty, have, sm, sn, tm, tn, wide)
  <2>1. ~resized => q.dirty = o.dirty
    BY <1>12
  <2>2. resized => q.dirty # {}
    BY <1>12
  <2> HIDE DEF have, resized, why
  <2> QED
    BY <1>10, <1>12, <1>13, <2>1, <2>2 DEF RenderOk
<1>15. \/ sm = m /\ sn = n /\ have = physical
       \/ q.dirty # {} /\ Claims(tty, have, sm, sn, wide)
  BY <1>9, <1>12
<1> HIDE DEF want, have, why, resized
<1>16. TtyAt(sm, sn, tm, tn)'
  BY <1>1, <1>4, <1>5, <1>11, <1>14, <1>15, ShowsIs
<1>17. GridsAt(sm, sn, sm, sn)'
  BY <1>2, <1>4, <1>6, LiveIs DEF GridsAt
<1> QED
  BY <1>16, <1>17 DEF ScreenInv

(* The facts of the invariant that a step which only draws uses.           *)
LEMMA ScreenFacts ==
  ASSUME NEW m \in Sized, NEW n \in Sized, NEW sm \in Sized, NEW sn \in Sized,
         NEW tm \in Sized, NEW tn \in Sized, GridsAt(m, n, sm, sn), TtyAt(m, n, tm, tn)
  PROVE  /\ m \in Nat \ {0} /\ n \in Nat \ {0} /\ tm \in Nat \ {0} /\ tn \in Nat \ {0}
         /\ confirmed \in Grids(m, n) /\ Narrow(confirmed, m, n, wide)
         /\ physical \in Grids(m, n) /\ Narrow(physical, m, n, wide)
         /\ tty \in Grids(tm, tn)
         /\ view \in Views /\ banner \in BOOLEAN /\ Screen!RowsOf(confirmed) = n
<1>1. Narrow(confirmed, m, n, wide)
  BY AgreeNarrow DEF GridsAt
<1>2. Screen!RowsOf(confirmed) = n
  BY GridSize DEF GridsAt, Sized
<1> QED
  BY <1>1, <1>2 DEF GridsAt, TtyAt, Sized

(* A step that draws and changes no grid of cells.                         *)
LEMMA ScreenOnce ==
  ASSUME NEW m \in Sized, NEW n \in Sized, NEW sm \in Sized, NEW sn \in Sized,
         NEW tm \in Sized, NEW tn \in Sized, GridsAt(m, n, sm, sn), TtyAt(m, n, tm, tn),
         srv' = srv, base' = base, confirmed' = confirmed, wide' = wide,
         view' \in Views, banner' \in BOOLEAN,
         NEW o, RenderOk(o, tty, physical, m, n, tm, tn, wide), Screen!Shows(o)
  PROVE  ScreenInv'
<1>1. TtyAt(m, n, tm, tn)'
  BY ShowsIs
<1>2. GridsAt(m, n, sm, sn)'
  BY DEF GridsAt
<1> QED
  BY <1>1, <1>2 DEF ScreenInv

(* A keystroke: at most two renders, one after the other.                  *)
LEMMA ScreenKeystroke == ScreenInv /\ Screen!Keystroke => ScreenInv'
<1> SUFFICES ASSUME ScreenInv, Screen!Keystroke PROVE ScreenInv'
  OBVIOUS
<1>1. PICK m, n, sm, sn, tm, tn \in Sized : GridsAt(m, n, sm, sn) /\ TtyAt(m, n, tm, tn)
  BY DEF ScreenInv
<1>2. /\ m \in Nat \ {0} /\ n \in Nat \ {0} /\ tm \in Nat \ {0} /\ tn \in Nat \ {0}
      /\ confirmed \in Grids(m, n) /\ Narrow(confirmed, m, n, wide)
      /\ physical \in Grids(m, n) /\ Narrow(physical, m, n, wide)
      /\ tty \in Grids(tm, tn) /\ view \in Views /\ banner \in BOOLEAN
  BY <1>1, ScreenFacts
<1> DEFINE same == [tty |-> tty, physical |-> physical, dirty |-> {}]
           back == IF view.active THEN Screen!Render(tty, confirmed, physical) ELSE {same}
           want == Screen!Compose(confirmed, banner, pred')
<1>3. PICK forwards \in BOOLEAN :
       \E first \in back :
        \E second \in (IF forwards THEN Screen!Render(first.tty, want, first.physical)
                       ELSE {first}) :
          Screen!Shows([second EXCEPT !.dirty = second.dirty \union first.dirty])
  BY DEF Screen!Keystroke
<1>3a. PICK first \in back :
        \E second \in (IF forwards THEN Screen!Render(first.tty, want, first.physical)
                       ELSE {first}) :
          Screen!Shows([second EXCEPT !.dirty = second.dirty \union first.dirty])
  BY <1>3
<1>3b. PICK second \in (IF forwards THEN Screen!Render(first.tty, want, first.physical)
                        ELSE {first}) :
          Screen!Shows([second EXCEPT !.dirty = second.dirty \union first.dirty])
  BY <1>3a
<1>4. RenderOk(first, tty, physical, m, n, tm, tn, wide)
  <2>1. CASE view.active
    BY <1>2, <2>1, RenderIs
  <2>2. CASE ~view.active
    <3>1. first.tty = tty /\ first.physical = physical /\ first.dirty = {}
      BY <2>2
    <3> QED
      BY <1>2, <3>1 DEF RenderOk
  <2> QED
    BY <2>1, <2>2
<1>5. \E a, b, d : first = [tty |-> a, physical |-> b, dirty |-> d]
  BY DEF Screen!Render, Screen!FailedWrite
<1> HIDE DEF back, same
<1>6. want \in Grids(m, n) /\ Narrow(want, m, n, wide)
  <2> DEFINE p == pred'
  <2> HIDE DEF p
  <2>1. LET y == Screen!Compose(confirmed, banner, p) IN y \in Grids(m, n) /\ Narrow(y, m, n, wide)
    BY <1>2, ComposeIs
  <2> QED
    BY <2>1 DEF p
<1> HIDE DEF want
<1>7. /\ first.tty \in Grids(tm, tn) /\ first.physical \in Grids(m, n)
      /\ Narrow(first.physical, m, n, wide)
  BY <1>4 DEF RenderOk
<1>8. \E a, b, d : second = [tty |-> a, physical |-> b, dirty |-> d]
  <2>1. CASE forwards
    BY <1>3b, <2>1 DEF Screen!Render, Screen!FailedWrite
  <2>2. CASE ~forwards
    BY <1>3b, <1>5, <2>2
  <2> QED
    BY <2>1, <2>2
<1>9. PICK q : q = [second EXCEPT !.dirty = second.dirty \union first.dirty]
  OBVIOUS
<1>10. q.tty = second.tty /\ q.physical = second.physical
       /\ q.dirty = second.dirty \union first.dirty
  BY <1>8, <1>9
<1>11. RenderOk(q, tty, physical, m, n, tm, tn, wide)
  <2>1. CASE forwards
    <3>1. second \in Screen!Render(first.tty, want, first.physical)
      BY <1>3b, <2>1
    <3>2. RenderOk(second, first.tty, first.physical, m, n, tm, tn, wide)
      BY <1>2, <1>6, <1>7, <3>1, RenderIs
    <3>3. /\ q.dirty # {} => second.dirty # {} \/ first.dirty # {}
          /\ q.dirty = {} => second.dirty = {} /\ first.dirty = {}
      BY <1>10
    <3> QED
      BY <1>4, <1>10, <3>2, <3>3 DEF RenderOk
  <2>2. CASE ~forwards
    <3>1. second = first
      BY <1>3b, <2>2
    <3>2. q.dirty = first.dirty
      BY <1>10, <3>1
    <3> QED
      BY <1>4, <1>10, <3>1, <3>2 DEF RenderOk
  <2> QED
    BY <2>1, <2>2
<1>12. /\ srv' = srv /\ base' = base /\ confirmed' = confirmed /\ wide' = wide
       /\ view' = Screen!Live /\ banner' = banner
  BY DEF Screen!Keystroke
<1>13. Screen!Shows(q)
  BY <1>3b, <1>9
<1> QED
  BY <1>1, <1>2, <1>11, <1>12, <1>13, LiveIs, ScreenOnce

(* The banner and the scrollback view.                                     *)
LEMMA ScreenPaints ==
  ScreenInv /\ (Screen!Silence \/ Screen!PageUp \/ Screen!PageDown \/ Screen!RecvPage)
    => ScreenInv'
<1> SUFFICES ASSUME ScreenInv,
                    Screen!Silence \/ Screen!PageUp \/ Screen!PageDown \/ Screen!RecvPage
             PROVE  ScreenInv'
  OBVIOUS
<1>1. PICK m, n, sm, sn, tm, tn \in Sized : GridsAt(m, n, sm, sn) /\ TtyAt(m, n, tm, tn)
  BY DEF ScreenInv
<1>2. /\ m \in Nat \ {0} /\ n \in Nat \ {0} /\ tm \in Nat \ {0} /\ tn \in Nat \ {0}
      /\ confirmed \in Grids(m, n) /\ Narrow(confirmed, m, n, wide)
      /\ physical \in Grids(m, n) /\ Narrow(physical, m, n, wide)
      /\ tty \in Grids(tm, tn)
      /\ view \in Views /\ banner \in BOOLEAN /\ Screen!RowsOf(confirmed) = n
  BY <1>1, ScreenFacts
<1>3. view.active \in BOOLEAN /\ view.lines \in HistoryLines /\ view.offset \in Nat
  BY <1>2 DEF Views
<1>4. srv' = srv /\ base' = base /\ confirmed' = confirmed /\ wide' = wide
  BY DEF Screen!Silence, Screen!PageUp, Screen!PageDown, Screen!RecvPage
<1>5. CASE Screen!Silence
  <2> DEFINE want == Screen!Compose(confirmed, TRUE, pred)
  <2>1. PICK o \in Screen!Render(tty, want, physical) :
          Screen!Shows(o)
    BY <1>5 DEF Screen!Silence
  <2>2. want \in Grids(m, n) /\ Narrow(want, m, n, wide)
    BY <1>2, ComposeIs
  <2> HIDE DEF want
  <2>3. RenderOk(o, tty, physical, m, n, tm, tn, wide)
    BY <1>2, <2>2, RenderIs
  <2>4. view' = view /\ banner' = TRUE
    BY <1>5 DEF Screen!Silence
  <2> QED
    BY <1>1, <1>2, <1>4, <2>1, <2>3, <2>4, ScreenOnce
<1>6. ASSUME view' \in Views, banner' = banner,
             \E o \in Screen!Paint(view') : Screen!Shows(o)
      PROVE  ScreenInv'
  <2> DEFINE v == view'
  <2>1. PICK o \in Screen!Paint(v) : Screen!Shows(o)
    BY <1>6
  <2>2. v \in Views
    BY <1>6
  <2> HIDE DEF v
  <2>3. RenderOk(o, tty, physical, m, n, tm, tn, wide)
    BY <1>2, <2>1, <2>2, PaintIs
  <2> QED
    BY <1>1, <1>2, <1>4, <1>6, <2>1, <2>3, ScreenOnce
<1>7. CASE Screen!PageUp
  <2>1. /\ view' = IF view.active THEN [view EXCEPT !.offset = view.offset + n]
                   ELSE [active |-> TRUE, lines |-> <<>>, offset |-> 0]
        /\ banner' = banner
        /\ \E o \in Screen!Paint(view') : Screen!Shows(o)
    BY <1>2, <1>7 DEF Screen!PageUp
  <2>2. <<>> \in HistoryLines
    BY DEF HistoryLines
  <2>3. view' \in Views
    BY <1>2, <1>3, <2>1, <2>2 DEF Views
  <2> QED
    BY <1>6, <2>1, <2>3
<1>8. CASE Screen!RecvPage
  <2>1. PICK line \in Lines :
          /\ view' = [view EXCEPT !.lines = <<line>> \o view.lines]
          /\ banner' = banner
          /\ \E o \in Screen!Paint(view') : Screen!Shows(o)
    BY <1>8 DEF Screen!RecvPage
  <2> DEFINE q == <<line>> \o view.lines
  <2>2. q \in HistoryLines
    <3>1. line \in Seq(Cells)
      BY ScreenConstants
    <3> QED
      BY <1>3, <3>1 DEF HistoryLines
  <2> HIDE DEF q
  <2>3. view' \in Views
    BY <1>2, <2>1, <2>2 DEF Views, q
  <2> QED
    BY <1>6, <2>1, <2>3
<1>9. CASE Screen!PageDown
  <2> DEFINE exits == view.offset <= n
  <2>1. /\ view' = IF exits THEN Screen!Live ELSE [view EXCEPT !.offset = view.offset - n]
        /\ banner' = banner
        /\ \E o \in (IF exits THEN Screen!Render(tty, confirmed, physical)
                     ELSE Screen!Paint(view')) :
             Screen!Shows(o)
    BY <1>2, <1>9 DEF Screen!PageDown
  <2>2. view' \in Views
    BY <1>2, <1>3, <2>1, LiveIs DEF Views
  <2>3. CASE exits
    <3>1. PICK o \in Screen!Render(tty, confirmed, physical) :
            Screen!Shows(o)
      BY <2>1, <2>3
    <3>2. RenderOk(o, tty, physical, m, n, tm, tn, wide)
      BY <1>2, RenderIs
    <3> QED
      BY <1>1, <1>2, <1>4, <2>1, <2>2, <3>1, <3>2, ScreenOnce
  <2>4. CASE ~exits
    <3>1. \E o \in Screen!Paint(view') : Screen!Shows(o)
      BY <2>1, <2>4
    <3> QED
      BY <1>6, <2>1, <2>2, <3>1
  <2> QED
    BY <2>3, <2>4
<1> QED
  BY <1>5, <1>7, <1>8, <1>9

(* The screen keeps ScreenInv: on rows without wide glyphs the confirmed   *)
(* grid is the acknowledged one and the physical grid is on the terminal.  *)
THEOREM ScreenInvariance == Screen!Spec => []ScreenInv
<1>1. ScreenInv /\ [Screen!Next]_(Screen!vars) => ScreenInv'
  <2> SUFFICES ASSUME ScreenInv, [Screen!Next]_(Screen!vars) PROVE ScreenInv'
    OBVIOUS
  <2>1. CASE UNCHANGED Screen!vars
    BY <2>1 DEF Screen!vars, ScreenInv, GridsAt, TtyAt
  <2>2. CASE Screen!Done
    BY <2>1, <2>2 DEF Screen!Done
  <2> QED
    BY <2>1, <2>2, ScreenWrites, ScreenMoved, ScreenResized, ScreenDatagram,
       ScreenKeystroke, ScreenPaints DEF Screen!Next
<1> QED
  BY <1>1, ScreenInit, PTL DEF Screen!Spec

(* For every window size and every history: a diff against the grid the    *)
(* client acknowledged makes its rows the server's, wide glyphs apart.     *)
THEOREM ScreenRowsAgree == Screen!Spec => []NarrowRowsAgree
<1>1. ScreenInv => NarrowRowsAgree
  <2> SUFFICES ASSUME ScreenInv PROVE NarrowRowsAgree
    OBVIOUS
  <2>1. PICK m, n, sm, sn, tm, tn \in Sized : GridsAt(m, n, sm, sn) /\ TtyAt(m, n, tm, tn)
    BY DEF ScreenInv
  <2>2. Screen!RowsOf(base) = n /\ RowsAgree(confirmed, base, n, wide)
    BY <2>1, GridSize DEF GridsAt, Sized
  <2> QED
    BY <2>2 DEF RowsAgree, NarrowRowsAgree, Screen!NarrowRowsAgree
<1> QED
  BY <1>1, ScreenInvariance, PTL

(* Whatever failed writes and frames came between, what the compositor     *)
(* believes is drawn is on the terminal, except from a change of the       *)
(* window until the physical grid is next forgotten at its size; and until *)
(* one of the three came nothing else is there.                            *)
THEOREM ScreenTtyShows == Screen!Spec => []TtyShowsPhysical
<1>1. ScreenInv => TtyShowsPhysical
  <2> SUFFICES ASSUME ScreenInv PROVE TtyShowsPhysical
    OBVIOUS
  <2>1. PICK m, n, sm, sn, tm, tn \in Sized : GridsAt(m, n, sm, sn) /\ TtyAt(m, n, tm, tn)
    BY DEF ScreenInv
  <2>2. /\ Screen!RowsOf(physical) = n /\ Screen!ColsOf(physical) = m
        /\ Screen!RowsOf(tty) = tn /\ Screen!ColsOf(tty) = tm
        /\ ~moved => Fitting(m, n, tm, tn) /\ Claims(tty, physical, m, n, wide)
        /\ dirty = {} => RowsAgree(tty, physical, n, wide)
    BY <2>1, GridSize DEF TtyAt, Sized
  <2>3. Screen!PhysicalIsOnTty
    BY <2>2 DEF Claims, Fitting, Screen!SameSize, Screen!PhysicalIsOnTty, Screen!Blank
  <2>4. Screen!TtyIsPhysical
    BY <2>2 DEF RowsAgree, Screen!TtyIsPhysical
  <2> QED
    BY <2>3, <2>4 DEF TtyShowsPhysical
<1> QED
  BY <1>1, ScreenInvariance, PTL
=============================================================================
