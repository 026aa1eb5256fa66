---------------------------- MODULE OutputBuffer ----------------------------
(***************************************************************************)
(* SequencedOutputBuffer (crates/nosh-server/src/registry.rs): the byte    *)
(* bounded ring in which a session slot keeps PTY output for replay.       *)
(*                                                                         *)
(* A chunk is abstracted to its number, its length and the position of its *)
(* first byte in the session's output stream.  The position is auxiliary:  *)
(* it makes the bytes held by a run of neighbouring chunks the difference  *)
(* of two positions, which is what the code's loops compute by adding and  *)
(* subtracting one length at a time.                                       *)
(***************************************************************************)
EXTENDS Integers, Sequences

CONSTANTS
  MaxBytes,    \* max_bytes: the byte cap of the ring
  ChunkSizes,  \* lengths one PTY read can return
  MaxChunks    \* bound: chunks pushed in one behaviour

ASSUME OutputBufferAssumption ==
  /\ MaxBytes \in Nat
  /\ ChunkSizes \subseteq Nat \ {0}
  /\ MaxChunks \in Nat

VARIABLES
  next_seq,             \* sequence number of the next chunk
  ring,                 \* retained chunks, oldest first
  total_bytes,          \* bytes the code believes the ring holds
  lowest_retained_seq,  \* written when a chunk is evicted by the cap
  truncated,            \* whether the cap ever evicted a chunk
  pushed,               \* auxiliary: bytes pushed since the session began
  acked                 \* auxiliary: highest acknowledgement trimmed so far

vars == <<next_seq, ring, total_bytes, lowest_retained_seq, truncated,
          pushed, acked>>

Chunk == [seq : Nat, size : ChunkSizes, at : Nat]

(* What is left of r once its k oldest chunks are popped, and the number   *)
(* of bytes those k chunks hold when r ends at stream position end.        *)
Without(r, k) == SubSeq(r, k + 1, Len(r))

BytesOfOldest(r, k, end) ==
  IF k = 0 THEN 0 ELSE (IF k < Len(r) THEN r[k + 1].at ELSE end) - r[1].at

Init ==
  /\ next_seq = 0
  /\ ring = << >>
  /\ total_bytes = 0
  /\ lowest_retained_seq = 0
  /\ truncated = FALSE
  /\ pushed = 0
  /\ acked = 0

(* The eviction loop of push stops after popping k chunks: it is within    *)
(* the cap or down to the chunk just pushed, and was neither any earlier.  *)
EvictionStopsAt(r, total, end, k) ==
  LET Done(j) == \/ total - BytesOfOldest(r, j, end) <= MaxBytes
                 \/ j = Len(r) - 1
  IN  Done(k) /\ \A j \in 0 .. k - 1 : ~Done(j)

(* push: number the chunk, append it, evict from the front.                *)
Push(size) ==
  LET r     == Append(ring, [seq |-> next_seq, size |-> size, at |-> pushed])
      total == total_bytes + size
      end   == pushed + size
  IN  /\ next_seq < MaxChunks
      /\ next_seq' = next_seq + 1
      /\ pushed' = end
      /\ \E k \in 0 .. Len(r) - 1 :
           /\ EvictionStopsAt(r, total, end, k)
           /\ ring' = Without(r, k)
           /\ total_bytes' = total - BytesOfOldest(r, k, end)
           /\ truncated' = (truncated \/ k > 0)
           /\ lowest_retained_seq' =
                IF k > 0 THEN r[k + 1].seq ELSE lowest_retained_seq
      /\ UNCHANGED acked

(* Mutants: trimming does not give its bytes back; it also drops the chunk *)
(* the client asked to continue from.                                      *)
TrimUncounted(n) ==
  /\ \E k \in 0 .. Len(ring) :
       /\ \A i \in 1 .. k : ring[i].seq < n
       /\ k < Len(ring) => ring[k + 1].seq >= n
       /\ ring' = Without(ring, k)
  /\ acked' = IF n > acked THEN n ELSE acked
  /\ UNCHANGED <<next_seq, total_bytes, lowest_retained_seq, truncated, pushed>>

TrimInclusive(n) ==
  /\ \E k \in 0 .. Len(ring) :
       /\ \A i \in 1 .. k : ring[i].seq <= n
       /\ k < Len(ring) => ring[k + 1].seq > n
       /\ ring' = Without(ring, k)
       /\ total_bytes' = total_bytes - BytesOfOldest(ring, k, pushed)
  /\ acked' = IF n > acked THEN n ELSE acked
  /\ UNCHANGED <<next_seq, lowest_retained_seq, truncated, pushed>>

(* trim_acked pops from the front while the front chunk is below n.  An    *)
(* acknowledgement counts chunks the client received, so n <= next_seq.    *)
TrimAcked(n) ==
  /\ \E k \in 0 .. Len(ring) :
       /\ \A i \in 1 .. k : ring[i].seq < n
       /\ k < Len(ring) => ring[k + 1].seq >= n
       /\ ring' = Without(ring, k)
       /\ total_bytes' = total_bytes - BytesOfOldest(ring, k, pushed)
  /\ acked' = IF n > acked THEN n ELSE acked
  /\ UNCHANGED <<next_seq, lowest_retained_seq, truncated, pushed>>

Next ==
  \/ \E size \in ChunkSizes : Push(size)
  \/ \E n \in 0 .. next_seq : TrimAcked(n)

Spec == Init /\ [][Next]_vars

(* Mutant: the chunk the client asked for is left out.                     *)
ReplayAfter(want) ==
  IF ring = << >>
  THEN [chunks |-> {}, from |-> want, truncated |-> FALSE]
  ELSE LET below == ring[1].seq > want
       IN  [chunks    |-> {ring[i].seq : i \in {j \in 1 .. Len(ring) :
                                                  ring[j].seq > want}},
            from      |-> IF below THEN ring[1].seq ELSE want,
            truncated |-> below]

(* replay_from: the sequence numbers sent to a client that has applied     *)
(* want chunks, the number ReattachOk announces, and the truncation flag   *)
(* it carries.                                                             *)
ReplayFrom(want) ==
  IF ring = << >>
  THEN [chunks |-> {}, from |-> want, truncated |-> FALSE]
  ELSE LET below == ring[1].seq > want
       IN  [chunks    |-> {ring[i].seq : i \in {j \in 1 .. Len(ring) :
                                                  ring[j].seq >= want}},
            from      |-> IF below THEN ring[1].seq ELSE want,
            truncated |-> below]
-----------------------------------------------------------------------------
TypeOK ==
  /\ next_seq \in Nat
  /\ ring \in Seq(Chunk)
  /\ total_bytes \in Nat
  /\ lowest_retained_seq \in Nat
  /\ truncated \in BOOLEAN
  /\ pushed \in Nat
  /\ acked \in Nat

(* The oldest retained chunk, or the next one when nothing is retained.    *)
Front == IF ring = << >> THEN next_seq ELSE ring[1].seq

(* r is the run of chunks that ends with chunk n - 1 at stream position    *)
(* end: numbers and positions follow one another without a hole.           *)
IsSuffix(r, n, end) ==
  /\ \A i \in 1 .. Len(r) : r[i].seq = n - Len(r) + (i - 1)
  /\ \A i \in 1 .. Len(r) :
       r[i].at + r[i].size = IF i < Len(r) THEN r[i + 1].at ELSE end

(* The ring holds consecutive chunks that end with the newest, and         *)
(* total_bytes is the number of bytes from the first of them to the end of *)
(* the stream: push and trim_acked together never leave a hole, reorder,   *)
(* or let the unsigned byte counter drift from what the ring holds.        *)
RingIsSuffixOfStream ==
  /\ IsSuffix(ring, next_seq, pushed)
  /\ total_bytes = IF ring = << >> THEN 0 ELSE pushed - ring[1].at

(* The cap (D-11): the ring is over max_bytes only while it holds nothing  *)
(* but the newest chunk, however pushes and acknowledgements interleave.   *)
CapRespected == total_bytes <= MaxBytes \/ Len(ring) = 1

(* A reconnecting client that asks for a point it never acknowledged past  *)
(* gets every chunk from the announced number to the newest; that number   *)
(* is the one it asked for unless the reply says output was lost, and the  *)
(* reply says so only if the cap really evicted something (D-09).          *)
ReplayExact ==
  \A want \in acked .. next_seq :
    LET R == ReplayFrom(want)
    IN  /\ R.chunks = R.from .. next_seq - 1
        /\ IF R.truncated THEN truncated /\ R.from > want ELSE R.from = want

Window == INSTANCE ReplayWindow WITH
            low <- Front, next <- next_seq, overflowed <- truncated

(* The ring implements the abstract replay window.                         *)
ImplementsWindow == Window!Spec
=============================================================================
