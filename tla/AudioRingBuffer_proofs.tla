------------------------ MODULE AudioRingBuffer_proofs ------------------------
(***************************************************************************)
(* Proofs about AudioRingBuffer, for every capacity and all packet and     *)
(* device buffer sizes.                                                    *)
(***************************************************************************)
EXTENDS AudioRingBuffer, TLAPS

(* Going around the ring once: the remainder the code takes of a position  *)
(* less than two laps ahead is the position or one lap less.               *)
LEMMA Wrap ==
    ASSUME NEW p \in Slots, NEW d \in 0 .. Capacity
    PROVE  (p + d) % Capacity = IF p + d < Capacity THEN p + d ELSE p + d - Capacity
BY CapacityAssumption DEF Slots

(* Even numbers are closed under subtraction.                              *)
LEMMA EvenDifference == \A a, b \in Nat : a % 2 = 0 /\ b % 2 = 0 => (a - b) % 2 = 0
OBVIOUS

(* A distance around the ring is less than a lap.                          *)
LEMMA DistanceRange ==
    \A p, s \in Slots : Distance(p, s) \in Nat /\ Distance(p, s) < Capacity
BY CapacityAssumption DEF Slots, Distance

(* The inductive invariant.                                                *)
Inv == TypeOK /\ Contiguous

(* A new ring is empty, so that it holds the newest samples trivially.     *)
LEMMA InitInv == Init => Inv
BY CapacityAssumption DEF Init, Inv, TypeOK, Contiguous, Slots, Distance

(* push keeps the newest samples in order, in each of its three cases.     *)
LEMMA PushInv == ASSUME Inv, NEW n \in PushCounts, push(n) PROVE Inv'
<1> USE CapacityAssumption, CountsAssumption
<1> n \in Nat \ {0}
  OBVIOUS
<1> USE DEF Inv, TypeOK
<1>1. CASE push_all(n)
  <2>1. 0 \in Slots /\ produced + n - Capacity \in Nat
    BY <1>1 DEF push_all, Slots
  <2>2. /\ read_position' = 0 /\ size' = Capacity /\ produced' = produced + n
        /\ samples' = CopyIn(0, Capacity, produced + n - Capacity)
        /\ output' = output
    BY <1>1 DEF push, push_all
  <2>3. TypeOK'
    <3>1. samples' \in [Slots -> Nat]
      <4>1. \A s \in Slots : produced + n - Capacity + Distance(0, s) \in Nat
        BY <2>1, DistanceRange
      <4> QED BY <2>1, <2>2, <4>1 DEF CopyIn
    <3>2. size' <= produced' /\ produced' \in Nat
      BY <1>1, <2>2 DEF push_all
    <3> QED BY <2>1, <2>2, <3>1, <3>2
  <2>4. ASSUME NEW s \in Slots
        PROVE  samples'[s] = produced + n - Capacity + Distance(0, s)
    BY <2>1, <2>2, <2>4, DistanceRange DEF CopyIn
  <2> QED BY <2>2, <2>3, <2>4 DEF Contiguous
<1>2. CASE push_discarding(n)
  <2> DEFINE discard == n - (Capacity - size)
             kept    == size - discard
             read    == (read_position + discard) % Capacity
             at      == (read + kept) % Capacity
  <2>1. /\ n < Capacity /\ discard \in 1 .. Capacity /\ kept \in 0 .. Capacity
        /\ kept + n = Capacity /\ kept + discard = size
    BY <1>2 DEF push_discarding
  <2>2. /\ read_position' = read /\ size' = Capacity
        /\ samples' = CopyIn(at, n, produced) /\ produced' = produced + n
        /\ output' = output
    BY <1>2, <2>1 DEF push, push_discarding
  <2> HIDE DEF discard, kept
  <2>3. read = IF read_position + discard < Capacity
               THEN read_position + discard ELSE read_position + discard - Capacity
    BY <2>1, Wrap
  <2>4. read \in Slots
    BY <2>1, <2>3 DEF Slots
  <2> HIDE DEF read
  <2>5. at = IF read + kept < Capacity THEN read + kept ELSE read + kept - Capacity
    BY <2>1, <2>4, Wrap
  <2>6. at \in Slots
    BY <2>1, <2>4, <2>5 DEF Slots
  <2> HIDE DEF at
  <2>7. TypeOK'
    <3>1. samples' \in [Slots -> Nat]
      BY <2>2, <2>6, DistanceRange DEF CopyIn
    <3>2. size' <= produced'
      BY <2>1, <2>2
    <3> QED BY <2>2, <2>4, <3>1, <3>2
  <2>8. ASSUME NEW s \in Slots
        PROVE  samples'[s] = produced + n - Capacity + Distance(read, s)
    <3>1. CASE Distance(at, s) < n
      <4>1. samples'[s] = produced + Distance(at, s)
        BY <2>2, <2>6, <2>8, <3>1, DistanceRange DEF CopyIn
      <4>2. Distance(read, s) = kept + Distance(at, s)
        BY <2>1, <2>4, <2>5, <2>6, <2>8, <3>1 DEF Distance, Slots
      <4>3. Distance(at, s) \in Nat
        BY <2>6, <2>8, DistanceRange
      <4>4. \A d \in Nat : produced + n - Capacity + (kept + d) = produced + d
        BY <2>1
      <4> QED BY <4>1, <4>2, <4>3, <4>4
    <3>2. CASE ~(Distance(at, s) < n)
      <4>1. samples'[s] = samples[s]
        BY <2>2, <2>6, <2>8, <3>2, DistanceRange DEF CopyIn
      <4>2. /\ Distance(read_position, s) < size
            /\ Distance(read_position, s) = Distance(read, s) + discard
        BY <2>1, <2>3, <2>4, <2>5, <2>6, <2>8, <3>2 DEF Distance, Slots
      <4>3. samples[s] = produced - size + Distance(read_position, s)
        BY <2>8, <4>2 DEF Contiguous
      <4>4. Distance(read, s) \in Nat
        BY <2>4, <2>8, DistanceRange
      <4> QED BY <2>1, <4>1, <4>2, <4>3, <4>4
    <3> QED BY <3>1, <3>2
  <2> QED BY <2>2, <2>7, <2>8 DEF Contiguous
<1>3. CASE push_fitting(n)
  <2> DEFINE at == (read_position + size) % Capacity
  <2>1. at = IF read_position + size < Capacity
             THEN read_position + size ELSE read_position + size - Capacity
    BY Wrap
  <2>2. /\ n < Capacity /\ n + size <= Capacity
        /\ read_position' = read_position /\ size' = size + n
        /\ samples' = CopyIn(at, n, produced) /\ produced' = produced + n
        /\ output' = output
    BY <1>3 DEF push, push_fitting
  <2>3. at \in Slots
    BY <2>1 DEF Slots
  <2> HIDE DEF at
  <2>4. TypeOK'
    BY <2>2, <2>3, DistanceRange DEF CopyIn
  <2>5. ASSUME NEW s \in Slots, Distance(read_position, s) < size + n
        PROVE  samples'[s] = produced - size + Distance(read_position, s)
    <3>1. CASE Distance(at, s) < n
      <4>1. samples'[s] = produced + Distance(at, s)
        BY <2>2, <2>3, <2>5, <3>1, DistanceRange DEF CopyIn
      <4>2. Distance(read_position, s) = size + Distance(at, s)
        <5>1. CASE read_position + size < Capacity
          BY <2>1, <2>2, <2>5, <3>1, <5>1 DEF Distance, Slots
        <5>2. CASE read_position + size >= Capacity
          BY <2>1, <2>2, <2>5, <3>1, <5>2 DEF Distance, Slots
        <5> QED BY <5>1, <5>2 DEF Slots
      <4>3. Distance(at, s) \in Nat
        BY <2>3, <2>5, DistanceRange
      <4> QED BY <4>1, <4>2, <4>3
    <3>2. CASE ~(Distance(at, s) < n)
      <4>1. samples'[s] = samples[s]
        BY <2>2, <2>3, <2>5, <3>2, DistanceRange DEF CopyIn
      <4>2. Distance(read_position, s) < size
        BY <2>1, <2>2, <2>3, <2>5, <3>2 DEF Distance, Slots
      <4> QED BY <2>5, <4>1, <4>2 DEF Contiguous
    <3> QED BY <3>1, <3>2
  <2> QED BY <2>2, <2>4, <2>5 DEF Contiguous
<1> QED BY <1>1, <1>2, <1>3 DEF push

(* clear leaves an empty ring.                                             *)
LEMMA ClearInv == ASSUME Inv, clear PROVE Inv'
BY CapacityAssumption DEF Inv, TypeOK, Contiguous, clear, Slots, Distance

(* A pop delivers the oldest stored samples in order.                      *)
LEMMA PopOutput ==
    ASSUME Inv, NEW n \in PopCounts, pop(n)
    PROVE  \E count \in 0 .. size :
              /\ count = IF n < size THEN n ELSE size
              /\ size' = size - count
              /\ output' = [i \in 1 .. count |-> produced - size + i - 1]
              /\ produced' = produced
              /\ samples' = samples
              /\ read_position' = IF read_position + count < Capacity
                                  THEN read_position + count
                                  ELSE read_position + count - Capacity
<1> USE CapacityAssumption, CountsAssumption DEF Inv, TypeOK
<1> DEFINE count == IF n < size THEN n ELSE size
<1>1. count \in 0 .. size
  OBVIOUS
<1>2. /\ size' = size - count /\ produced' = produced /\ samples' = samples
      /\ output' = CopyOut(read_position, count)
      /\ read_position' = (read_position + count) % Capacity
  BY DEF pop
<1> HIDE DEF count
<1>3. ASSUME NEW i \in 1 .. count
      PROVE  samples[(read_position + i - 1) % Capacity] = produced - size + i - 1
  <2> DEFINE s == (read_position + i - 1) % Capacity
  <2>1. i - 1 \in 0 .. Capacity /\ read_position + i - 1 = read_position + (i - 1)
    BY <1>1, <1>3
  <2>2. s = (IF read_position + i - 1 < Capacity
             THEN read_position + i - 1 ELSE read_position + i - 1 - Capacity)
    BY <2>1, Wrap
  <2> HIDE DEF s
  <2>3. s \in Slots /\ Distance(read_position, s) = i - 1
    BY <1>1, <1>3, <2>2 DEF Distance, Slots
  <2>4. samples[s] = produced - size + (i - 1)
    BY <1>1, <1>3, <2>3 DEF Contiguous
  <2> QED BY <1>1, <1>3, <2>4 DEF s
<1>4. output' = [i \in 1 .. count |-> produced - size + i - 1]
  BY <1>2, <1>3 DEF CopyOut
<1>5. count \in 0 .. Capacity
  BY <1>1
<1>6. (read_position + count) % Capacity
          = IF read_position + count < Capacity
            THEN read_position + count ELSE read_position + count - Capacity
  BY <1>5, Wrap
<1> QED BY <1>1, <1>2, <1>4, <1>6 DEF count

(* pop takes from the old end and leaves the rest in order.                *)
LEMMA PopInv == ASSUME Inv, NEW n \in PopCounts, pop(n) PROVE Inv'
<1> USE CapacityAssumption DEF Inv, TypeOK
<1>1. PICK count \in 0 .. size :
              /\ size' = size - count
              /\ output' = [i \in 1 .. count |-> produced - size + i - 1]
              /\ produced' = produced
              /\ samples' = samples
              /\ read_position' = IF read_position + count < Capacity
                                  THEN read_position + count
                                  ELSE read_position + count - Capacity
  BY PopOutput
<1>2. output' \in Seq(Nat)
  <2>1. \A i \in 1 .. count : produced - size + i - 1 \in Nat
    OBVIOUS
  <2> QED BY <1>1, <2>1
<1>3. TypeOK'
  BY <1>1, <1>2 DEF Slots
<1>4. ASSUME NEW s \in Slots, Distance(read_position', s) < size'
      PROVE  samples[s] = produced - size' + Distance(read_position', s)
  <2>1. Distance(read_position, s) = Distance(read_position', s) + count
    BY <1>1, <1>3, <1>4 DEF Distance, Slots
  <2>2. Distance(read_position', s) \in Nat
    BY <1>3, <1>4, DistanceRange
  <2>3. samples[s] = produced - size + Distance(read_position, s)
    BY <1>1, <1>4, <2>1, <2>2 DEF Contiguous
  <2> QED BY <1>1, <2>1, <2>2, <2>3
<1> QED BY <1>1, <1>3, <1>4 DEF Contiguous

(* The stored samples are always the latest ones produced, in order.       *)
THEOREM RingCorrect == Spec => [](TypeOK /\ Contiguous)
<1>1. Inv /\ [Next]_vars => Inv'
  <2> SUFFICES ASSUME Inv, [Next]_vars PROVE Inv'
    OBVIOUS
  <2>1. CASE UNCHANGED vars
    BY <2>1 DEF Inv, TypeOK, Contiguous, vars, Slots, Distance
  <2> QED BY <2>1, PushInv, PopInv, ClearInv DEF Next
<1>2. Spec => []Inv
  BY InitInv, <1>1, PTL DEF Spec
<1> QED BY <1>2 DEF Inv

(* The channels stay apart: the ring always starts with a left sample.     *)
LEMMA StereoStep == Inv /\ StereoAligned /\ [Next]_vars => StereoAligned'
<1> SUFFICES ASSUME Inv, StereoAligned, [Next]_vars PROVE StereoAligned'
  OBVIOUS
<1> USE CapacityAssumption, CountsAssumption, StereoAssumption DEF Inv, TypeOK
<1>1. ASSUME NEW n \in PushCounts, push(n) PROVE StereoAligned'
  <2>1. n % 2 = 0 /\ n \in Nat
    BY <1>1
  <2>2. (produced + n) % 2 = 0
    BY <2>1 DEF StereoAligned
  <2>3. size' % 2 = 0
    <3>1. CASE push_all(n)
      BY <3>1 DEF push_all
    <3>2. CASE push_discarding(n)
      <4>1. size' = Capacity
        BY <2>1, <3>2 DEF push_discarding
      <4> QED BY <4>1
    <3>3. CASE push_fitting(n)
      BY <2>1, <3>3 DEF push_fitting, StereoAligned
    <3> QED BY <1>1, <3>1, <3>2, <3>3 DEF push
  <2>4. size' \in Nat /\ produced' = produced + n /\ produced' \in Nat
    BY <1>1, PushInv DEF push
  <2>5. (produced' - size') % 2 = 0
    BY <2>2, <2>3, <2>4, EvenDifference, Zenon
  <2> QED BY <2>3, <2>5 DEF StereoAligned
<1>2. ASSUME NEW n \in PopCounts, pop(n) PROVE StereoAligned'
  <2>1. n % 2 = 0 /\ n \in Nat
    BY <1>2
  <2>2. PICK count \in 0 .. size :
          /\ count = IF n < size THEN n ELSE size
          /\ size' = size - count /\ produced' = produced
    BY <1>2, PopOutput
  <2>3. count % 2 = 0
    BY <2>1, <2>2 DEF StereoAligned
  <2>4. size' % 2 = 0
    BY <2>2, <2>3 DEF StereoAligned
  <2>5. produced' % 2 = 0 /\ produced' \in Nat /\ size' \in Nat
    BY <2>2 DEF StereoAligned
  <2>6. (produced' - size') % 2 = 0
    BY <2>4, <2>5, EvenDifference, Zenon
  <2> QED BY <2>4, <2>6 DEF StereoAligned
<1>3. CASE clear
  <2>1. produced % 2 = 0
    BY DEF StereoAligned
  <2> QED BY <1>3, <2>1 DEF clear, StereoAligned
<1>4. CASE UNCHANGED vars
  BY <1>4 DEF vars, StereoAligned
<1> QED BY <1>1, <1>2, <1>3, <1>4 DEF Next

(* Whatever the sizes of packets and device buffers, pushing, discarding,  *)
(* popping and clearing in any order never swap left and right in the ring.*)
THEOREM ChannelsNeverSwap == Spec => []StereoAligned
<1>1. Init => StereoAligned
  BY DEF Init, StereoAligned
<1>2. Spec => []Inv
  BY RingCorrect DEF Inv
<1> QED BY <1>1, <1>2, StereoStep, PTL DEF Spec

(* Each method of the ring is a step of the drop-oldest stream.            *)
LEMMA StreamStep == Inv /\ [Next]_vars => [Stream!Next]_(Stream!vars)
<1> SUFFICES ASSUME Inv, [Next]_vars PROVE [Stream!Next]_(Stream!vars)
  OBVIOUS
<1> USE CapacityAssumption, CountsAssumption DEF Inv, TypeOK
<1>1. ASSUME NEW n \in PushCounts, push(n) PROVE Stream!Put(n)
  <2>1. CASE push_all(n)
    BY <1>1, <2>1 DEF push, push_all, Stream!Put
  <2>2. CASE push_discarding(n)
    BY <1>1, <2>2 DEF push, push_discarding, Stream!Put
  <2>3. CASE push_fitting(n)
    BY <1>1, <2>3 DEF push, push_fitting, Stream!Put
  <2> QED BY <1>1, <2>1, <2>2, <2>3 DEF push
<1>2. ASSUME NEW n \in PopCounts, pop(n)
      PROVE  \E k \in 0 .. produced - (produced - size) : Stream!Take(k)
  <2>1. PICK k \in 0 .. size :
            /\ size' = size - k
            /\ output' = [i \in 1 .. k |-> produced - size + i - 1]
            /\ produced' = produced
    BY <1>2, PopOutput
  <2>2. produced' - size' = produced - size + k
    BY <2>1
  <2>3. Stream!Take(k)
    BY <2>1, <2>2 DEF Stream!Take
  <2>4. k \in 0 .. produced - (produced - size)
    OBVIOUS
  <2> QED BY <2>3, <2>4
<1>3. CASE clear
  BY <1>3 DEF clear, Stream!Clear, Stream!Next
<1>4. CASE UNCHANGED vars
  BY <1>4 DEF vars, Stream!vars
<1> QED BY <1>1, <1>2, <1>3, <1>4 DEF Next, Stream!Next

(* The ring implements the drop-oldest stream for every capacity.          *)
THEOREM RingImplementsStream == Spec => ImplementsStream
<1>1. Init => Stream!Init
  BY DEF Init, Stream!Init
<1>2. Spec => []Inv
  BY RingCorrect DEF Inv
<1> QED BY <1>1, <1>2, StreamStep, PTL DEF Spec, ImplementsStream, Stream!Spec

=============================================================================
