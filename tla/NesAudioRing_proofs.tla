------------------------- MODULE NesAudioRing_proofs -------------------------
(***************************************************************************)
(* Proofs about NesAudioRing, for a ring of any number of packets and any  *)
(* number of chunks mixed: no chunk is lost, repeated or reordered but by  *)
(* overflow, and the ring implements LossyStream.                          *)
(***************************************************************************)
EXTENDS NesAudioRing, TLAPS

(* The index d places after p.                                             *)
Slot(p, d) == (p + d) % MaxAudioFrames

(* The packet k places behind the oldest queued one.                       *)
At(k) == audio_ring[Slot(read_index, k)]

(* The first chunk of packet k of the queue; behind the last packet, the   *)
(* first chunk that is not yet in a packet.                                *)
Start(k) == IF k < available_frames THEN At(k).data[1]
                                    ELSE mixed - Len(frame_accumulator)

(* A run of consecutive chunks.                                            *)
Consecutive(packet) == \A i \in 1 .. Len(packet) : packet[i] = packet[1] + i - 1

(* The producer's index is where the queue ends.                           *)
IndicesAgree == write_index = Slot(read_index, available_frames)

(* Every packet is a run of chunks that ends where the next one starts.    *)
PacketsLinked ==
    \A k \in 0 .. available_frames - 1 :
        /\ At(k).number = pushed - available_frames + k
        /\ At(k).data # << >>
        /\ Consecutive(At(k).data)
        /\ At(k).data[Len(At(k).data)] + 1 = Start(k + 1)

AccumulatorLinked ==
    \A i \in 1 .. Len(frame_accumulator) :
        frame_accumulator[i] = mixed - Len(frame_accumulator) + i - 1

HeardBefore == heard # << >> => heard[Len(heard)] < Start(0)

(* The inductive invariant.  NoGapInQueue says nothing of the indices, of  *)
(* the packet numbers or of what was heard while the queue is empty.       *)
Inv ==
    /\ TypeOK
    /\ IndicesAgree
    /\ PacketsLinked
    /\ AccumulatorLinked
    /\ HeardBefore

-----------------------------------------------------------------------------
(* Going around the ring once: an index less than two laps ahead.          *)
LEMMA SlotValue ==
    ASSUME NEW p \in Slots, NEW d \in 0 .. MaxAudioFrames
    PROVE  /\ Slot(p, d) = IF p + d < MaxAudioFrames THEN p + d
                                                     ELSE p + d - MaxAudioFrames
           /\ Slot(p, d) \in Slots
BY MaxAudioFramesAssumption DEF Slots, Slot

(* Two indices less than a lap ahead are different.                        *)
LEMMA SlotsDiffer ==
    ASSUME NEW p \in Slots, NEW d \in 0 .. MaxAudioFrames, NEW e \in 0 .. MaxAudioFrames,
           d < e, e - d < MaxAudioFrames
    PROVE  Slot(p, d) # Slot(p, e)
<1>1. /\ Slot(p, d) = IF p + d < MaxAudioFrames THEN p + d ELSE p + d - MaxAudioFrames
      /\ Slot(p, e) = IF p + e < MaxAudioFrames THEN p + e ELSE p + e - MaxAudioFrames
  BY SlotValue
<1> QED BY <1>1, MaxAudioFramesAssumption DEF Slots

(* A whole lap leads back.                                                 *)
LEMMA SlotLap == \A p \in Slots : Slot(p, MaxAudioFrames) = p /\ Slot(p, 0) = p
<1> SUFFICES ASSUME NEW p \in Slots
             PROVE  Slot(p, MaxAudioFrames) = p /\ Slot(p, 0) = p
  OBVIOUS
<1>1. MaxAudioFrames \in 0 .. MaxAudioFrames /\ 0 \in 0 .. MaxAudioFrames
  BY MaxAudioFramesAssumption
<1> QED BY <1>1, MaxAudioFramesAssumption, SlotValue DEF Slots

(* Steps along the ring add up.                                            *)
LEMMA SlotStep ==
    ASSUME NEW p \in Slots, NEW d \in 0 .. MaxAudioFrames - 1
    PROVE  /\ Slot(Slot(p, 1), d) = Slot(p, d + 1)
           /\ Slot(Slot(p, d), 1) = Slot(p, d + 1)
<1> USE MaxAudioFramesAssumption
<1>1. {1, d, d + 1} \subseteq 0 .. MaxAudioFrames
  OBVIOUS
<1>2. Slot(p, 1) \in Slots /\ Slot(p, d) \in Slots
  BY <1>1, SlotValue
<1>3. /\ Slot(p, 1) = IF p + 1 < MaxAudioFrames THEN p + 1 ELSE p + 1 - MaxAudioFrames
      /\ Slot(p, d) = IF p + d < MaxAudioFrames THEN p + d ELSE p + d - MaxAudioFrames
      /\ Slot(p, d + 1) = IF p + (d + 1) < MaxAudioFrames THEN p + (d + 1)
                                                        ELSE p + (d + 1) - MaxAudioFrames
  BY <1>1, SlotValue
<1>4. Slot(Slot(p, 1), d) = IF Slot(p, 1) + d < MaxAudioFrames THEN Slot(p, 1) + d
                            ELSE Slot(p, 1) + d - MaxAudioFrames
  BY <1>1, <1>2, SlotValue
<1>5. Slot(Slot(p, d), 1) = IF Slot(p, d) + 1 < MaxAudioFrames THEN Slot(p, d) + 1
                            ELSE Slot(p, d) + 1 - MaxAudioFrames
  BY <1>1, <1>2, SlotValue
<1>6. Slot(Slot(p, 1), d) = Slot(p, d + 1)
  BY <1>3, <1>4 DEF Slots
<1>7. Slot(Slot(p, d), 1) = Slot(p, d + 1)
  BY <1>3, <1>5 DEF Slots
<1> QED BY <1>6, <1>7

(* push_frame appends its packet to the queue; a full queue moves up by    *)
(* one packet, which gives up the oldest.                                  *)
LEMMA PushQueue ==
    ASSUME TypeOK, IndicesAgree, NEW packet \in Seq(Nat), packet # << >>,
           push_frame(packet)
    PROVE  \E dropped \in {0, 1} :
               /\ dropped = IF available_frames < MaxAudioFrames THEN 0 ELSE 1
               /\ available_frames' = available_frames + 1 - dropped
               /\ IndicesAgree'
               /\ pushed' = pushed + 1
               /\ audio_ring' \in [Slots -> [number : Nat, data : Seq(Nat)]]
               /\ write_index' \in Slots /\ read_index' \in Slots
               /\ \A k \in 0 .. available_frames' - 1 :
                     At(k)' = IF k + 1 = available_frames'
                              THEN [number |-> pushed, data |-> packet]
                              ELSE At(k + dropped)
<1> USE MaxAudioFramesAssumption
<1> DEFINE new == [number |-> pushed, data |-> packet]
<1>1. /\ audio_ring \in [Slots -> [number : Nat, data : Seq(Nat)]]
      /\ read_index \in Slots /\ write_index \in Slots
      /\ available_frames \in 0 .. MaxAudioFrames
      /\ new \in [number : Nat, data : Seq(Nat)]
  BY DEF TypeOK
<1> HIDE DEF new
<1>2. /\ audio_ring' = [audio_ring EXCEPT ![write_index] = new]
      /\ write_index' = Slot(write_index, 1)
      /\ pushed' = pushed + 1
  BY DEF push_frame, Slot, new
<1>3. /\ audio_ring' \in [Slots -> [number : Nat, data : Seq(Nat)]]
      /\ write_index' \in Slots
  <2>1. 1 \in 0 .. MaxAudioFrames
    OBVIOUS
  <2> QED BY <1>1, <1>2, <2>1, SlotValue
<1>4. ASSUME NEW s \in Slots
      PROVE  audio_ring'[s] = IF s = write_index THEN new ELSE audio_ring[s]
  BY <1>1, <1>2, <1>4
<1>5. CASE available_frames < MaxAudioFrames
  <2>1. available_frames' = available_frames + 1 - 0 /\ read_index' = read_index
    BY <1>1, <1>5 DEF push_frame
  <2>2. IndicesAgree'
    <3>1. available_frames \in 0 .. MaxAudioFrames - 1
      BY <1>1, <1>5
    <3>2. Slot(Slot(read_index, available_frames), 1) = Slot(read_index, available_frames + 1)
      BY <1>1, <3>1, SlotStep
    <3>3. available_frames' = available_frames + 1
      BY <1>1, <2>1
    <3> QED BY <1>2, <2>1, <3>2, <3>3 DEF IndicesAgree
  <2>3. ASSUME NEW k \in 0 .. available_frames
        PROVE  At(k)' = IF k = available_frames THEN new ELSE At(k)
    <3>1. Slot(read_index, k) \in Slots
      BY <1>1, <2>3, SlotValue
    <3>2. CASE k = available_frames
      BY <1>4, <2>1, <3>1, <3>2 DEF At, IndicesAgree
    <3>3. CASE k < available_frames
      <4>1. /\ k \in 0 .. MaxAudioFrames /\ available_frames - k < MaxAudioFrames
            /\ available_frames # k
        BY <1>1, <1>5, <2>3, <3>3
      <4>2. Slot(read_index, k) # write_index
        BY <1>1, <3>3, <4>1, SlotsDiffer DEF IndicesAgree
      <4> QED BY <1>4, <2>1, <3>1, <4>1, <4>2 DEF At
    <3> QED BY <1>1, <2>3, <3>2, <3>3
  <2>4. ASSUME NEW k \in 0 .. available_frames' - 1
        PROVE  At(k)' = IF k + 1 = available_frames' THEN new ELSE At(k + 0)
    <3>1. /\ k \in 0 .. available_frames /\ k + 0 = k
          /\ k + 1 = available_frames' <=> k = available_frames
      BY <1>1, <2>1, <2>4
    <3> QED BY <2>3, <3>1
  <2> QED BY <1>1, <1>2, <1>3, <1>5, <2>1, <2>2, <2>4 DEF new
<1>6. CASE available_frames = MaxAudioFrames
  <2>1. available_frames' = available_frames + 1 - 1 /\ read_index' = Slot(read_index, 1)
    BY <1>1, <1>6 DEF push_frame, Slot
  <2>2. write_index = read_index
    BY <1>1, <1>6, SlotLap DEF IndicesAgree
  <2>3. available_frames' = MaxAudioFrames /\ read_index' \in Slots
    BY <1>2, <1>3, <1>6, <2>1, <2>2
  <2>4. IndicesAgree'
    BY <1>2, <2>1, <2>2, <2>3, SlotLap DEF IndicesAgree
  <2>5. ASSUME NEW k \in 0 .. available_frames' - 1
        PROVE  At(k)' = IF k + 1 = available_frames' THEN new ELSE At(k + 1)
    <3>1. k \in 0 .. MaxAudioFrames - 1 /\ k + 1 \in 0 .. MaxAudioFrames
      BY <2>3, <2>5
    <3>2. Slot(read_index', k) = Slot(read_index, k + 1)
      BY <1>1, <2>1, <3>1, SlotStep
    <3>3. Slot(read_index, k + 1) \in Slots
      BY <1>1, <3>1, SlotValue
    <3>4. CASE k + 1 = MaxAudioFrames
      BY <1>1, <1>4, <2>2, <2>3, <3>2, <3>3, <3>4, SlotLap DEF At
    <3>5. CASE k + 1 < MaxAudioFrames
      <4>1. 0 < k + 1 /\ k + 1 - 0 < MaxAudioFrames /\ 0 \in 0 .. MaxAudioFrames
        BY <3>1, <3>5
      <4>2. Slot(read_index, 0) # Slot(read_index, k + 1)
        BY <1>1, <3>1, <4>1, SlotsDiffer
      <4>3. Slot(read_index, k + 1) # write_index
        BY <1>1, <2>2, <4>2, SlotLap
      <4>4. At(k)' = At(k + 1)
        BY <1>4, <3>2, <3>3, <4>3 DEF At
      <4> QED BY <2>3, <3>1, <3>5, <4>4
    <3> QED BY <3>1, <3>4, <3>5
  <2>6. available_frames' = available_frames + 1 - 1
    BY <2>1
  <2> QED BY <1>1, <1>2, <1>3, <1>6, <2>3, <2>4, <2>5, <2>6 DEF new
<1>7. available_frames < MaxAudioFrames \/ available_frames = MaxAudioFrames
  BY <1>1
<1> QED BY <1>5, <1>6, <1>7, Zenon

(* consume_audio removes the oldest packet of the queue.                   *)
LEMMA ConsumeQueue ==
    ASSUME TypeOK, IndicesAgree, available_frames > 0, consume_audio
    PROVE  /\ IndicesAgree'
           /\ read_index' \in Slots
           /\ \A k \in 0 .. available_frames' - 1 : At(k)' = At(k + 1)
<1> USE MaxAudioFramesAssumption
<1>1. /\ read_index \in Slots
      /\ available_frames \in 1 .. MaxAudioFrames
  BY DEF TypeOK
<1>2. /\ read_index' = Slot(read_index, 1)
      /\ available_frames' = available_frames - 1
      /\ audio_ring' = audio_ring /\ write_index' = write_index
  BY DEF consume_audio, Slot
<1>3. read_index' \in Slots
  <2>1. 1 \in 0 .. MaxAudioFrames
    OBVIOUS
  <2> QED BY <1>1, <1>2, <2>1, SlotValue
<1>4. ASSUME NEW k \in 0 .. available_frames - 1
      PROVE  Slot(read_index', k) = Slot(read_index, k + 1)
  <2>1. k \in 0 .. MaxAudioFrames - 1
    BY <1>1, <1>4
  <2> QED BY <1>1, <1>2, <2>1, SlotStep
<1>5. IndicesAgree'
  <2>1. available_frames - 1 \in 0 .. available_frames - 1
        /\ available_frames - 1 + 1 = available_frames
    BY <1>1
  <2>2. Slot(read_index', available_frames - 1) = Slot(read_index, available_frames)
    BY <1>4, <2>1
  <2> QED BY <1>2, <2>2 DEF IndicesAgree
<1>6. ASSUME NEW k \in 0 .. available_frames' - 1 PROVE At(k)' = At(k + 1)
  <2>1. k \in 0 .. available_frames - 1
    BY <1>1, <1>2, <1>6
  <2> QED BY <1>2, <1>4, <2>1 DEF At
<1> QED BY <1>3, <1>5, <1>6

(* Queued packets are packets; a run of chunks from Start(k) to Start(k+1).*)
LEMMA PacketSpan ==
    ASSUME Inv
    PROVE  /\ \A k \in 0 .. available_frames : Start(k) \in Int
           /\ \A k \in 0 .. available_frames - 1 :
                 /\ At(k) \in [number : Nat, data : Seq(Nat)]
                 /\ Len(At(k).data) \in Nat \ {0}
                 /\ At(k).data[1] = Start(k)
                 /\ At(k).data[Len(At(k).data)] + 1 = Start(k + 1)
                 /\ At(k).data[Len(At(k).data)] \in Nat
                 /\ Start(k) < Start(k + 1)
<1> USE MaxAudioFramesAssumption
<1>1. /\ audio_ring \in [Slots -> [number : Nat, data : Seq(Nat)]]
      /\ read_index \in Slots
      /\ available_frames \in 0 .. MaxAudioFrames
      /\ mixed \in Nat /\ frame_accumulator \in Seq(Nat)
  BY DEF Inv, TypeOK
<1>2. ASSUME NEW k \in 0 .. available_frames - 1
      PROVE  /\ At(k) \in [number : Nat, data : Seq(Nat)]
             /\ Len(At(k).data) \in Nat \ {0}
             /\ At(k).data[1] = Start(k)
             /\ Start(k) \in Nat
             /\ At(k).data[Len(At(k).data)] + 1 = Start(k + 1)
             /\ At(k).data[Len(At(k).data)] \in Nat
             /\ Start(k) < Start(k + 1)
  <2>1. At(k) \in [number : Nat, data : Seq(Nat)]
    <3>1. k \in 0 .. MaxAudioFrames
      BY <1>1, <1>2
    <3>2. Slot(read_index, k) \in Slots
      BY <1>1, <3>1, SlotValue
    <3> QED BY <1>1, <3>2 DEF At
  <2> DEFINE data == At(k).data
  <2>2. /\ data \in Seq(Nat) /\ data # << >> /\ Consecutive(data)
        /\ data[Len(data)] + 1 = Start(k + 1)
    BY <1>2, <2>1 DEF Inv, PacketsLinked
  <2>3. Start(k) = data[1]
    BY <1>1, <1>2 DEF Start
  <2> HIDE DEF data
  <2>4. Len(data) \in Nat \ {0} /\ data[1] \in Nat /\ data[Len(data)] \in Nat
    BY <2>2
  <2>5. data[Len(data)] = data[1] + Len(data) - 1
    <3>1. Len(data) \in 1 .. Len(data)
      BY <2>4
    <3> QED BY <2>2, <3>1 DEF Consecutive
  <2>6. Start(k) < Start(k + 1)
    BY <2>2, <2>3, <2>4, <2>5
  <2> QED BY <2>1, <2>2, <2>3, <2>4, <2>6 DEF data
<1>3. ASSUME NEW k \in 0 .. available_frames PROVE Start(k) \in Int
  <2>1. CASE k < available_frames
    <3>1. k \in 0 .. available_frames - 1
      BY <1>1, <1>3, <2>1
    <3> QED BY <1>2, <3>1
  <2>2. CASE k = available_frames
    BY <1>1, <2>2 DEF Start
  <2> QED BY <1>1, <1>3, <2>1, <2>2
<1> QED BY <1>2, <1>3

(* The mixer's chunks follow one another whether or not it yields one.     *)
LEMMA MixChunks ==
    ASSUME TypeOK, AccumulatorLinked, NEW accumulated, mix(accumulated)
    PROVE  /\ accumulated \in Seq(Nat)
           /\ mixed' \in Nat
           /\ mixed' - Len(accumulated) = mixed - Len(frame_accumulator)
           /\ \A i \in 1 .. Len(accumulated) :
                 accumulated[i] = mixed' - Len(accumulated) + i - 1
           /\ accumulated = << >> => mixed' = mixed /\ frame_accumulator = << >>
<1>1. mixed \in Nat /\ frame_accumulator \in Seq(Nat)
  BY DEF TypeOK
<1>2. CASE mixed' = mixed /\ accumulated = frame_accumulator
  BY <1>1, <1>2 DEF AccumulatorLinked
<1>3. CASE mixed' = mixed + 1 /\ accumulated = Append(frame_accumulator, mixed)
  <2>1. /\ accumulated \in Seq(Nat) /\ accumulated # << >>
        /\ Len(accumulated) = Len(frame_accumulator) + 1
        /\ Len(frame_accumulator) \in Nat
    BY <1>1, <1>3
  <2>2. ASSUME NEW i \in 1 .. Len(accumulated)
        PROVE  accumulated[i] = mixed' - Len(accumulated) + i - 1
    <3>1. CASE i = Len(accumulated)
      BY <1>1, <1>3, <2>1, <2>2, <3>1
    <3>2. CASE i # Len(accumulated)
      <4>1. i \in 1 .. Len(frame_accumulator)
        BY <2>1, <2>2, <3>2
      <4>2. accumulated[i] = frame_accumulator[i]
        BY <1>1, <1>3, <4>1
      <4>3. frame_accumulator[i] = mixed - Len(frame_accumulator) + i - 1
        BY <4>1 DEF AccumulatorLinked
      <4> QED BY <1>1, <1>3, <2>1, <4>2, <4>3
    <3> QED BY <3>1, <3>2
  <2> QED BY <1>1, <1>3, <2>1, <2>2
<1> QED BY <1>2, <1>3 DEF mix

(* Init makes an empty queue.                                              *)
LEMMA InitInv == Init => Inv
<1> SUFFICES ASSUME Init PROVE Inv
  OBVIOUS
<1> USE MaxAudioFramesAssumption
<1>1. 0 \in Slots
  BY DEF Slots
<1>2. TypeOK
  BY <1>1 DEF Init, TypeOK
<1>3. IndicesAgree
  BY <1>1, SlotLap DEF Init, IndicesAgree
<1>4. PacketsLinked /\ AccumulatorLinked /\ HeardBefore
  BY DEF Init, PacketsLinked, AccumulatorLinked, HeardBefore
<1> QED BY <1>2, <1>3, <1>4 DEF Inv

(* A step that changes neither the queue nor what was mixed or heard.      *)
LEMMA QuietInv ==
    ASSUME Inv, UNCHANGED <<ring, frame_accumulator, mixed, host>>,
           audio_cb' \in BOOLEAN, phase' \in {"idle", "running", "callback"}
    PROVE  Inv'
<1>1. /\ audio_ring' = audio_ring /\ write_index' = write_index
      /\ read_index' = read_index /\ available_frames' = available_frames
      /\ pushed' = pushed /\ frame_accumulator' = frame_accumulator
      /\ mixed' = mixed /\ received' = received /\ heard' = heard
  BY DEF ring, host
<1>2. TypeOK'
  BY <1>1 DEF Inv, TypeOK, Slots
<1>3. IndicesAgree'
  BY <1>1 DEF Inv, IndicesAgree
<1>4. \A k : At(k)' = At(k) /\ Start(k)' = Start(k)
  BY <1>1 DEF At, Start
<1>5. PacketsLinked'
  BY <1>1, <1>4 DEF Inv, PacketsLinked
<1>6. AccumulatorLinked' /\ HeardBefore'
  BY <1>1, <1>4 DEF Inv, AccumulatorLinked, HeardBefore
<1> QED BY <1>2, <1>3, <1>5, <1>6 DEF Inv

(* end_frame adds a chunk to the accumulator.                              *)
LEMMA EndFrameInv == ASSUME Inv, end_frame PROVE Inv'
<1>1. /\ audio_ring' = audio_ring /\ write_index' = write_index
      /\ read_index' = read_index /\ available_frames' = available_frames
      /\ pushed' = pushed /\ received' = received /\ heard' = heard
      /\ audio_cb' = audio_cb /\ phase' = phase
      /\ mix(frame_accumulator')
  BY DEF end_frame, ring, host
<1>2. /\ frame_accumulator' \in Seq(Nat)
      /\ mixed' \in Nat
      /\ mixed' - Len(frame_accumulator') = mixed - Len(frame_accumulator)
      /\ AccumulatorLinked'
  BY <1>1, MixChunks DEF Inv, AccumulatorLinked
<1>3. TypeOK'
  BY <1>1, <1>2 DEF Inv, TypeOK, Slots
<1>4. IndicesAgree'
  BY <1>1 DEF Inv, IndicesAgree
<1>5. \A k : At(k)' = At(k) /\ Start(k)' = Start(k)
  BY <1>1, <1>2 DEF At, Start
<1>6. PacketsLinked'
  BY <1>1, <1>5 DEF Inv, PacketsLinked
<1>7. HeardBefore'
  BY <1>1, <1>5 DEF Inv, HeardBefore
<1> QED BY <1>2, <1>3, <1>4, <1>6, <1>7 DEF Inv

(* The end of a frame appends the accumulated chunks as a packet.          *)
LEMMA RunFrameEndInv == ASSUME Inv, run_frame_end PROVE Inv'
<1> USE MaxAudioFramesAssumption
<1>1. PICK accumulated : mix(accumulated) /\ push_frame(accumulated)
  BY DEF run_frame_end
<1>2. /\ frame_accumulator' = << >> /\ phase' = "callback"
      /\ audio_cb' = audio_cb /\ received' = received /\ heard' = heard
  BY DEF run_frame_end, host
<1>3. /\ accumulated \in Seq(Nat)
      /\ mixed' \in Nat
      /\ mixed' - Len(accumulated) = mixed - Len(frame_accumulator)
      /\ \A i \in 1 .. Len(accumulated) :
            accumulated[i] = mixed' - Len(accumulated) + i - 1
      /\ accumulated = << >> => mixed' = mixed /\ frame_accumulator = << >>
  BY <1>1, MixChunks DEF Inv
<1>4. CASE accumulated = << >>
  <2>1. UNCHANGED <<ring, frame_accumulator, mixed, host>>
    BY <1>1, <1>2, <1>3, <1>4 DEF push_frame, host
  <2>2. audio_cb' \in BOOLEAN /\ phase' \in {"idle", "running", "callback"}
    BY <1>2 DEF Inv, TypeOK
  <2> QED BY <2>1, <2>2, QuietInv
<1>5. CASE accumulated # << >>
  <2>1. PICK dropped \in {0, 1} :
               /\ dropped = IF available_frames < MaxAudioFrames THEN 0 ELSE 1
               /\ available_frames' = available_frames + 1 - dropped
               /\ IndicesAgree'
               /\ pushed' = pushed + 1
               /\ audio_ring' \in [Slots -> [number : Nat, data : Seq(Nat)]]
               /\ write_index' \in Slots /\ read_index' \in Slots
               /\ \A k \in 0 .. available_frames' - 1 :
                     At(k)' = IF k + 1 = available_frames'
                              THEN [number |-> pushed, data |-> accumulated]
                              ELSE At(k + dropped)
    BY <1>1, <1>3, <1>5, PushQueue DEF Inv
  <2>2. /\ available_frames \in 0 .. MaxAudioFrames /\ available_frames <= pushed
        /\ pushed \in Nat /\ mixed \in Nat
        /\ frame_accumulator \in Seq(Nat)
    BY DEF Inv, TypeOK
  <2>3. /\ available_frames' \in 1 .. MaxAudioFrames /\ available_frames' <= pushed'
        /\ 0 \in 0 .. available_frames' - 1
    BY <2>1, <2>2
  <2>4. TypeOK'
    <3>1. /\ audio_ring' \in [Slots -> [number : Nat, data : Seq(Nat)]]
          /\ write_index' \in Slots /\ read_index' \in Slots
          /\ pushed' \in Nat /\ frame_accumulator' \in Seq(Nat) /\ mixed' \in Nat
          /\ available_frames' \in 0 .. MaxAudioFrames
      BY <1>2, <1>3, <2>1, <2>2, <2>3
    <3>2. audio_cb' \in BOOLEAN /\ received' \in Seq(Nat) /\ heard' \in Seq(Nat)
      BY <1>2 DEF Inv, TypeOK
    <3> QED BY <1>2, <2>3, <3>1, <3>2 DEF TypeOK
  <2>5. /\ Len(accumulated) \in Nat \ {0}
        /\ accumulated[1] = mixed - Len(frame_accumulator)
        /\ accumulated[Len(accumulated)] = mixed' - 1
        /\ Consecutive(accumulated)
    <3>1. Len(accumulated) \in Nat \ {0}
      BY <1>3, <1>5
    <3>2. 1 \in 1 .. Len(accumulated) /\ Len(accumulated) \in 1 .. Len(accumulated)
      BY <3>1
    <3>3. accumulated[1] = mixed' - Len(accumulated)
          /\ accumulated[Len(accumulated)] = mixed' - 1
      <4>1. /\ accumulated[1] = mixed' - Len(accumulated) + 1 - 1
            /\ accumulated[Len(accumulated)]
                 = mixed' - Len(accumulated) + Len(accumulated) - 1
        BY <1>3, <3>2
      <4>2. mixed' \in Nat
        BY <1>3
      <4> HIDE <1>3
      <4> QED BY <3>1, <4>1, <4>2
    <3>4. Consecutive(accumulated)
      BY <1>3, <3>1, <3>3 DEF Consecutive
    <3> QED BY <1>3, <3>1, <3>3, <3>4
  <2>6. ASSUME NEW j \in 0 .. available_frames' - 1
        PROVE  Start(j)' = Start(j + dropped)
    <3>1. Start(j)' = At(j)'.data[1]
      BY <2>3, <2>6 DEF Start
    <3>2. CASE j + 1 = available_frames'
      <4>1. j + dropped = available_frames
        BY <2>1, <2>2, <2>6, <3>2
      <4>2. At(j)'.data = accumulated
        BY <2>1, <2>6, <3>2
      <4>3. Start(j + dropped) = mixed - Len(frame_accumulator)
        BY <2>2, <4>1 DEF Start
      <4> QED BY <2>5, <3>1, <4>2, <4>3
    <3>3. CASE j + 1 # available_frames'
      <4>1. j + dropped \in 0 .. available_frames - 1
        BY <2>1, <2>2, <2>6, <3>3
      <4>2. At(j)' = At(j + dropped)
        BY <2>1, <2>6, <3>3
      <4>3. Start(j + dropped) = At(j + dropped).data[1]
        BY <2>2, <4>1 DEF Start
      <4> QED BY <3>1, <4>2, <4>3
    <3> QED BY <3>2, <3>3
  <2>7. PacketsLinked'
    <3> SUFFICES ASSUME NEW k \in 0 .. available_frames' - 1
                 PROVE  /\ At(k)'.number = pushed' - available_frames' + k
                        /\ At(k)'.data # << >>
                        /\ Consecutive(At(k)'.data)
                        /\ At(k)'.data[Len(At(k)'.data)] + 1 = Start(k + 1)'
      BY DEF PacketsLinked, Consecutive
    <3>1. CASE k + 1 = available_frames'
      <4>1. At(k)'.number = pushed /\ At(k)'.data = accumulated
        BY <2>1, <3>1
      <4>2. pushed = pushed' - available_frames' + k
        BY <2>1, <2>2, <2>3, <3>1
      <4>3. Start(k + 1)' = mixed'
        <5>1. ~(k + 1 < available_frames') /\ Len(frame_accumulator') = 0
          BY <1>2, <2>3, <3>1
        <5>2. Start(k + 1)' = mixed' - 0
          BY <5>1 DEF Start
        <5> QED BY <2>4, <5>2 DEF TypeOK
      <4>4. accumulated[Len(accumulated)] + 1 = mixed'
        <5>1. mixed' \in Nat /\ accumulated[Len(accumulated)] = mixed' - 1
          BY <2>4, <2>5 DEF TypeOK
        <5>2. \A n \in Nat : n - 1 + 1 = n
          OBVIOUS
        <5> QED BY <5>1, <5>2
      <4> QED BY <1>5, <2>5, <4>1, <4>2, <4>3, <4>4
    <3>2. CASE k + 1 # available_frames'
      <4>1. /\ k + dropped \in 0 .. available_frames - 1
            /\ k + 1 \in 0 .. available_frames' - 1
            /\ k + 1 + dropped = k + dropped + 1
        BY <2>1, <2>2, <2>3, <3>2
      <4>2. At(k)' = At(k + dropped)
        BY <2>1, <3>2
      <4>3. Start(k + 1)' = Start(k + dropped + 1)
        BY <2>6, <4>1
      <4>4. /\ At(k + dropped).number = pushed - available_frames + (k + dropped)
            /\ At(k + dropped).data # << >>
            /\ Consecutive(At(k + dropped).data)
            /\ At(k + dropped).data[Len(At(k + dropped).data)] + 1 = Start(k + dropped + 1)
        BY <4>1 DEF Inv, PacketsLinked
      <4>5. pushed - available_frames + (k + dropped) = pushed' - available_frames' + k
        BY <2>1, <2>2
      <4> QED BY <4>2, <4>3, <4>4, <4>5
    <3> QED BY <3>1, <3>2
  <2>8. AccumulatorLinked'
    BY <1>2 DEF AccumulatorLinked
  <2>9. HeardBefore'
    <3> SUFFICES ASSUME heard # << >>
                 PROVE  heard[Len(heard)] < Start(0)'
      BY <1>2 DEF HeardBefore
    <3>1. heard[Len(heard)] < Start(0) /\ heard[Len(heard)] \in Nat
      <4>1. heard \in Seq(Nat)
        BY DEF Inv, TypeOK
      <4>2. Len(heard) \in 1 .. Len(heard)
        BY <4>1
      <4>3. heard[Len(heard)] \in Nat
        BY <4>1, <4>2
      <4> QED BY <4>3 DEF Inv, HeardBefore
    <3>2. \A j \in 0 .. available_frames' - 1 : Start(j)' = Start(j + dropped)
      BY <2>6
    <3>3. 0 \in 0 .. available_frames' - 1
      BY <2>3
    <3>4. CASE dropped = 0
      <4>1. \A j \in 0 .. available_frames' - 1 : j + dropped = j
        BY <2>3, <3>4
      <4>2. Start(0)' = Start(0)
        BY <3>2, <3>3, <4>1
      <4> QED BY <3>1, <4>2
    <3>5. CASE dropped = 1
      <4>1. 0 \in 0 .. available_frames - 1
        BY <2>1, <2>2, <3>5
      <4>2. Start(0) < Start(0 + 1) /\ Start(0) \in Int /\ Start(0 + 1) \in Int
        BY <2>2, <4>1, PacketSpan
      <4>3. Start(0)' = Start(0 + 1)
        BY <3>2, <3>3, <3>5
      <4> QED BY <3>1, <4>2, <4>3
    <3> QED BY <3>4, <3>5
  <2> QED BY <2>1, <2>4, <2>7, <2>8, <2>9 DEF Inv
<1> QED BY <1>4, <1>5

(* deliver and poll hand out the oldest packet and remove it.              *)
LEMMA ReceiveInv ==
    ASSUME Inv, available_frames > 0, receive, consume_audio,
           UNCHANGED <<frame_accumulator, audio_cb, mixed>>,
           phase' \in {"idle", "running", "callback"}
    PROVE  /\ Inv'
           /\ received' = <<pushed - available_frames>>
<1> USE MaxAudioFramesAssumption
<1>1. /\ available_frames \in 1 .. MaxAudioFrames /\ available_frames <= pushed
      /\ pushed \in Nat /\ read_index \in Slots
  BY DEF Inv, TypeOK
<1>2. /\ available_frames' = available_frames - 1
      /\ audio_ring' = audio_ring /\ write_index' = write_index /\ pushed' = pushed
      /\ frame_accumulator' = frame_accumulator /\ mixed' = mixed
      /\ audio_cb' = audio_cb
  BY DEF consume_audio
<1>3. /\ IndicesAgree'
      /\ read_index' \in Slots
      /\ \A k \in 0 .. available_frames' - 1 : At(k)' = At(k + 1)
  BY ConsumeQueue DEF Inv
<1>4. 0 \in 0 .. available_frames - 1
  BY <1>1
<1>5. received' = <<At(0).number>> /\ heard' = At(0).data
  BY <1>1, SlotLap DEF receive, At
<1>6. /\ At(0) \in [number : Nat, data : Seq(Nat)]
      /\ At(0).number = pushed - available_frames + 0
      /\ At(0).data[Len(At(0).data)] \in Nat
      /\ At(0).data[Len(At(0).data)] + 1 = Start(0 + 1)
  BY <1>4, PacketSpan DEF Inv, PacketsLinked
<1>7. TypeOK'
  <2>1. received' \in Seq(Nat) /\ heard' \in Seq(Nat)
    BY <1>5, <1>6
  <2>2. available_frames' \in 0 .. MaxAudioFrames /\ available_frames' <= pushed'
    BY <1>1, <1>2
  <2> QED BY <1>2, <1>3, <2>1, <2>2 DEF Inv, TypeOK
<1>8. ASSUME NEW k \in 0 .. available_frames' PROVE Start(k)' = Start(k + 1)
  <2>1. CASE k < available_frames'
    <3>1. k \in 0 .. available_frames' - 1 /\ k + 1 < available_frames
      BY <1>1, <1>2, <1>8, <2>1
    <3> QED BY <1>3, <2>1, <3>1 DEF Start
  <2>2. CASE k = available_frames'
    <3>1. ~(k < available_frames') /\ ~(k + 1 < available_frames)
      BY <1>1, <1>2, <2>2
    <3> QED BY <1>2, <3>1 DEF Start
  <2> QED BY <1>1, <1>2, <1>8, <2>1, <2>2
<1>9. PacketsLinked'
  <2> SUFFICES ASSUME NEW k \in 0 .. available_frames' - 1
               PROVE  /\ At(k)'.number = pushed' - available_frames' + k
                      /\ At(k)'.data # << >>
                      /\ Consecutive(At(k)'.data)
                      /\ At(k)'.data[Len(At(k)'.data)] + 1 = Start(k + 1)'
    BY DEF PacketsLinked, Consecutive
  <2>1. /\ k + 1 \in 0 .. available_frames - 1
        /\ k + 1 \in 0 .. available_frames'
    BY <1>1, <1>2
  <2>2. /\ At(k + 1).number = pushed - available_frames + (k + 1)
        /\ At(k + 1).data # << >>
        /\ Consecutive(At(k + 1).data)
        /\ At(k + 1).data[Len(At(k + 1).data)] + 1 = Start(k + 1 + 1)
    BY <2>1 DEF Inv, PacketsLinked
  <2>3. At(k)' = At(k + 1) /\ Start(k + 1)' = Start(k + 1 + 1)
    BY <1>3, <1>8, <2>1
  <2>4. pushed - available_frames + (k + 1) = pushed' - available_frames' + k
    BY <1>1, <1>2
  <2> QED BY <2>2, <2>3, <2>4
<1>10. AccumulatorLinked'
  BY <1>2 DEF Inv, AccumulatorLinked
<1>11. HeardBefore'
  <2>1. 0 \in 0 .. available_frames'
    BY <1>1, <1>2
  <2>2. Start(0)' = Start(0 + 1)
    BY <1>8, <2>1
  <2> QED BY <1>5, <1>6, <2>2 DEF HeardBefore
<1> QED BY <1>1, <1>3, <1>5, <1>6, <1>7, <1>9, <1>10, <1>11 DEF Inv

(* Every step keeps the inductive invariant.                               *)
LEMMA NextInv == Inv /\ [Next]_vars => Inv'
<1> SUFFICES ASSUME Inv, [Next]_vars PROVE Inv'
  OBVIOUS
<1>1. CASE step
  BY <1>1, QuietInv DEF step, Inv, TypeOK
<1>2. CASE no_delivery
  BY <1>2, QuietInv DEF no_delivery, Inv, TypeOK
<1>3. CASE ear6_set_audio_callback
  BY <1>3, QuietInv DEF ear6_set_audio_callback, Inv, TypeOK
<1>4. CASE deliver
  BY <1>4, ReceiveInv DEF deliver
<1>5. CASE poll
  BY <1>5, ReceiveInv DEF poll, Inv, TypeOK
<1>6. CASE UNCHANGED vars
  BY <1>6, QuietInv DEF vars, ring, host, Inv, TypeOK
<1> QED BY <1>1, <1>2, <1>3, <1>4, <1>5, <1>6, EndFrameInv, RunFrameEndInv DEF Next

(* What the invariant says of the queue as the host sees it.               *)
LEMMA InvNoGap == Inv => NoGapInQueue
<1> SUFFICES ASSUME Inv PROVE NoGapInQueue
  OBVIOUS
<1>1. /\ available_frames \in Nat /\ mixed \in Nat
      /\ frame_accumulator \in Seq(Nat)
  BY DEF Inv, TypeOK
<1>2. \A k : Queued(k) = At(k).data
  BY DEF Queued, At, Slot
<1>3. ASSUME NEW k \in 0 .. available_frames - 1
      PROVE  LET packet == Queued(k)
                 next   == IF k + 1 < available_frames THEN Queued(k + 1)
                                                       ELSE frame_accumulator
             IN  /\ packet # << >>
                 /\ \A i \in 1 .. Len(packet) - 1 : packet[i + 1] = packet[i] + 1
                 /\ IF next = << >> THEN packet[Len(packet)] = mixed - 1
                                    ELSE next[1] = packet[Len(packet)] + 1
  <2> DEFINE packet == Queued(k)
             next   == IF k + 1 < available_frames THEN Queued(k + 1)
                                                   ELSE frame_accumulator
  <2>1. /\ packet \in Seq(Nat) /\ packet # << >> /\ Consecutive(packet)
        /\ packet[Len(packet)] + 1 = Start(k + 1)
        /\ packet[Len(packet)] \in Nat
    BY <1>2, <1>3, PacketSpan DEF Inv, PacketsLinked
  <2> HIDE DEF packet, next
  <2>2. ASSUME NEW i \in 1 .. Len(packet) - 1 PROVE packet[i + 1] = packet[i] + 1
    <3>1. Len(packet) \in Nat
      BY <2>1
    <3>2. /\ i \in 1 .. Len(packet) /\ i + 1 \in 1 .. Len(packet)
          /\ 1 \in 1 .. Len(packet)
      BY <2>2, <3>1
    <3>3. packet[i] = packet[1] + i - 1 /\ packet[i + 1] = packet[1] + (i + 1) - 1
      BY <2>1, <3>2 DEF Consecutive
    <3>4. packet[1] \in Nat
      BY <2>1, <3>2
    <3> QED BY <3>1, <3>2, <3>3, <3>4
  <2>3. next = IF k + 1 < available_frames THEN Queued(k + 1) ELSE frame_accumulator
    BY DEF next
  <2>4. CASE k + 1 < available_frames
    <3>1. k + 1 \in 0 .. available_frames - 1
      BY <1>1, <1>3, <2>4
    <3>2. next # << >> /\ next[1] = Start(k + 1)
      BY <1>2, <2>4, <2>3, <3>1, PacketSpan DEF Inv, PacketsLinked
    <3> QED BY <2>1, <2>2, <3>2 DEF packet, next
  <2>5. CASE ~(k + 1 < available_frames)
    <3>1. next = frame_accumulator /\ Start(k + 1) = mixed - Len(frame_accumulator)
      BY <2>5, <2>3 DEF Start
    <3>2. CASE next = << >>
      <4>1. packet[Len(packet)] = mixed - 1
        BY <1>1, <2>1, <3>1, <3>2
      <4> QED BY <2>1, <2>2, <3>2, <4>1 DEF packet, next
    <3>3. CASE next # << >>
      <4>1. 1 \in 1 .. Len(frame_accumulator)
        BY <1>1, <3>1, <3>3
      <4>2. frame_accumulator[1] = mixed - Len(frame_accumulator) + 1 - 1
        BY <4>1 DEF Inv, AccumulatorLinked
      <4>3. next[1] = packet[Len(packet)] + 1
        BY <1>1, <2>1, <3>1, <4>2
      <4> QED BY <2>1, <2>2, <3>3, <4>3 DEF packet, next
    <3> QED BY <3>2, <3>3
  <2> QED BY <2>4, <2>5
<1>4. heard # << >> /\ available_frames > 0 => heard[Len(heard)] < Queued(0)[1]
  BY <1>1, <1>2 DEF Inv, HeardBefore, Start
<1> QED BY <1>3, <1>4 DEF Inv, NoGapInQueue, AccumulatorLinked

(* No chunk of sound is lost, repeated or reordered but by the overflow of *)
(* the ring, however the host steps, polls and sets callbacks.             *)
THEOREM QueueHasNoGap == Spec => []NoGapInQueue
<1>1. Spec => []Inv
  BY InitInv, NextInv, PTL DEF Spec
<1> QED BY <1>1, InvNoGap, PTL

(* Each action is a step of the drop-oldest stream.                        *)
LEMMA StreamStep == Inv /\ [Next]_vars => [Stream!Next]_(Stream!vars)
<1> SUFFICES ASSUME Inv, [Next]_vars PROVE [Stream!Next]_(Stream!vars)
  OBVIOUS
<1>1. /\ available_frames \in 0 .. MaxAudioFrames /\ available_frames <= pushed
      /\ pushed \in Nat /\ MaxAudioFrames \in Nat \ {0}
  BY MaxAudioFramesAssumption DEF Inv, TypeOK
<1>2. ASSUME UNCHANGED <<ring, host>> PROVE UNCHANGED Stream!vars
  BY <1>2 DEF ring, host, Stream!vars
<1>3. ASSUME NEW packet, push_frame(packet), UNCHANGED host
      PROVE  [Stream!Next]_(Stream!vars)
  <2>1. CASE packet = << >>
    BY <1>2, <1>3, <2>1 DEF push_frame
  <2>2. CASE packet # << >>
    <3>1. /\ pushed' = pushed + 1
          /\ available_frames' = IF available_frames < MaxAudioFrames
                                 THEN available_frames + 1 ELSE available_frames
          /\ received' = received
      BY <1>3, <2>2 DEF push_frame, host
    <3>2. Stream!Put(1)
      BY <1>1, <3>1 DEF Stream!Put
    <3> QED BY <3>2 DEF Stream!Next
  <2> QED BY <2>1, <2>2
<1>4. ASSUME available_frames > 0, consume_audio,
             received' = <<pushed - available_frames>>
      PROVE  Stream!Next
  <2>1. available_frames' = available_frames - 1 /\ pushed' = pushed
    BY <1>4 DEF consume_audio
  <2>2. received' = [i \in 1 .. 1 |-> pushed - available_frames + i - 1]
    BY <1>1, <1>4
  <2>3. Stream!Take(1)
    BY <1>1, <2>1, <2>2 DEF Stream!Take
  <2>4. 1 \in 0 .. pushed - (pushed - available_frames)
    BY <1>1, <1>4
  <2> QED BY <2>3, <2>4 DEF Stream!Next
<1>5. CASE step \/ end_frame \/ no_delivery \/ ear6_set_audio_callback
  BY <1>2, <1>5 DEF step, end_frame, no_delivery, ear6_set_audio_callback
<1>6. CASE run_frame_end
  BY <1>3, <1>6 DEF run_frame_end
<1>7. CASE deliver
  BY <1>4, <1>7, ReceiveInv DEF deliver
<1>8. CASE poll
  BY <1>4, <1>8, ReceiveInv DEF poll, Inv, TypeOK
<1>9. CASE UNCHANGED vars
  BY <1>2, <1>9 DEF vars, ring, host
<1> QED BY <1>5, <1>6, <1>7, <1>8, <1>9 DEF Next

(* The packet ring of NesApu implements the drop-oldest stream, for a ring *)
(* of any size.                                                            *)
THEOREM PacketRingImplementsStream == Spec => ImplementsStream
<1>1. Init => Stream!Init
  BY DEF Init, Stream!Init
<1>2. Spec => []Inv
  BY InitInv, NextInv, PTL DEF Spec
<1> QED BY <1>1, <1>2, StreamStep, PTL DEF Spec, ImplementsStream, Stream!Spec

=============================================================================
