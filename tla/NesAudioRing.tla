----------------------------- MODULE NesAudioRing ----------------------------
(***************************************************************************)
(* How the sound of the NES core reaches the host: NesApu::end_frame mixes *)
(* a chunk of samples several times per video frame and appends it to      *)
(* frame_accumulator_; at the end of NesConsole::run_frame the accumulated *)
(* chunks become one packet of a ring of MAX_AUDIO_FRAMES packets, whose   *)
(* oldest packet ear6_step hands to the audio callback and releases.  A    *)
(* host without a callback polls ear6_get_audiobuffer and calls            *)
(* ear6_consume_audio; it may also change its mind.                        *)
(*                                                                         *)
(* A chunk is represented by its number in the order of mixing, a packet   *)
(* by the sequence of its chunks.  Everything runs on the host's thread.   *)
(***************************************************************************)
EXTENDS Integers, Sequences

CONSTANTS
    MaxAudioFrames,   \* MAX_AUDIO_FRAMES; 8
    MaxMixed          \* bound on the number of chunks mixed

ASSUME MaxAudioFramesAssumption == MaxAudioFrames \in Nat \ {0}
ASSUME MaxMixedAssumption == MaxMixed \in Nat

VARIABLES
    audio_ring,          \* audio_ring_[i].data, and the packet's number
    write_index,         \* write_index_
    read_index,          \* read_index_
    available_frames,    \* available_frames_
    frame_accumulator,   \* frame_accumulator_
    audio_cb,            \* is an audio callback set?
    phase,               \* where ear6_step is: "idle", "running", "callback"
    mixed,               \* chunks mixed so far (numbers the next one)
    pushed,              \* packets pushed so far
    received,            \* the packet numbers the host received last
    heard                \* the chunks it received last

vars == <<audio_ring, write_index, read_index, available_frames,
          frame_accumulator, audio_cb, phase, mixed, pushed, received, heard>>

ring == <<audio_ring, write_index, read_index, available_frames, pushed>>
host == <<received, heard>>

Slots == 0 .. MaxAudioFrames - 1

Init ==
    /\ audio_ring = [i \in Slots |-> [number |-> 0, data |-> << >>]]
    /\ write_index = 0
    /\ read_index = 0
    /\ available_frames = 0
    /\ frame_accumulator = << >>
    /\ audio_cb = FALSE
    /\ phase = "idle"
    /\ mixed = 0
    /\ pushed = 0
    /\ received = << >>
    /\ heard = << >>

(* The mixer yields a chunk, or, when too few cycles have passed for a     *)
(* sample, nothing.                                                        *)
mix(accumulated) ==
    \/ mixed' = mixed /\ accumulated = frame_accumulator
    \/ /\ mixed < MaxMixed
       /\ mixed' = mixed + 1
       /\ accumulated = Append(frame_accumulator, mixed)

step ==
    /\ phase = "idle"
    /\ phase' = "running"
    /\ UNCHANGED <<ring, frame_accumulator, audio_cb, mixed, host>>

(* NesApu::process_cpu_clock calls end_frame every CYCLE_LENGTH cycles.    *)
end_frame ==
    /\ phase = "running"
    /\ mix(frame_accumulator')
    /\ mixed' # mixed
    /\ UNCHANGED <<ring, audio_cb, phase, host>>

(* A full ring gives up its oldest packet.                                 *)
push_frame(packet) ==
    IF packet = << >> THEN UNCHANGED ring
    ELSE /\ audio_ring' = [audio_ring EXCEPT ![write_index] = [number |-> pushed, data |-> packet]]
         /\ write_index' = (write_index + 1) % MaxAudioFrames
         /\ IF available_frames < MaxAudioFrames
            THEN /\ available_frames' = available_frames + 1
                 /\ UNCHANGED read_index
            ELSE /\ read_index' = (read_index + 1) % MaxAudioFrames
                 /\ UNCHANGED available_frames
         /\ pushed' = pushed + 1

run_frame_end_keeps_accumulator ==
    /\ phase = "running"
    /\ \E accumulated \in {frame_accumulator, Append(frame_accumulator, mixed)} :
            mix(accumulated) /\ push_frame(accumulated) /\ frame_accumulator' = accumulated
    /\ phase' = "callback"
    /\ UNCHANGED <<audio_cb, host>>

(* The end of run_frame: end_frame, then push_frame, which empties the     *)
(* accumulator.                                                            *)
run_frame_end ==
    /\ phase = "running"
    /\ \E accumulated \in {frame_accumulator, Append(frame_accumulator, mixed)} :
            mix(accumulated) /\ push_frame(accumulated)
    /\ frame_accumulator' = << >>
    /\ phase' = "callback"
    /\ UNCHANGED <<audio_cb, host>>

(* The host is handed the packet at read_index_.                           *)
receive ==
    /\ received' = <<audio_ring[read_index].number>>
    /\ heard' = audio_ring[read_index].data

consume_audio_keeps_count ==
    /\ read_index' = (read_index + 1) % MaxAudioFrames
    /\ UNCHANGED <<audio_ring, write_index, available_frames, pushed>>

consume_audio ==
    /\ read_index' = (read_index + 1) % MaxAudioFrames
    /\ available_frames' = available_frames - 1
    /\ UNCHANGED <<audio_ring, write_index, pushed>>

(* The tail of ear6_step.                                                  *)
deliver ==
    /\ phase = "callback"
    /\ audio_cb
    /\ available_frames > 0
    /\ receive
    /\ consume_audio
    /\ phase' = "idle"
    /\ UNCHANGED <<frame_accumulator, audio_cb, mixed>>

no_delivery ==
    /\ phase = "callback"
    /\ ~audio_cb \/ available_frames = 0
    /\ phase' = "idle"
    /\ UNCHANGED <<ring, frame_accumulator, audio_cb, mixed, host>>

(* ear6_get_audiobuffer and ear6_consume_audio of a polling host.          *)
poll ==
    /\ phase = "idle"
    /\ available_frames > 0
    /\ receive
    /\ consume_audio
    /\ UNCHANGED <<frame_accumulator, audio_cb, phase, mixed>>

ear6_set_audio_callback ==
    /\ phase = "idle"
    /\ audio_cb' = ~audio_cb
    /\ UNCHANGED <<ring, frame_accumulator, phase, mixed, host>>

Next ==
    \/ step \/ end_frame \/ run_frame_end \/ deliver \/ no_delivery
    \/ poll \/ ear6_set_audio_callback

Spec == Init /\ [][Next]_vars

-----------------------------------------------------------------------------
TypeOK ==
    /\ audio_ring \in [Slots -> [number : Nat, data : Seq(Nat)]]
    /\ write_index \in Slots
    /\ read_index \in Slots
    /\ available_frames \in 0 .. MaxAudioFrames
    /\ frame_accumulator \in Seq(Nat)
    /\ audio_cb \in BOOLEAN
    /\ phase \in {"idle", "running", "callback"}
    /\ mixed \in Nat
    /\ pushed \in Nat
    /\ available_frames <= pushed
    /\ received \in Seq(Nat)
    /\ heard \in Seq(Nat)

(* The packet k places behind the oldest queued one.                       *)
Queued(k) == audio_ring[(read_index + k) % MaxAudioFrames].data

(* Nothing that was mixed is lost, repeated or reordered except by the     *)
(* overflow of the ring: the last packet heard, the queued packets and the *)
(* accumulator hold consecutive chunks, up to the last one mixed.          *)
NoGapInQueue ==
    /\ TypeOK
    /\ \A k \in 0 .. available_frames - 1 :
          LET packet == Queued(k)
              next   == IF k + 1 < available_frames THEN Queued(k + 1)
                                                    ELSE frame_accumulator
          IN  /\ packet # << >>
              /\ \A i \in 1 .. Len(packet) - 1 : packet[i + 1] = packet[i] + 1
              /\ IF next = << >> THEN packet[Len(packet)] = mixed - 1
                                 ELSE next[1] = packet[Len(packet)] + 1
    /\ \A i \in 1 .. Len(frame_accumulator) :
          frame_accumulator[i] = mixed - Len(frame_accumulator) + i - 1
    /\ heard # << >> /\ available_frames > 0
          => heard[Len(heard)] < Queued(0)[1]

(* The ring implements the drop-oldest stream of packets.                  *)
Stream == INSTANCE LossyStream
    WITH lo <- pushed - available_frames, hi <- pushed, out <- received,
         Capacity <- MaxAudioFrames, Bursts <- {1}

ImplementsStream == Stream!Spec

=============================================================================
