--------------------------- MODULE AudioRingBuffer ---------------------------
(***************************************************************************)
(* The sample ring of the desktop applications                             *)
(* (apps/desktop/common/audio_ring_buffer.cpp) with its two users:         *)
(*                                                                         *)
(*  - the emulation thread, which pushes the stereo samples of a packet    *)
(*    from ear6_step's audio callback (DesktopSession::audio_callback) and *)
(*    clears the ring when the user pauses or another context is loaded;   *)
(*  - the audio device's callback thread (AudioOutput::fill_and_enqueue),  *)
(*    which pops one device buffer's worth of samples.                     *)
(*                                                                         *)
(* Every method takes mutex_ for its whole body, so each is one action.    *)
(* A sample is represented by its number in production order: sample 2k    *)
(* is the left half and sample 2k + 1 the right half of stereo frame k.    *)
(***************************************************************************)
EXTENDS Integers, Sequences

CONSTANTS
    Capacity,      \* samples_.size(); 96000 * 2 in DesktopSession
    PushCounts,    \* sample counts of the packets the callback pushes
    PopCounts,     \* sample counts the device asks for
    MaxProduced    \* bound on the number of samples produced

ASSUME CapacityAssumption == Capacity \in Nat \ {0}
ASSUME CountsAssumption == /\ PushCounts \subseteq Nat \ {0}
                           /\ PopCounts \subseteq Nat \ {0}
ASSUME BoundAssumption == MaxProduced \in Nat
(* DesktopSession pushes num_samples * 2 samples, the device asks for      *)
(* AUDIO_FRAMES_PER_BUFFER * AUDIO_CHANNEL_COUNT, and the capacity is a    *)
(* multiple of the channel count.                                          *)
ASSUME StereoAssumption == /\ Capacity % 2 = 0
                           /\ \A n \in PushCounts \cup PopCounts : n % 2 = 0

VARIABLES
    samples,         \* samples_: the storage, one sample number per slot
    read_position,   \* read_position_
    size,            \* size_
    produced,        \* samples pushed so far (numbers the next one)
    output           \* what the last pop wrote to its output buffer

vars == <<samples, read_position, size, produced, output>>

Slots == 0 .. Capacity - 1

(* The vector is value-initialised; no sample has been produced yet.       *)
Init ==
    /\ samples = [s \in Slots |-> 0]
    /\ read_position = 0
    /\ size = 0
    /\ produced = 0
    /\ output = << >>

(* How far slot s lies behind slot p, going forward around the ring.       *)
Distance(p, s) == IF s >= p THEN s - p ELSE s + Capacity - p

(* The two copy_n calls of push: count samples, the first being sample     *)
(* number `first', written from slot `at' on and wrapping to slot 0.       *)
CopyIn(at, count, first) ==
    [s \in Slots |-> IF Distance(at, s) < count THEN first + Distance(at, s)
                                                ELSE samples[s]]

(* The second copy_n of pop starting at the read position again.           *)
CopyOut_no_wrap(at, count) ==
    [i \in 1 .. count |->
        samples[IF at + i - 1 < Capacity THEN at + i - 1 ELSE at]]

(* The two copy_n calls of pop: count samples read from slot `at' on.      *)
CopyOut(at, count) == [i \in 1 .. count |-> samples[(at + i - 1) % Capacity]]

clear ==
    /\ read_position' = 0
    /\ size' = 0
    /\ UNCHANGED <<samples, produced, output>>

(* The first samples of an oversized packet kept instead of the last ones. *)
push_all_keeps_head(count) ==
    /\ count >= Capacity
    /\ read_position' = 0
    /\ size' = Capacity
    /\ samples' = CopyIn(0, Capacity, produced)

(* A packet at least as large as the ring replaces its content by the      *)
(* packet's last Capacity samples.                                         *)
push_all(count) ==
    /\ count >= Capacity
    /\ read_position' = 0
    /\ size' = Capacity
    /\ samples' = CopyIn(0, Capacity, produced + count - Capacity)

(* One sample too many discarded.                                          *)
push_discarding_too_many(count) ==
    LET discard == count - (Capacity - size) + 1
        read    == (read_position + discard) % Capacity
        kept    == size - discard
    IN  /\ count < Capacity
        /\ count > Capacity - size
        /\ read_position' = read
        /\ size' = kept + count
        /\ samples' = CopyIn((read + kept) % Capacity, count, produced)

(* A packet that does not fit discards exactly as many of the oldest       *)
(* samples as it needs.                                                    *)
push_discarding(count) ==
    LET discard == count - (Capacity - size)
        read    == (read_position + discard) % Capacity
        kept    == size - discard
    IN  /\ count < Capacity
        /\ count > Capacity - size
        /\ read_position' = read
        /\ size' = kept + count
        /\ samples' = CopyIn((read + kept) % Capacity, count, produced)

push_fitting(count) ==
    /\ count < Capacity
    /\ count <= Capacity - size
    /\ size' = size + count
    /\ samples' = CopyIn((read_position + size) % Capacity, count, produced)
    /\ UNCHANGED read_position

push(count) ==
    /\ produced + count <= MaxProduced
    /\ push_all(count) \/ push_discarding(count) \/ push_fitting(count)
    /\ produced' = produced + count
    /\ UNCHANGED output

(* The device gets what there is, up to what it asked for; it plays        *)
(* silence for the rest.                                                   *)
pop(requested) ==
    LET count == IF requested < size THEN requested ELSE size
    IN  /\ output' = CopyOut(read_position, count)
        /\ read_position' = (read_position + count) % Capacity
        /\ size' = size - count
        /\ UNCHANGED <<samples, produced>>

Next ==
    \/ \E n \in PushCounts : push(n)
    \/ \E n \in PopCounts : pop(n)
    \/ clear

Spec == Init /\ [][Next]_vars

-----------------------------------------------------------------------------
TypeOK ==
    /\ samples \in [Slots -> Nat]
    /\ read_position \in Slots
    /\ size \in 0 .. Capacity
    /\ produced \in Nat
    /\ size <= produced
    /\ output \in Seq(Nat)

(* The stored samples are the most recently produced ones, without gap,    *)
(* repetition or reordering, wherever they lie in the ring: no push, pop   *)
(* or clear of audio_ring_buffer.cpp lets a stale slot show through.       *)
Contiguous ==
    \A s \in Slots :
        Distance(read_position, s) < size
            => samples[s] = produced - size + Distance(read_position, s)

(* The stereo channels never swap: discarding, truncating, popping and     *)
(* clearing always leave a left sample (an even number) at the read        *)
(* position and whole stereo frames in the ring.                           *)
StereoAligned == size % 2 = 0 /\ (produced - size) % 2 = 0

(* The ring implements the drop-oldest stream: what the device thread gets *)
(* is always the oldest samples not yet played, cleared or overwritten.    *)
Stream == INSTANCE LossyStream
    WITH lo <- produced - size, hi <- produced, out <- output,
         Bursts <- PushCounts

ImplementsStream == Stream!Spec

=============================================================================
