----------------------------- MODULE LossyStream -----------------------------
(***************************************************************************)
(* What both audio queues of the system promise their consumer: a bounded  *)
(* first-in first-out stream that, when the producer is faster than the    *)
(* consumer, forgets its oldest items and nothing else.                    *)
(*                                                                         *)
(* Items are numbered 0, 1, 2, ... in the order they are produced, so the  *)
(* stream is an interval of numbers: the items lo .. hi - 1 are stored,    *)
(* everything below lo has been handed out, overwritten or cleared.        *)
(*                                                                         *)
(* NesAudioRing (the 8-packet ring of NesApu) and AudioRingBuffer (the     *)
(* sample ring of the desktop application) implement this specification.   *)
(***************************************************************************)
EXTENDS Integers, Sequences

CONSTANTS Capacity,   \* how many items the stream stores at most
          Bursts      \* how many items one Put may add

VARIABLES lo,         \* number of the oldest stored item
          hi,         \* number of the next item to be produced
          out         \* the items handed out by the last Take, oldest first

vars == <<lo, hi, out>>

Init == lo = 0 /\ hi = 0 /\ out = << >>

(* n new items arrive; the oldest ones go if there is no room for all.     *)
Put(n) ==
    /\ hi' = hi + n
    /\ lo' = IF hi + n - Capacity > lo THEN hi + n - Capacity ELSE lo
    /\ UNCHANGED out

(* The consumer receives the n oldest items.                               *)
Take(n) ==
    /\ lo' = lo + n
    /\ out' = [i \in 1 .. n |-> lo + i - 1]
    /\ UNCHANGED hi

(* Everything stored is thrown away.                                       *)
Clear ==
    /\ lo' = hi
    /\ UNCHANGED <<hi, out>>

Next ==
    \/ \E n \in Bursts : Put(n)
    \/ \E n \in 0 .. hi - lo : Take(n)
    \/ Clear

Spec == Init /\ [][Next]_vars

=============================================================================
