------------------------------ MODULE IrqTimer ------------------------------
(***************************************************************************)
(* What a cartridge's interrupt timer promises a program: between two      *)
(* writes to its registers it is a plain countdown.  Time is counted in    *)
(* thirds of a tick, the PPU dots of a CPU cycle, so that a timer which    *)
(* divides the clock by scanlines is still exact.                          *)
(***************************************************************************)
EXTENDS Integers

VARIABLES
    left,      \* thirds of a tick until the line rises; Never, Unspecified
    period,    \* what is added when it does; Never for a single shot
    hold,      \* how long a line that falls by itself stays up; Never
    line,      \* the interrupt request the CPU sees
    event      \* "tick", "write" or "idle": what the last step was

timer == <<left, period, hold, line, event>>

Never == 0
Unspecified == -1
TickThirds == 3

Init ==
    /\ left = Never /\ period = Never /\ hold \in Nat
    /\ line = FALSE /\ event = "idle"

(* The line rises on the tick that uses up the time left, and only then;   *)
(* the thirds of a tick that were not needed count for the next period.    *)
Tick ==
    /\ event' = "tick"
    /\ hold' = hold
    /\ \/ left = Never /\ UNCHANGED <<left, period, line>>
       \/ left = Unspecified /\ line' \in {line, TRUE}
       \/ /\ left > TickThirds
          /\ left' = left - TickThirds
          /\ line' = (line /\ (hold = Never \/ left' > period - hold))
          /\ period' = period
       \/ /\ left \in 1 .. TickThirds
          /\ left' = IF period = Never THEN Never ELSE left - TickThirds + period
          /\ line' = TRUE
          /\ period' = period

(* A register write may set the timer to anything and acknowledge the      *)
(* request; it never raises one.                                           *)
Write ==
    /\ event' = "write"
    /\ line' \in {line, FALSE}
    /\ hold' = hold

Idle == event' = "idle" /\ UNCHANGED <<left, period, hold, line>>

Next == Tick \/ Write \/ Idle

Spec == Init /\ [][Next]_timer

=============================================================================
