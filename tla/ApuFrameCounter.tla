--------------------------- MODULE ApuFrameCounter ---------------------------
(***************************************************************************)
(* The frame counter of the APU and the length counter of a channel it     *)
(* clocks, with the catch-up scheme that drives them.                      *)
(*                                                                         *)
(* NesApu does not run on every CPU cycle: NesApu::need_to_run decides     *)
(* when it must, register accesses and end_frame run it first, and         *)
(* NesApu::run then makes up for all the cycles missed.  `apu' is that     *)
(* lazily run state, `ref' the same hardware run on every cycle; the two   *)
(* must never be told apart by the program or by the interrupt line.       *)
(***************************************************************************)
EXTENDS Integers, Sequences, SequencesExt

CONSTANTS
    StepCycles,     \* step_cycles_: mode and step to cycle
    LengthLoads     \* values of LOOKUP_TABLE the program loads

Modes == {0, 1}
Steps == 0 .. 5

ASSUME StepCyclesAssumption ==
    /\ StepCycles \in [Modes -> [Steps -> Nat \ {0}]]
    /\ \A m \in Modes : \A s \in 0 .. 4 : StepCycles[m][s] < StepCycles[m][s + 1]
ASSUME LengthLoadsAssumption == LengthLoads \subseteq Nat \ {0}

VARIABLES
    apu,         \* the state NesApu keeps
    lag,         \* current_cycle_ - previous_cycle_ of NesApu
    ref,         \* the state run on every cycle
    odd,         \* cycle_count & 1
    ticked       \* did the last cycle clock the channels?

vars == <<apu, lag, ref, odd, ticked>>

-----------------------------------------------------------------------------
(* ApuLengthCounter.                                                       *)

tick_length_counter(a) ==
    [a EXCEPT !.counter = IF @ > 0 /\ ~a.halt THEN @ - 1 ELSE @]

(* A load loses against a clock in the same cycle.                         *)
reload_counter(a) ==
    [a EXCEPT !.counter = IF a.reload_value > 0 /\ @ = a.previous_value
                          THEN a.reload_value ELSE @,
              !.reload_value = 0,
              !.halt = a.new_halt]

load_length_counter(a, value) ==
    IF ~a.enabled THEN a
    ELSE [a EXCEPT !.reload_value = value,
                   !.previous_value = a.counter,
                   !.need_to_run = TRUE]

initialize_length_counter(a, halt) ==
    [a EXCEPT !.new_halt = halt, !.need_to_run = TRUE]

set_enabled(a, enabled) ==
    [a EXCEPT !.counter = IF enabled THEN @ ELSE 0, !.enabled = enabled]

-----------------------------------------------------------------------------
(* ApuFrameCounter.                                                        *)

FrameType == [s \in Steps |-> CASE s \in {0, 2} -> "quarter"
                                [] s \in {1, 4} -> "half"
                                [] OTHER -> "none"]

(* NesApu::frame_counter_tick; `ticks' counts the clocks of the envelopes. *)
frame_counter_tick(a, type) ==
    LET t == [a EXCEPT !.ticks = (@ + 1) % 4, !.block = 2]
    IN  IF type = "half" THEN tick_length_counter(t) ELSE t

(* The last three steps of the four-step mode raise the interrupt.         *)
raise_irq(a) ==
    IF a.step_mode = 1 \/ a.current_step < 3 THEN a
    ELSE IF ~a.inhibit THEN [a EXCEPT !.irq_flag = TRUE, !.irq = TRUE]
    ELSE [a EXCEPT !.irq_flag = a.current_step # 5]

(* The part of run that reaches a step.                                    *)
do_step(a) ==
    LET type == FrameType[a.current_step]
        b == raise_irq(a)
        c == IF type # "none" /\ b.block = 0 THEN frame_counter_tick(b, type)
                                            ELSE b
        last == c.current_step = 5
    IN  [c EXCEPT !.current_step = IF last THEN 0 ELSE @ + 1,
                  !.previous_cycle = IF last THEN 0
                                     ELSE StepCycles[a.step_mode][a.current_step]]

apply_write_unblocked(a) ==
    IF a.new_value = -1 THEN a
    ELSE IF a.write_delay > 1 THEN [a EXCEPT !.write_delay = @ - 1]
    ELSE LET b == [a EXCEPT !.step_mode = a.new_value,
                            !.write_delay = 0,
                            !.current_step = 0,
                            !.previous_cycle = 0,
                            !.new_value = -1]
         IN  IF b.step_mode = 1 THEN frame_counter_tick(b, "half") ELSE b

(* A write to $4017 takes effect after its delay; the five-step mode       *)
(* clocks the channels at once.                                            *)
apply_write(a) ==
    IF a.new_value = -1 THEN a
    ELSE IF a.write_delay > 1 THEN [a EXCEPT !.write_delay = @ - 1]
    ELSE LET b == [a EXCEPT !.step_mode = a.new_value,
                            !.write_delay = 0,
                            !.current_step = 0,
                            !.previous_cycle = 0,
                            !.new_value = -1]
         IN  IF b.step_mode = 1 /\ b.block = 0 THEN frame_counter_tick(b, "half")
                                              ELSE b

unblock(a) == [a EXCEPT !.block = IF @ > 0 THEN @ - 1 ELSE 0]

(* ApuFrameCounter::run followed by the channels' reload_length_counter:   *)
(* up to the next step or to the end of the cycles to run.                 *)
run_part(r) ==
    LET a    == r.state
        step == StepCycles[a.step_mode][a.current_step]
        hit  == a.previous_cycle + r.cycles >= step
        ran  == IF ~hit THEN r.cycles
                ELSE IF step < a.previous_cycle THEN 0
                ELSE step - a.previous_cycle
        b    == IF hit THEN do_step(a) ELSE [a EXCEPT !.previous_cycle = @ + ran]
    IN  [state |-> reload_counter(unblock(apply_write(b))),
         cycles |-> r.cycles - ran]

(* NesApu::run: `cycles' cycles, in as many parts as it takes.             *)
run(a, cycles) ==
    FoldLeft(LAMBDA r, i : IF r.cycles > 0 THEN run_part(r) ELSE r,
             [state |-> a, cycles |-> cycles],
             [i \in 1 .. 2 * cycles |-> i]).state

fc_need_to_run_late(a, cycles) ==
    \/ a.new_value # -1
    \/ a.block > 0
    \/ a.previous_cycle + cycles > StepCycles[a.step_mode][a.current_step]

fc_need_to_run(a, cycles) ==
    \/ a.new_value # -1
    \/ a.block > 0
    \/ a.previous_cycle + cycles >= StepCycles[a.step_mode][a.current_step] - 1

(* A write to $4017; `parity' is that of cycle_count.                      *)
write_4017(a, mode, inhibit, parity) ==
    [a EXCEPT !.new_value = mode,
              !.write_delay = IF parity THEN 4 ELSE 3,
              !.inhibit = inhibit,
              !.irq = @ /\ ~inhibit,
              !.irq_flag = @ /\ ~inhibit]

(* Reading $4015 acknowledges the interrupt but leaves irq_flag_ set.      *)
read_4015(a) == [a EXCEPT !.irq = FALSE]

-----------------------------------------------------------------------------
AfterReset ==
    [previous_cycle |-> 0, current_step |-> 0, step_mode |-> 0,
     inhibit |-> FALSE, block |-> 0, new_value |-> 0, write_delay |-> 3,
     irq_flag |-> FALSE, irq |-> FALSE, ticks |-> 0,
     counter |-> 0, reload_value |-> 0, previous_value |-> 0,
     halt |-> FALSE, new_halt |-> FALSE, enabled |-> FALSE,
     need_to_run |-> FALSE]

Init ==
    /\ apu = AfterReset
    /\ ref = AfterReset
    /\ lag = 0
    /\ odd \in BOOLEAN
    /\ ticked = FALSE

(* NesApu::process_cpu_clock: run if need be.                              *)
Scheduled == apu.need_to_run \/ fc_need_to_run(apu, lag + 1)
Clocked == IF Scheduled THEN run([apu EXCEPT !.need_to_run = FALSE], lag + 1)
                        ELSE apu
CaughtUp == IF Scheduled THEN Clocked ELSE run(apu, lag + 1)

EveryCycle ==
    /\ odd' = ~odd
    /\ ticked' = (run(ref, 1).ticks # ref.ticks)

(* A CPU cycle that does not touch the APU.                                *)
process_cpu_clock ==
    /\ EveryCycle
    /\ apu' = Clocked
    /\ lag' = IF Scheduled THEN 0 ELSE lag + 1
    /\ ref' = run(ref, 1)

(* A cycle with a register access, or with end_frame: both run the APU up  *)
(* to the present first.                                                   *)
Accessed(Effect(_)) ==
    /\ EveryCycle
    /\ apu' = Effect(CaughtUp)
    /\ lag' = 0
    /\ ref' = Effect(run(ref, 1))

end_frame == Accessed(LAMBDA a : a)

read_status == Accessed(LAMBDA a : read_4015(a))

write_status == \E e \in BOOLEAN : Accessed(LAMBDA a : set_enabled(a, e))

write_frame_counter ==
    \E m \in Modes, i \in BOOLEAN :
        Accessed(LAMBDA a : write_4017(a, m, i, odd'))

write_length ==
    \E v \in LengthLoads : Accessed(LAMBDA a : load_length_counter(a, v))

write_halt ==
    \E h \in BOOLEAN : Accessed(LAMBDA a : initialize_length_counter(a, h))

Next ==
    \/ process_cpu_clock \/ end_frame
    \/ read_status \/ write_status \/ write_frame_counter
    \/ write_length \/ write_halt

Spec == Init /\ [][Next]_vars

-----------------------------------------------------------------------------
Counters == {0} \cup UNION {1 .. v : v \in LengthLoads}

State ==
    [previous_cycle : Nat, current_step : Steps, step_mode : Modes,
     inhibit : BOOLEAN, block : 0 .. 2, new_value : {-1, 0, 1},
     write_delay : 0 .. 4, irq_flag : BOOLEAN, irq : BOOLEAN, ticks : 0 .. 3,
     counter : Counters, reload_value : {0} \cup LengthLoads,
     previous_value : Counters, halt : BOOLEAN, new_halt : BOOLEAN,
     enabled : BOOLEAN, need_to_run : BOOLEAN]

TypeOK ==
    /\ apu \in State
    /\ ref \in State
    /\ lag \in Nat
    /\ odd \in BOOLEAN
    /\ ticked \in BOOLEAN

(* What the program cannot see: the scheduling flag.                       *)
Visible(a) == [a EXCEPT !.need_to_run = FALSE]

(* Running late is never noticed: whenever the APU is up to date it is in  *)
(* the state it would have if it had run on every cycle, and its interrupt *)
(* line is right at every cycle, up to date or not.                        *)
LazyIsExact ==
    /\ TypeOK
    /\ lag = 0 => Visible(apu) = Visible(ref)
    /\ apu.irq = ref.irq

(* Two clocks of the channels never come in consecutive cycles, even when  *)
(* a mode written to $4017 takes effect just as a step is reached.         *)
TicksApart == [][ticked => run(ref, 1).ticks = ref.ticks]_vars

=============================================================================
