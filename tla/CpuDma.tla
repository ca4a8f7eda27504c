------------------------------- MODULE CpuDma --------------------------------
(***************************************************************************)
(* The two DMA units that steal cycles from the NES CPU, and the program   *)
(* that runs around them:                                                  *)
(*                                                                         *)
(*  - sprite DMA: a write to $4014 copies a page into the PPU's OAM;       *)
(*  - DMC DMA: the sample channel fetches its next byte                    *)
(*    (audio/delta_modulation_channel.cpp) and may be switched off, on and *)
(*    off again while a fetch is pending or under way;                     *)
(*  - NesCpu::memory_read, which starts the DMA loop                       *)
(*    (NesCpu::process_pending_dma) before it does its own cycle, and      *)
(*    NesCpu::memory_write, which never does.                              *)
(*                                                                         *)
(* One action is one CPU cycle: start_cpu_cycle clocks the APU, then the   *)
(* bus access happens.  The CPU program is arbitrary; an instruction is    *)
(* the shape of its bus accesses.  The DMC's output unit is abstracted to  *)
(* the number of cycles until it next asks for a byte; NesApu::run may run *)
(* it late, but only while no byte is left to fetch, and every register    *)
(* access runs it first, so it is clocked on every cycle here.             *)
(***************************************************************************)
EXTENDS Integers, Sequences

CONSTANTS
    SpriteBytes,     \* bytes per sprite DMA; 256
    SampleLengths,   \* values of sample_length_ the program may choose
    OutputPeriods    \* cycles between two bytes of the output unit; >= 432

(* Where the history counters stop; no DMA gets near it.                   *)
MaxStolen == 8 * SpriteBytes + 8

ASSUME SpriteBytesAssumption == SpriteBytes \in Nat \ {0}
ASSUME SampleLengthsAssumption ==
    /\ SampleLengths \subseteq Nat \ {0}
    /\ 1 \in SampleLengths
ASSUME OutputPeriodsAssumption ==
    /\ OutputPeriods \subseteq Nat \ {0}
    /\ OutputPeriods # {}

VARIABLES
    hw,              \* the DMA state of NesCpu and the state of the DMC
    odd,             \* cycle_count & 1
    bus,             \* the bus accesses the current instruction still makes
    dma,             \* where memory_read is: "none", "loop" or "resume"
    sprite_counter,  \* sprite_counter of process_pending_dma
    read_value,      \* read_value of process_pending_dma: a page offset, or
                     \* -1 for a sample byte
    latch,           \* bit 4 of $4015 as the instruction last read it
    frame_ended,     \* NesConsole::run_frame has ended since the last exec
    oam,             \* what the current sprite DMA has written to $2004
    stolen,          \* cycles the current process_pending_dma has taken
    fetched          \* sample bytes it has fetched

vars == <<hw, odd, bus, dma, sprite_counter, read_value, latch, frame_ended,
          oam, stolen, fetched>>

-----------------------------------------------------------------------------
(* Instructions: reads, then writes to one address, then reads.            *)

Targets == {"ram", "4010", "4013", "4014", "4015"}

Access(r, w, t, q) == [reads |-> r, writes |-> w, target |-> t, tail |-> q]

Idle == Access(0, 0, "ram", 0)

Instructions ==
    {Access(r, 0, "ram", 0) : r \in {2, 3}}       \* implied, immediate, loads
      \cup {Access(2, 1, "ram", 0)}               \* zero-page store, PHA, PHP
      \cup {Access(3, 1, t, 0) : t \in Targets}   \* absolute store
      \cup {Access(4, 2, t, 0) : t \in Targets}   \* absolute read-modify-write
      \cup {Access(3, 2, "ram", 1)}               \* JSR
      \cup {Access(2, 3, "ram", 2)}               \* BRK, irq()

ReadNext == bus.reads > 0 \/ (bus.writes = 0 /\ bus.tail > 0)
WriteNext == bus.reads = 0 /\ bus.writes > 0

(* The operand read of a read-modify-write of $4015.                       *)
ReadsStatus == bus.target = "4015" /\ bus.reads = 1 /\ bus.writes = 2

AfterRead(b) == IF b.reads > 0 THEN [b EXCEPT !.reads = @ - 1]
                               ELSE [b EXCEPT !.tail = @ - 1]
AfterWrite(b) == [b EXCEPT !.writes = @ - 1]

-----------------------------------------------------------------------------
(* NesCpu's side of the DMC.                                               *)

cpu_start_dmc_transfer(h) ==
    [h EXCEPT !.dmc_dma_running = TRUE,
              !.need_dummy_read = TRUE,
              !.need_halt = TRUE]

stop_dmc_transfer_keeps_halt(h) ==
    IF ~h.dmc_dma_running THEN h
    ELSE IF h.need_halt
         THEN [h EXCEPT !.dmc_dma_running = FALSE, !.need_dummy_read = FALSE]
         ELSE [h EXCEPT !.abort_dmc_dma = TRUE]

stop_dmc_transfer(h) ==
    IF ~h.dmc_dma_running THEN h
    ELSE IF h.need_halt
         THEN [h EXCEPT !.dmc_dma_running = FALSE,
                        !.need_dummy_read = FALSE,
                        !.need_halt = FALSE]
         ELSE [h EXCEPT !.abort_dmc_dma = TRUE]

run_dma_transfer_without_halt(h) == [h EXCEPT !.sprite_dma_transfer = TRUE]

run_dma_transfer(h) ==
    [h EXCEPT !.sprite_dma_transfer = TRUE, !.need_halt = TRUE]

(* The block at the head of each branch of the DMA loop.                   *)
process_cycle(h) ==
    IF h.abort_dmc_dma
    THEN [h EXCEPT !.dmc_dma_running = FALSE,
                   !.abort_dmc_dma = FALSE,
                   !.need_dummy_read = FALSE,
                   !.need_halt = FALSE]
    ELSE IF h.need_halt THEN [h EXCEPT !.need_halt = FALSE]
    ELSE [h EXCEPT !.need_dummy_read = FALSE]

-----------------------------------------------------------------------------
(* The DMC.                                                                *)

init_sample(h) ==
    [h EXCEPT !.bytes_remaining = h.sample_length,
              !.need_to_run_flag = @ \/ h.sample_length > 0]

start_dmc_transfer_unguarded(h) ==
    IF h.bytes_remaining > 0 THEN cpu_start_dmc_transfer(h) ELSE h

start_dmc_transfer(h) ==
    IF h.buffer_empty /\ h.bytes_remaining > 0 THEN cpu_start_dmc_transfer(h)
                                               ELSE h

set_dmc_read_buffer(h) ==
    IF h.bytes_remaining = 0 THEN h
    ELSE LET g == [h EXCEPT !.buffer_empty = FALSE, !.bytes_remaining = @ - 1]
         IN  IF g.bytes_remaining > 0 THEN g
             ELSE IF g.loop_flag THEN init_sample(g)
             ELSE IF g.irq_enabled THEN [g EXCEPT !.irq = TRUE]
             ELSE g

(* The output unit moves the buffered byte to its shift register when it   *)
(* has played the previous one, and asks for the next.                     *)
dmc_run(h) ==
    IF h.until_empty > 1 THEN [h EXCEPT !.until_empty = @ - 1]
    ELSE LET g == [h EXCEPT !.until_empty = h.period]
         IN  IF g.buffer_empty THEN g
             ELSE LET e == [g EXCEPT !.buffer_empty = TRUE,
                                     !.need_to_run_flag = TRUE]
                  IN  IF e.transfer_start_delay = 0 THEN start_dmc_transfer(e)
                                                    ELSE e

dmc_disable_clock(h) ==
    LET d == [h EXCEPT !.disable_delay = @ - 1]
    IN  IF h.disable_delay = 0 THEN h
        ELSE IF d.disable_delay > 0 THEN d
        ELSE stop_dmc_transfer([d EXCEPT !.bytes_remaining = 0])

dmc_start_clock_lost(h) ==
    IF h.transfer_start_delay = 0 THEN h
    ELSE [h EXCEPT !.transfer_start_delay = @ - 1]

dmc_start_clock(h) ==
    LET d == [h EXCEPT !.transfer_start_delay = @ - 1]
    IN  IF h.transfer_start_delay = 0 THEN h
        ELSE IF d.transfer_start_delay > 0 THEN d
        ELSE start_dmc_transfer(d)

dmc_flag_clock(h) ==
    [h EXCEPT !.need_to_run_flag = \/ h.disable_delay > 0
                                   \/ h.transfer_start_delay > 0
                                   \/ h.bytes_remaining > 0]

process_clock(h) == dmc_flag_clock(dmc_start_clock(dmc_disable_clock(h)))

dmc_need_to_run(h) == IF h.need_to_run_flag THEN process_clock(h) ELSE h

(* NesApu::process_cpu_clock, as far as the DMC goes.                      *)
apu_clock(h) == dmc_run(dmc_need_to_run(h))

(* `parity' is the parity of cycle_count in the writing cycle.             *)
set_enabled(h, enabled, parity) ==
    LET delay == IF parity THEN 3 ELSE 2
    IN  IF ~enabled
        THEN [h EXCEPT !.disable_delay = IF @ = 0 THEN delay ELSE @,
                       !.need_to_run_flag = TRUE]
        ELSE IF h.bytes_remaining = 0
        THEN [init_sample(h) EXCEPT !.transfer_start_delay = delay,
                                    !.need_to_run_flag = TRUE]
        ELSE h

(* NesApu::write_ram, $4015.                                               *)
write_status(h, enabled, parity) ==
    set_enabled([h EXCEPT !.irq = FALSE], enabled, parity)

(* $4010: IRQ enable, loop flag, rate.                                     *)
write_control(h, irq_enabled, loop_flag, period) ==
    [h EXCEPT !.irq_enabled = irq_enabled,
              !.loop_flag = loop_flag,
              !.period = period,
              !.irq = @ /\ irq_enabled]

-----------------------------------------------------------------------------
(* A freshly built console after NesConsole::reset(false).  The CPU's      *)
(* reset ends with eight idle cycles from cycle_count = -1, during which   *)
(* the output unit runs.                                                   *)
AfterReset(until, period) ==
    [need_halt |-> FALSE, sprite_dma_transfer |-> FALSE,
     dmc_dma_running |-> FALSE, abort_dmc_dma |-> FALSE,
     need_dummy_read |-> FALSE,
     buffer_empty |-> TRUE, bytes_remaining |-> 0, sample_length |-> 1,
     transfer_start_delay |-> 0, disable_delay |-> 0,
     need_to_run_flag |-> FALSE, loop_flag |-> FALSE, irq_enabled |-> FALSE,
     irq |-> FALSE, until_empty |-> until, period |-> period]

Init ==
    /\ \E p \in OutputPeriods : \E u \in 1 .. p : hw = AfterReset(u, p)
    /\ odd = TRUE
    /\ bus = Idle
    /\ dma = "none"
    /\ sprite_counter = 0
    /\ read_value = 0
    /\ latch = FALSE
    /\ frame_ended = FALSE
    /\ oam = << >>
    /\ stolen = 0
    /\ fetched = 0

BetweenInstructions ==
    dma = "none" /\ bus.reads = 0 /\ bus.writes = 0 /\ bus.tail = 0

(* The end of run_frame: NesApu::end_frame clocks the DMC once more,       *)
(* between two instructions.                                               *)
end_frame ==
    /\ BetweenInstructions
    /\ ~frame_ended
    /\ frame_ended' = TRUE
    /\ hw' = process_clock(hw)
    /\ UNCHANGED <<odd, bus, dma, sprite_counter, read_value, latch, oam,
                   stolen, fetched>>

exec ==
    /\ BetweenInstructions
    /\ bus' \in Instructions
    /\ frame_ended' = FALSE
    /\ UNCHANGED <<hw, odd, dma, sprite_counter, read_value, latch, oam,
                   stolen, fetched>>

-----------------------------------------------------------------------------
(* The locals of process_pending_dma, and the history kept with them.      *)
DmaLocalsCleared ==
    /\ sprite_counter' = 0
    /\ read_value' = 0
    /\ oam' = << >>
    /\ stolen' = 0
    /\ fetched' = 0

(* A read cycle of the CPU, when no DMA is pending or right after one: the *)
(* flags are not looked at again before the cycle.                         *)
memory_read ==
    /\ ReadNext
    /\ dma = "resume" \/ (dma = "none" /\ ~hw.need_halt)
    /\ hw' = apu_clock(hw)
    /\ odd' = ~odd
    /\ latch' = (ReadsStatus /\ hw'.bytes_remaining > 0)
    /\ bus' = AfterRead(bus)
    /\ dma' = "none"
    /\ DmaLocalsCleared
    /\ UNCHANGED frame_ended

halt_cycle_keeps_halt(h) ==
    LET g == apu_clock(h)
    IN  IF ~g.abort_dmc_dma THEN g
        ELSE [g EXCEPT !.dmc_dma_running = FALSE,
                       !.abort_dmc_dma = FALSE,
                       !.need_dummy_read = @ /\ g.sprite_dma_transfer]

(* The halt cycle at the start of process_pending_dma, with the abort that *)
(* may have come in during it.                                             *)
halt_cycle(h) ==
    LET g == apu_clock([h EXCEPT !.need_halt = FALSE])
    IN  IF ~g.abort_dmc_dma THEN g
        ELSE [g EXCEPT !.dmc_dma_running = FALSE,
                       !.abort_dmc_dma = FALSE,
                       !.need_dummy_read = @ /\ g.sprite_dma_transfer]

(* The loop runs while there is something to transfer.                     *)
EnterOrLeaveLoop ==
    dma' = IF hw'.dmc_dma_running \/ hw'.sprite_dma_transfer THEN "loop"
                                                              ELSE "resume"

process_pending_dma ==
    /\ ReadNext
    /\ dma = "none"
    /\ hw.need_halt
    /\ hw' = halt_cycle(hw)
    /\ odd' = ~odd
    /\ EnterOrLeaveLoop
    /\ stolen' = 1
    /\ UNCHANGED <<bus, latch, frame_ended, sprite_counter, read_value, oam,
                   fetched>>

(* What every cycle of the DMA loop does besides its transfer.             *)
DmaCycle ==
    /\ dma = "loop"
    /\ odd' = ~odd
    /\ stolen' = IF stolen < MaxStolen THEN stolen + 1 ELSE stolen
    /\ EnterOrLeaveLoop
    /\ UNCHANGED <<bus, latch, frame_ended>>

DmcReady == hw.dmc_dma_running /\ ~hw.need_halt /\ ~hw.need_dummy_read

dma_dmc_read ==
    /\ ~odd
    /\ DmcReady
    /\ hw' = [set_dmc_read_buffer(apu_clock(process_cycle(hw)))
                 EXCEPT !.dmc_dma_running = FALSE, !.abort_dmc_dma = FALSE]
    /\ read_value' = -1
    /\ fetched' = IF fetched < MaxStolen THEN fetched + 1 ELSE fetched
    /\ UNCHANGED <<sprite_counter, oam>>
    /\ DmaCycle

dma_sprite_read ==
    /\ ~odd
    /\ ~DmcReady
    /\ hw.sprite_dma_transfer
    /\ hw' = apu_clock(process_cycle(hw))
    /\ read_value' = (sprite_counter + 1) \div 2
    /\ sprite_counter' = sprite_counter + 1
    /\ UNCHANGED <<oam, fetched>>
    /\ DmaCycle

dma_sprite_write_any_put ==
    /\ odd
    /\ hw.sprite_dma_transfer
    /\ sprite_counter > 0
    /\ hw' = [apu_clock(process_cycle(hw))
                 EXCEPT !.sprite_dma_transfer = sprite_counter + 1 # 2 * SpriteBytes]
    /\ oam' = Append(oam, read_value)
    /\ sprite_counter' = sprite_counter + 1
    /\ UNCHANGED <<read_value, fetched>>
    /\ DmaCycle

dma_sprite_write ==
    /\ odd
    /\ hw.sprite_dma_transfer
    /\ sprite_counter % 2 = 1
    /\ hw' = [apu_clock(process_cycle(hw))
                 EXCEPT !.sprite_dma_transfer = sprite_counter + 1 # 2 * SpriteBytes]
    /\ oam' = Append(oam, read_value)
    /\ sprite_counter' = sprite_counter + 1
    /\ UNCHANGED <<read_value, fetched>>
    /\ DmaCycle

dma_dummy_read ==
    /\ IF odd THEN ~(hw.sprite_dma_transfer /\ sprite_counter % 2 = 1)
              ELSE ~DmcReady /\ ~hw.sprite_dma_transfer
    /\ hw' = apu_clock(process_cycle(hw))
    /\ UNCHANGED <<sprite_counter, read_value, oam, fetched>>
    /\ DmaCycle

-----------------------------------------------------------------------------
(* A write cycle: the APU is clocked, then the register is written.  It    *)
(* never starts the DMA loop.                                              *)
WriteCycle(target) ==
    /\ dma = "none"
    /\ WriteNext
    /\ bus.target = target
    /\ bus' = AfterWrite(bus)
    /\ odd' = ~odd
    /\ UNCHANGED <<dma, sprite_counter, read_value, latch, frame_ended, oam,
                   stolen, fetched>>

write_ram == WriteCycle("ram") /\ hw' = apu_clock(hw)

write_4014 ==
    /\ WriteCycle("4014")
    /\ hw' = run_dma_transfer(apu_clock(hw))

write_4010 ==
    /\ WriteCycle("4010")
    /\ \E i \in BOOLEAN, l \in BOOLEAN, p \in OutputPeriods :
            hw' = write_control(apu_clock(hw), i, l, p)

write_4013 ==
    /\ WriteCycle("4013")
    /\ \E n \in SampleLengths : hw' = [apu_clock(hw) EXCEPT !.sample_length = n]

(* The first write of a read-modify-write instruction puts back what it    *)
(* read; any other write may switch the channel on or off.                 *)
write_4015 ==
    /\ WriteCycle("4015")
    /\ \E enabled \in IF bus.writes = 2 THEN {latch} ELSE BOOLEAN :
            hw' = write_status(apu_clock(hw), enabled, odd')

-----------------------------------------------------------------------------
Cycle ==
    \/ memory_read \/ process_pending_dma
    \/ dma_dmc_read \/ dma_sprite_read \/ dma_sprite_write \/ dma_dummy_read
    \/ write_ram \/ write_4010 \/ write_4013 \/ write_4014 \/ write_4015

Next == exec \/ end_frame \/ Cycle

Spec == Init /\ [][Next]_vars

(* The host keeps calling ear6_step: instructions are executed and their   *)
(* cycles taken.                                                           *)
FairSpec == Spec /\ WF_vars(exec) /\ WF_vars(Cycle)

-----------------------------------------------------------------------------
HardwareState ==
    [need_halt : BOOLEAN, sprite_dma_transfer : BOOLEAN,
     dmc_dma_running : BOOLEAN, abort_dmc_dma : BOOLEAN,
     need_dummy_read : BOOLEAN,
     buffer_empty : BOOLEAN, bytes_remaining : Nat, sample_length : SampleLengths,
     transfer_start_delay : 0 .. 3, disable_delay : 0 .. 3,
     need_to_run_flag : BOOLEAN, loop_flag : BOOLEAN, irq_enabled : BOOLEAN,
     irq : BOOLEAN, until_empty : Nat \ {0}, period : OutputPeriods]

TypeOK ==
    /\ hw \in HardwareState
    /\ odd \in BOOLEAN
    /\ bus \in [reads : 0 .. 4, writes : 0 .. 3, target : Targets, tail : 0 .. 2]
    /\ dma \in {"none", "loop", "resume"}
    /\ sprite_counter \in 0 .. 2 * SpriteBytes
    /\ read_value \in -1 .. SpriteBytes - 1
    /\ latch \in BOOLEAN
    /\ frame_ended \in BOOLEAN
    /\ oam \in Seq(-1 .. SpriteBytes - 1)
    /\ stolen \in Nat
    /\ fetched \in Nat

(* A DMA the program or the channel has asked for is never forgotten, and  *)
(* the CPU is halted for nothing else: outside the loop of                 *)
(* process_pending_dma need_halt_ is set exactly while a transfer is in    *)
(* progress, so that the next read starts it, although stop_dmc_transfer   *)
(* clears need_halt_ while a sprite DMA may be waiting on it as well.  An  *)
(* abort never outlives the transfer it is meant for: it cannot cancel a   *)
(* later sample's fetch.                                                   *)
HaltMatchesDma ==
    /\ TypeOK
    /\ hw.need_halt => hw.sprite_dma_transfer \/ hw.dmc_dma_running
    /\ dma # "loop" /\ (hw.sprite_dma_transfer \/ hw.dmc_dma_running)
        => hw.need_halt
    /\ hw.abort_dmc_dma => /\ dma = "loop"
                           /\ hw.dmc_dma_running
                           /\ hw.bytes_remaining = 0

(* A fetch is under way only while the buffer is empty and a byte is left: *)
(* set_dmc_read_buffer never overwrites a byte not yet played, nor drops   *)
(* one it was handed, unless the channel has just been switched off.       *)
(* Conversely a byte still to be played with an empty buffer is being      *)
(* fetched or about to be: whatever the order of $4015 writes, output      *)
(* clocks and frame ends, the channel does not stall; for that the cached  *)
(* need_to_run_flag_ must be set whenever process_clock has something to   *)
(* count.  The interrupt is pending only after a sample has ended with its *)
(* interrupt enabled.                                                      *)
FetchMatchesBuffer ==
    /\ hw.dmc_dma_running => /\ hw.buffer_empty
                             /\ hw.bytes_remaining > 0 \/ hw.abort_dmc_dma
    /\ hw.buffer_empty /\ hw.bytes_remaining > 0
          => hw.dmc_dma_running \/ hw.transfer_start_delay > 0
    /\ hw.disable_delay > 0 \/ hw.transfer_start_delay > 0 \/ hw.bytes_remaining > 0
          => hw.need_to_run_flag
    /\ hw.irq => hw.irq_enabled /\ hw.bytes_remaining = 0

(* The sprite DMA writes the page's bytes to OAM in order, all of them and *)
(* nothing else, however many sample fetches take its read cycles.         *)
OamInOrder ==
    /\ \A i \in 1 .. Len(oam) : oam[i] = i - 1
    /\ dma = "resume" /\ oam # << >> => Len(oam) = SpriteBytes
    /\ sprite_counter % 2 = 1 => dma = "loop" /\ odd

(* What a DMA costs the CPU: a sample fetch by itself at most four cycles, *)
(* a sprite DMA two per byte and one or two more, and a sample fetch that  *)
(* joins a sprite DMA at most three more.                                  *)
DmaCost ==
    dma = "resume" =>
        IF oam = << >> THEN stolen <= 4
        ELSE /\ stolen >= 2 * SpriteBytes + 1
             /\ stolen <= 2 * SpriteBytes + 2 + 3 * fetched

(* Every sprite DMA is completed, every halt ends, and the CPU goes on.    *)
SpriteDmaCompletes ==
    /\ hw.sprite_dma_transfer ~> ~hw.sprite_dma_transfer
    /\ hw.need_halt ~> ~hw.need_halt
    /\ dma # "none" ~> dma = "none"

(* The channel gets its next byte, or is switched off.                     *)
SampleFetched ==
    hw.buffer_empty /\ hw.bytes_remaining > 0
        ~> ~hw.buffer_empty \/ hw.bytes_remaining = 0

=============================================================================
