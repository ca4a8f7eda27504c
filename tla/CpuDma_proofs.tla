--------------------------- MODULE CpuDma_proofs ---------------------------
(***************************************************************************)
(* The DMA units, for sprite pages and samples of any length, any rate of  *)
(* the output unit and any program: halts match transfers, fetches match   *)
(* the sample buffer, OAM is written in order and the cycles taken are     *)
(* bounded.  What is said of the hardware (HwOK) is shown to survive every *)
(* helper of the APU's clock by itself; what else a clock may do to the    *)
(* halt is collected in Tick.                                              *)
(***************************************************************************)
EXTENDS CpuDma, TLAPS

(* HardwareState, with names for the sets.                                 *)
Bits == BOOLEAN
Delays == 0 .. 3
Positive == Nat \ {0}

Hw ==
    [need_halt : Bits, sprite_dma_transfer : Bits, dmc_dma_running : Bits,
     abort_dmc_dma : Bits, need_dummy_read : Bits, buffer_empty : Bits,
     bytes_remaining : Nat, sample_length : SampleLengths,
     transfer_start_delay : Delays, disable_delay : Delays,
     need_to_run_flag : Bits, loop_flag : Bits, irq_enabled : Bits,
     irq : Bits, until_empty : Positive, period : OutputPeriods]

(* FetchMatchesBuffer, of any hardware state.                              *)
Fetching(h) ==
    /\ h.dmc_dma_running => h.buffer_empty /\ (h.bytes_remaining > 0 \/ h.abort_dmc_dma)
    /\ h.buffer_empty /\ h.bytes_remaining > 0
          => h.dmc_dma_running \/ h.transfer_start_delay > 0
    /\ h.disable_delay > 0 \/ h.transfer_start_delay > 0 \/ h.bytes_remaining > 0
          => h.need_to_run_flag
    /\ h.irq => h.irq_enabled /\ h.bytes_remaining = 0

(* An abort is for the transfer under way, which is past its halt; a       *)
(* transfer that is about to start is not under way.                       *)
Halting(h) ==
    /\ h.abort_dmc_dma => h.dmc_dma_running /\ ~h.need_halt /\ h.bytes_remaining = 0
    /\ h.transfer_start_delay > 0 => ~h.dmc_dma_running
    /\ h.need_halt => h.sprite_dma_transfer \/ h.dmc_dma_running

HwOK(h) == h \in Hw /\ Fetching(h) /\ Halting(h)

(* Outside the DMA loop every sample fetch still has its halt to come, and *)
(* none is aborted; inside, only a fetch has a halt to come.               *)
Outside(h) == (h.dmc_dma_running => h.need_halt) /\ ~h.abort_dmc_dma
Inside(h) == h.need_halt => h.dmc_dma_running

(* No fetch is about to start.                                             *)
Settled(h) == h.buffer_empty /\ h.transfer_start_delay = 0 /\ ~h.need_halt

(* What the APU's clock keeps.                                             *)
Tick(h, k) ==
    /\ k.sprite_dma_transfer = h.sprite_dma_transfer
    /\ k.disable_delay <= h.disable_delay
    /\ h.need_halt /\ h.disable_delay = 0 => k.need_halt
    /\ Outside(h) => Outside(k)
    /\ Inside(h) => Inside(k)
    /\ Settled(h) => Settled(k)
    /\ Settled(h) /\ ~h.need_dummy_read => ~k.need_dummy_read
    /\ h.disable_delay = 0 /\ ~h.abort_dmc_dma => ~k.abort_dmc_dma
    /\ h.disable_delay = 0 /\ h.dmc_dma_running => k.dmc_dma_running

(* The sprite DMA is asked for by a write to $4014 and starts with the     *)
(* next read: no other write comes between, and a channel switched off     *)
(* before has stopped by then.                                             *)
SpriteWaits ==
    dma = "none" /\ hw.sprite_dma_transfer
        => /\ hw.need_halt /\ hw.disable_delay = 0
           /\ WriteNext => bus.target = "4014"

SwitchedOff == bus.target = "4014" => hw.disable_delay <= bus.reads

Looping ==
    /\ dma # "loop" => Outside(hw)
    /\ dma = "loop" => Inside(hw) /\ (hw.dmc_dma_running \/ hw.sprite_dma_transfer)
    /\ dma = "resume" => ~hw.dmc_dma_running /\ ~hw.sprite_dma_transfer

(* The counter is twice the bytes written, and one more between a read and *)
(* the write that follows in the next cycle.                               *)
Between == sprite_counter = 2 * Len(oam) + 1

Copying ==
    /\ oam \in Seq(-1 .. SpriteBytes - 1)
    /\ \A i \in 1 .. Len(oam) : oam[i] = i - 1
    /\ sprite_counter = 2 * Len(oam) \/ Between
    /\ Between => dma = "loop" /\ odd /\ hw.sprite_dma_transfer /\ read_value = Len(oam)
    /\ hw.sprite_dma_transfer => Len(oam) < SpriteBytes
    /\ ~hw.sprite_dma_transfer => Len(oam) \in {0, SpriteBytes}
    /\ dma = "none" => oam = << >>

Bus == [reads : 0 .. 4, writes : 0 .. 3, target : Targets, tail : 0 .. 2]

Types ==
    /\ odd \in BOOLEAN
    /\ bus \in Bus
    /\ dma \in {"none", "loop", "resume"}
    /\ sprite_counter \in Nat
    /\ read_value \in -1 .. SpriteBytes - 1
    /\ latch \in BOOLEAN
    /\ frame_ended \in BOOLEAN
    /\ stolen \in Nat
    /\ fetched \in Nat

Inv ==
    /\ HwOK(hw) /\ Types /\ SpriteWaits /\ SwitchedOff /\ Looping /\ Copying

-----------------------------------------------------------------------------
(* The helpers of the clock, one by one.                                   *)

LEMMA TickSame == ASSUME NEW h \in Hw PROVE Tick(h, h)
  BY DEF Tick, Hw, Delays

LEMMA TickTwice ==
    ASSUME NEW h \in Hw, NEW k \in Hw, NEW m \in Hw, Tick(h, k), Tick(k, m)
    PROVE  Tick(h, m)
  <1>1. /\ h.disable_delay \in 0 .. 3 /\ k.disable_delay \in 0 .. 3
        /\ m.disable_delay \in 0 .. 3
    BY DEF Hw, Delays
  <1>2. m.disable_delay <= h.disable_delay
    BY <1>1 DEF Tick
  <1>3. h.disable_delay = 0 => k.disable_delay = 0
    BY <1>1 DEF Tick
  <1> QED
    BY <1>2, <1>3 DEF Tick

(* A fetch starts if the buffer is empty and a byte is left.               *)
LEMMA Started ==
    ASSUME NEW h \in Hw
    PROVE  LET q == start_dmc_transfer(h)
               starts == h.buffer_empty /\ h.bytes_remaining > 0
           IN  /\ q \in Hw
               /\ q.sprite_dma_transfer = h.sprite_dma_transfer /\ q.abort_dmc_dma = h.abort_dmc_dma
               /\ q.buffer_empty = h.buffer_empty /\ q.bytes_remaining = h.bytes_remaining
               /\ q.transfer_start_delay = h.transfer_start_delay /\ q.disable_delay = h.disable_delay
               /\ q.need_to_run_flag = h.need_to_run_flag /\ q.irq_enabled = h.irq_enabled
               /\ q.irq = h.irq
               /\ q.dmc_dma_running = (h.dmc_dma_running \/ starts)
               /\ q.need_halt = (h.need_halt \/ starts)
               /\ q.need_dummy_read = (h.need_dummy_read \/ starts)
  <1> DEFINE c == cpu_start_dmc_transfer(h)
  <1>1. TRUE \in Bits
    BY DEF Bits
  <1>2. c \in Hw
    BY <1>1 DEF Hw, cpu_start_dmc_transfer
  <1>3. /\ c.sprite_dma_transfer = h.sprite_dma_transfer /\ c.abort_dmc_dma = h.abort_dmc_dma
        /\ c.buffer_empty = h.buffer_empty /\ c.bytes_remaining = h.bytes_remaining
        /\ c.transfer_start_delay = h.transfer_start_delay /\ c.disable_delay = h.disable_delay
        /\ c.need_to_run_flag = h.need_to_run_flag /\ c.irq_enabled = h.irq_enabled
        /\ c.irq = h.irq
        /\ c.dmc_dma_running = TRUE /\ c.need_halt = TRUE /\ c.need_dummy_read = TRUE
    BY DEF Hw, cpu_start_dmc_transfer
  <1> HIDE DEF c
  <1>4. /\ h.dmc_dma_running \in BOOLEAN /\ h.need_halt \in BOOLEAN
        /\ h.need_dummy_read \in BOOLEAN
    BY DEF Hw, Bits
  <1>5. CASE h.buffer_empty /\ h.bytes_remaining > 0
    <2>1. start_dmc_transfer(h) = c
      BY <1>5 DEF start_dmc_transfer, c
    <2> QED
      BY <1>2, <1>3, <1>5, <2>1
  <1>6. CASE ~(h.buffer_empty /\ h.bytes_remaining > 0)
    <2>1. start_dmc_transfer(h) = h
      BY <1>6 DEF start_dmc_transfer
    <2> QED
      BY <1>4, <1>6, <2>1
  <1> QED
    BY <1>5, <1>6

LEMMA StartClockOK ==
    ASSUME NEW h, HwOK(h)
    PROVE  HwOK(dmc_start_clock(h)) /\ Tick(h, dmc_start_clock(h))
  <1> DEFINE d == [h EXCEPT !.transfer_start_delay = h.transfer_start_delay - 1]
             q == start_dmc_transfer(d)
  <1>1. h \in Hw /\ h.transfer_start_delay \in 0 .. 3
    BY DEF HwOK, Hw, Delays
  <1>2. CASE h.transfer_start_delay = 0
    BY <1>1, <1>2, TickSame DEF dmc_start_clock
  <1>3. CASE h.transfer_start_delay > 0
    <2>1. h.transfer_start_delay - 1 \in Delays
      BY <1>1, <1>3 DEF Delays
    <2>2. d \in Hw
      BY <1>1, <2>1 DEF Hw
    <2>3. /\ d.need_halt = h.need_halt /\ d.sprite_dma_transfer = h.sprite_dma_transfer
          /\ d.dmc_dma_running = h.dmc_dma_running /\ d.abort_dmc_dma = h.abort_dmc_dma
          /\ d.buffer_empty = h.buffer_empty /\ d.bytes_remaining = h.bytes_remaining
          /\ d.disable_delay = h.disable_delay /\ d.need_to_run_flag = h.need_to_run_flag
          /\ d.irq_enabled = h.irq_enabled /\ d.irq = h.irq
          /\ d.need_dummy_read = h.need_dummy_read
          /\ d.transfer_start_delay = h.transfer_start_delay - 1
      BY <1>1 DEF Hw
    <2>4. dmc_start_clock(h) = IF d.transfer_start_delay > 0 THEN d ELSE q
      BY <1>1, <1>3 DEF dmc_start_clock
    <2> HIDE DEF d
    <2>5. CASE d.transfer_start_delay > 0
      <3>1. Fetching(d) /\ Halting(d)
        BY <1>1, <1>3, <2>2, <2>3, <2>5 DEF HwOK, Fetching, Halting, Hw, Bits, Delays
      <3>2. Tick(h, d)
        BY <1>1, <1>3, <2>2, <2>3 DEF HwOK, Fetching, Halting, Hw, Bits, Delays, Tick, Outside, Inside, Settled
      <3> QED
        BY <2>2, <2>4, <2>5, <3>1, <3>2 DEF HwOK
    <2>6. CASE ~(d.transfer_start_delay > 0)
      <3>1. q \in Hw
        BY <2>2, Started
      <3>2. /\ q.sprite_dma_transfer = d.sprite_dma_transfer /\ q.abort_dmc_dma = d.abort_dmc_dma
            /\ q.buffer_empty = d.buffer_empty /\ q.bytes_remaining = d.bytes_remaining
            /\ q.transfer_start_delay = d.transfer_start_delay /\ q.disable_delay = d.disable_delay
            /\ q.need_to_run_flag = d.need_to_run_flag /\ q.irq_enabled = d.irq_enabled
            /\ q.irq = d.irq
            /\ q.dmc_dma_running = (d.dmc_dma_running \/ (d.buffer_empty /\ d.bytes_remaining > 0))
            /\ q.need_halt = (d.need_halt \/ (d.buffer_empty /\ d.bytes_remaining > 0))
            /\ q.need_dummy_read = (d.need_dummy_read \/ (d.buffer_empty /\ d.bytes_remaining > 0))
        BY <2>2, Started
      <3>3. dmc_start_clock(h) = q
        BY <2>4, <2>6
      <3> HIDE DEF q
      <3>4. ~h.dmc_dma_running /\ ~h.abort_dmc_dma
        BY <1>3 DEF HwOK, Halting
      <3>5. Fetching(q) /\ Halting(q)
        BY <1>1, <1>3, <2>3, <2>6, <3>2, <3>4 DEF HwOK, Fetching, Halting, Hw, Bits, Delays
      <3>6. Tick(h, q)
        BY <1>1, <1>3, <2>3, <2>6, <3>2, <3>4 DEF HwOK, Fetching, Halting, Hw, Bits, Delays, Tick, Outside, Inside, Settled
      <3> QED
        BY <3>1, <3>3, <3>5, <3>6 DEF HwOK
    <2> QED
      BY <2>5, <2>6
  <1> QED
    BY <1>1, <1>2, <1>3

(* The channel is switched off: the transfer under way is taken back if it *)
(* has not begun, and else told to abort.                                  *)
LEMMA Stopped ==
    ASSUME NEW h \in Hw
    PROVE  LET q == stop_dmc_transfer(h)
           IN  /\ q \in Hw
               /\ q.sprite_dma_transfer = h.sprite_dma_transfer /\ q.buffer_empty = h.buffer_empty
               /\ q.bytes_remaining = h.bytes_remaining /\ q.transfer_start_delay = h.transfer_start_delay
               /\ q.disable_delay = h.disable_delay /\ q.need_to_run_flag = h.need_to_run_flag
               /\ q.irq_enabled = h.irq_enabled /\ q.irq = h.irq
               /\ q.dmc_dma_running = (h.dmc_dma_running /\ ~h.need_halt)
               /\ q.need_halt = (h.need_halt /\ ~h.dmc_dma_running)
               /\ q.abort_dmc_dma = (h.abort_dmc_dma \/ (h.dmc_dma_running /\ ~h.need_halt))
               /\ q.need_dummy_read => h.need_dummy_read
  <1> DEFINE b == [h EXCEPT !.dmc_dma_running = FALSE, !.need_dummy_read = FALSE,
                            !.need_halt = FALSE]
             a == [h EXCEPT !.abort_dmc_dma = TRUE]
  <1>1. TRUE \in Bits /\ FALSE \in Bits
    BY DEF Bits
  <1>2. b \in Hw /\ a \in Hw
    BY <1>1 DEF Hw
  <1>3. /\ b.sprite_dma_transfer = h.sprite_dma_transfer /\ b.abort_dmc_dma = h.abort_dmc_dma
        /\ b.buffer_empty = h.buffer_empty /\ b.bytes_remaining = h.bytes_remaining
        /\ b.transfer_start_delay = h.transfer_start_delay /\ b.disable_delay = h.disable_delay
        /\ b.need_to_run_flag = h.need_to_run_flag /\ b.irq_enabled = h.irq_enabled
        /\ b.irq = h.irq
        /\ b.dmc_dma_running = FALSE /\ b.need_halt = FALSE /\ b.need_dummy_read = FALSE
    BY DEF Hw
  <1>4. /\ a.need_halt = h.need_halt /\ a.sprite_dma_transfer = h.sprite_dma_transfer
        /\ a.dmc_dma_running = h.dmc_dma_running /\ a.buffer_empty = h.buffer_empty
        /\ a.bytes_remaining = h.bytes_remaining /\ a.transfer_start_delay = h.transfer_start_delay
        /\ a.disable_delay = h.disable_delay /\ a.need_to_run_flag = h.need_to_run_flag
        /\ a.irq_enabled = h.irq_enabled /\ a.irq = h.irq
        /\ a.need_dummy_read = h.need_dummy_read
        /\ a.abort_dmc_dma = TRUE
    BY DEF Hw
  <1>5. stop_dmc_transfer(h) = IF ~h.dmc_dma_running THEN h ELSE IF h.need_halt THEN b ELSE a
    BY DEF stop_dmc_transfer
  <1> HIDE DEF a, b
  <1>6. /\ h.dmc_dma_running \in BOOLEAN /\ h.need_halt \in BOOLEAN
        /\ h.abort_dmc_dma \in BOOLEAN
    BY DEF Hw, Bits
  <1>7. CASE ~h.dmc_dma_running
    BY <1>5, <1>6, <1>7
  <1>8. CASE h.dmc_dma_running /\ h.need_halt
    <2>1. stop_dmc_transfer(h) = b
      BY <1>5, <1>8
    <2> QED
      BY <1>2, <1>3, <1>6, <1>8, <2>1
  <1>9. CASE h.dmc_dma_running /\ ~h.need_halt
    <2>1. stop_dmc_transfer(h) = a
      BY <1>5, <1>9
    <2> QED
      BY <1>2, <1>4, <1>6, <1>9, <2>1
  <1> QED
    BY <1>7, <1>8, <1>9

LEMMA DisableClockOK ==
    ASSUME NEW h, HwOK(h)
    PROVE  /\ HwOK(dmc_disable_clock(h)) /\ Tick(h, dmc_disable_clock(h))
           /\ h.disable_delay > 0 => dmc_disable_clock(h).disable_delay = h.disable_delay - 1
  <1> DEFINE d == [h EXCEPT !.disable_delay = h.disable_delay - 1]
             z == [d EXCEPT !.bytes_remaining = 0]
             q == stop_dmc_transfer(z)
  <1>1. h \in Hw /\ h.disable_delay \in 0 .. 3
    BY DEF HwOK, Hw, Delays
  <1>2. CASE h.disable_delay = 0
    BY <1>1, <1>2, TickSame DEF dmc_disable_clock
  <1>3. CASE h.disable_delay > 0
    <2>1. h.disable_delay - 1 \in Delays
      BY <1>1, <1>3 DEF Delays
    <2>2. d \in Hw
      BY <1>1, <2>1 DEF Hw
    <2>3. /\ d.need_halt = h.need_halt /\ d.sprite_dma_transfer = h.sprite_dma_transfer
          /\ d.dmc_dma_running = h.dmc_dma_running /\ d.abort_dmc_dma = h.abort_dmc_dma
          /\ d.buffer_empty = h.buffer_empty /\ d.bytes_remaining = h.bytes_remaining
          /\ d.transfer_start_delay = h.transfer_start_delay /\ d.need_to_run_flag = h.need_to_run_flag
          /\ d.irq_enabled = h.irq_enabled /\ d.irq = h.irq
          /\ d.need_dummy_read = h.need_dummy_read
          /\ d.disable_delay = h.disable_delay - 1
      BY <1>1 DEF Hw
    <2>4. dmc_disable_clock(h) = IF d.disable_delay > 0 THEN d ELSE q
      BY <1>1, <1>3 DEF dmc_disable_clock
    <2> HIDE DEF d
    <2>5. CASE d.disable_delay > 0
      <3>1. Fetching(d) /\ Halting(d)
        BY <1>1, <1>3, <2>3 DEF HwOK, Fetching, Halting, Hw, Bits, Delays
      <3>2. Tick(h, d)
        BY <1>1, <1>3, <2>3 DEF HwOK, Fetching, Halting, Hw, Bits, Delays, Tick, Outside, Inside, Settled
      <3> QED
        BY <2>2, <2>3, <2>4, <2>5, <3>1, <3>2 DEF HwOK
    <2>6. CASE ~(d.disable_delay > 0)
      <3>1. z \in Hw
        BY <2>2 DEF Hw
      <3>2. /\ z.need_halt = d.need_halt /\ z.sprite_dma_transfer = d.sprite_dma_transfer
            /\ z.dmc_dma_running = d.dmc_dma_running /\ z.abort_dmc_dma = d.abort_dmc_dma
            /\ z.buffer_empty = d.buffer_empty /\ z.transfer_start_delay = d.transfer_start_delay
            /\ z.disable_delay = d.disable_delay /\ z.need_to_run_flag = d.need_to_run_flag
            /\ z.irq_enabled = d.irq_enabled /\ z.irq = d.irq
            /\ z.need_dummy_read = d.need_dummy_read
            /\ z.bytes_remaining = 0
        BY <2>2 DEF Hw
      <3> HIDE DEF z
      <3>3. q \in Hw
        BY <3>1, Stopped
      <3>4. /\ q.sprite_dma_transfer = z.sprite_dma_transfer /\ q.buffer_empty = z.buffer_empty
            /\ q.bytes_remaining = z.bytes_remaining /\ q.transfer_start_delay = z.transfer_start_delay
            /\ q.disable_delay = z.disable_delay /\ q.need_to_run_flag = z.need_to_run_flag
            /\ q.irq_enabled = z.irq_enabled /\ q.irq = z.irq
            /\ q.dmc_dma_running = (z.dmc_dma_running /\ ~z.need_halt)
            /\ q.need_halt = (z.need_halt /\ ~z.dmc_dma_running)
            /\ q.abort_dmc_dma = (z.abort_dmc_dma \/ (z.dmc_dma_running /\ ~z.need_halt))
            /\ q.need_dummy_read => z.need_dummy_read
        BY <3>1, Stopped
      <3>5. dmc_disable_clock(h) = q
        BY <2>4, <2>6
      <3> HIDE DEF q
      <3>6. Fetching(q) /\ Halting(q)
        BY <1>1, <1>3, <2>3, <3>2, <3>4 DEF HwOK, Fetching, Halting, Hw, Bits, Delays
      <3>7. Tick(h, q)
        BY <1>1, <1>3, <2>3, <3>2, <3>4 DEF HwOK, Fetching, Halting, Hw, Bits, Delays, Tick, Outside, Inside, Settled
      <3> QED
        BY <2>3, <3>2, <3>3, <3>4, <3>5, <3>6, <3>7 DEF HwOK
    <2> QED
      BY <2>5, <2>6
  <1> QED
    BY <1>1, <1>2, <1>3

LEMMA FlagClockOK ==
    ASSUME NEW h, HwOK(h)
    PROVE  /\ HwOK(dmc_flag_clock(h)) /\ Tick(h, dmc_flag_clock(h))
           /\ dmc_flag_clock(h).disable_delay = h.disable_delay
  <1> DEFINE flag == h.disable_delay > 0 \/ h.transfer_start_delay > 0 \/ h.bytes_remaining > 0
             q == [h EXCEPT !.need_to_run_flag = flag]
  <1>1. h \in Hw
    BY DEF HwOK
  <1>2. flag \in Bits
    BY DEF Bits
  <1>3. dmc_flag_clock(h) = q
    BY DEF dmc_flag_clock
  <1> HIDE DEF flag
  <1>4. q \in Hw
    BY <1>1, <1>2 DEF Hw
  <1>5. /\ q.need_halt = h.need_halt /\ q.sprite_dma_transfer = h.sprite_dma_transfer
        /\ q.dmc_dma_running = h.dmc_dma_running /\ q.abort_dmc_dma = h.abort_dmc_dma
        /\ q.buffer_empty = h.buffer_empty /\ q.bytes_remaining = h.bytes_remaining
        /\ q.transfer_start_delay = h.transfer_start_delay /\ q.disable_delay = h.disable_delay
        /\ q.irq_enabled = h.irq_enabled /\ q.irq = h.irq
        /\ q.need_dummy_read = h.need_dummy_read
        /\ q.need_to_run_flag = flag
    BY <1>1 DEF Hw
  <1> HIDE DEF q
  <1>6. Fetching(q) /\ Halting(q)
    BY <1>1, <1>5 DEF HwOK, Fetching, Halting, Hw, Bits, Delays, flag
  <1>7. Tick(h, q)
    BY <1>1, <1>5 DEF HwOK, Fetching, Halting, Hw, Bits, Delays, Tick, Outside, Inside, Settled
  <1> QED
    BY <1>3, <1>4, <1>5, <1>6, <1>7 DEF HwOK

LEMMA ProcessClockOK ==
    ASSUME NEW h, HwOK(h)
    PROVE  /\ HwOK(process_clock(h)) /\ Tick(h, process_clock(h))
           /\ h.disable_delay > 0 => process_clock(h).disable_delay < h.disable_delay
  <1> DEFINE d == dmc_disable_clock(h)
             t == dmc_start_clock(d)
             g == dmc_flag_clock(t)
  <1>1. HwOK(d) /\ Tick(h, d) /\ (h.disable_delay > 0 => d.disable_delay = h.disable_delay - 1)
    BY DisableClockOK
  <1>2. HwOK(t) /\ Tick(d, t)
    BY <1>1, StartClockOK
  <1>3. HwOK(g) /\ Tick(t, g)
    BY <1>2, FlagClockOK
  <1>4. process_clock(h) = g
    BY DEF process_clock
  <1> HIDE DEF d, t, g
  <1>5. h \in Hw /\ d \in Hw /\ t \in Hw /\ g \in Hw
    BY <1>1, <1>2, <1>3 DEF HwOK
  <1>6. Tick(h, t)
    BY <1>1, <1>2, <1>5, TickTwice
  <1>7. Tick(h, g)
    BY <1>3, <1>5, <1>6, TickTwice
  <1>8. Tick(d, g)
    BY <1>2, <1>3, <1>5, TickTwice
  <1>9. h.disable_delay \in 0 .. 3 /\ d.disable_delay \in 0 .. 3 /\ g.disable_delay \in 0 .. 3
    BY <1>5 DEF Hw, Delays
  <1>10. g.disable_delay <= d.disable_delay
    BY <1>8 DEF Tick
  <1>11. h.disable_delay > 0 => g.disable_delay < h.disable_delay
    BY <1>1, <1>9, <1>10
  <1> QED
    BY <1>3, <1>4, <1>7, <1>11

(* The output unit takes the byte, and the next fetch starts at once.      *)
LEMMA OutputOK ==
    ASSUME NEW h, HwOK(h)
    PROVE  HwOK(dmc_run(h)) /\ Tick(h, dmc_run(h))
  <1> DEFINE c == [h EXCEPT !.until_empty = h.until_empty - 1]
             g == [h EXCEPT !.until_empty = h.period]
             e == [g EXCEPT !.buffer_empty = TRUE, !.need_to_run_flag = TRUE]
             q == start_dmc_transfer(e)
  <1>1. h \in Hw
    BY DEF HwOK
  <1>2. CASE h.until_empty > 1
    <2>1. h.until_empty - 1 \in Positive
      BY <1>1, <1>2 DEF Hw, Positive
    <2>2. c \in Hw
      BY <1>1, <2>1 DEF Hw
    <2>3. /\ c.need_halt = h.need_halt /\ c.sprite_dma_transfer = h.sprite_dma_transfer
          /\ c.dmc_dma_running = h.dmc_dma_running /\ c.abort_dmc_dma = h.abort_dmc_dma
          /\ c.buffer_empty = h.buffer_empty /\ c.bytes_remaining = h.bytes_remaining
          /\ c.transfer_start_delay = h.transfer_start_delay /\ c.disable_delay = h.disable_delay
          /\ c.need_to_run_flag = h.need_to_run_flag /\ c.irq_enabled = h.irq_enabled
          /\ c.irq = h.irq /\ c.need_dummy_read = h.need_dummy_read
      BY <1>1 DEF Hw
    <2>4. dmc_run(h) = c
      BY <1>2 DEF dmc_run
    <2> HIDE DEF c
    <2>5. Fetching(c) /\ Halting(c)
      BY <2>3 DEF HwOK, Fetching, Halting
    <2>6. Tick(h, c)
      BY <1>1, <2>3 DEF Tick, Outside, Inside, Settled, Hw, Delays
    <2> QED
      BY <2>2, <2>4, <2>5, <2>6 DEF HwOK
  <1>3. CASE ~(h.until_empty > 1)
    <2>1. h.period \in Positive
      BY <1>1, OutputPeriodsAssumption DEF Hw, Positive
    <2>2. g \in Hw
      BY <1>1, <2>1 DEF Hw
    <2>3. /\ g.need_halt = h.need_halt /\ g.sprite_dma_transfer = h.sprite_dma_transfer
          /\ g.dmc_dma_running = h.dmc_dma_running /\ g.abort_dmc_dma = h.abort_dmc_dma
          /\ g.buffer_empty = h.buffer_empty /\ g.bytes_remaining = h.bytes_remaining
          /\ g.transfer_start_delay = h.transfer_start_delay /\ g.disable_delay = h.disable_delay
          /\ g.need_to_run_flag = h.need_to_run_flag /\ g.irq_enabled = h.irq_enabled
          /\ g.irq = h.irq /\ g.need_dummy_read = h.need_dummy_read
      BY <1>1 DEF Hw
    <2>4. dmc_run(h) = IF g.buffer_empty THEN g
                       ELSE IF e.transfer_start_delay = 0 THEN q ELSE e
      BY <1>3 DEF dmc_run
    <2> HIDE DEF g
    <2>5. TRUE \in Bits
      BY DEF Bits
    <2>6. e \in Hw
      BY <2>2, <2>5 DEF Hw
    <2>7. /\ e.need_halt = g.need_halt /\ e.sprite_dma_transfer = g.sprite_dma_transfer
          /\ e.dmc_dma_running = g.dmc_dma_running /\ e.abort_dmc_dma = g.abort_dmc_dma
          /\ e.bytes_remaining = g.bytes_remaining /\ e.transfer_start_delay = g.transfer_start_delay
          /\ e.disable_delay = g.disable_delay /\ e.irq_enabled = g.irq_enabled
          /\ e.irq = g.irq /\ e.need_dummy_read = g.need_dummy_read
          /\ e.buffer_empty = TRUE /\ e.need_to_run_flag = TRUE
      BY <2>2 DEF Hw
    <2> HIDE DEF e
    <2>8. CASE g.buffer_empty
      <3>1. dmc_run(h) = g
        BY <2>4, <2>8
      <3>2. Fetching(g) /\ Halting(g)
        BY <2>3 DEF HwOK, Fetching, Halting
      <3>3. Tick(h, g)
        BY <1>1, <2>3 DEF Tick, Outside, Inside, Settled, Hw, Delays
      <3> QED
        BY <2>2, <3>1, <3>2, <3>3 DEF HwOK
    <2>9. CASE ~g.buffer_empty
      <3>1. ~h.dmc_dma_running /\ ~h.abort_dmc_dma /\ ~h.buffer_empty
        BY <2>3, <2>9 DEF HwOK, Fetching, Halting
      <3>2. CASE e.transfer_start_delay = 0
        <4>1. q \in Hw
          BY <2>6, Started
        <4>2. /\ q.sprite_dma_transfer = e.sprite_dma_transfer /\ q.abort_dmc_dma = e.abort_dmc_dma
              /\ q.buffer_empty = e.buffer_empty /\ q.bytes_remaining = e.bytes_remaining
              /\ q.transfer_start_delay = e.transfer_start_delay /\ q.disable_delay = e.disable_delay
              /\ q.need_to_run_flag = e.need_to_run_flag /\ q.irq_enabled = e.irq_enabled
              /\ q.irq = e.irq
              /\ q.dmc_dma_running = (e.dmc_dma_running \/ (e.buffer_empty /\ e.bytes_remaining > 0))
              /\ q.need_halt = (e.need_halt \/ (e.buffer_empty /\ e.bytes_remaining > 0))
              /\ q.need_dummy_read = (e.need_dummy_read \/ (e.buffer_empty /\ e.bytes_remaining > 0))
          BY <2>6, Started
        <4>3. dmc_run(h) = q
          BY <2>4, <2>9, <3>2
        <4> HIDE DEF q
        <4>4. Fetching(q) /\ Halting(q)
          BY <1>1, <2>3, <2>7, <3>1, <3>2, <4>2 DEF HwOK, Fetching, Halting, Hw, Bits, Delays
        <4>5. Tick(h, q)
          BY <1>1, <2>3, <2>7, <3>1, <3>2, <4>2 DEF HwOK, Fetching, Halting, Hw, Bits, Delays, Tick, Outside, Inside, Settled
        <4> QED
          BY <4>1, <4>3, <4>4, <4>5 DEF HwOK
      <3>3. CASE e.transfer_start_delay # 0
        <4>1. dmc_run(h) = e
          BY <2>4, <2>9, <3>3
        <4>2. Fetching(e) /\ Halting(e)
          BY <1>1, <2>3, <2>7, <3>1, <3>3 DEF HwOK, Fetching, Halting, Hw, Bits, Delays
        <4>3. Tick(h, e)
          BY <1>1, <2>3, <2>7, <3>1 DEF HwOK, Fetching, Halting, Hw, Bits, Delays, Tick, Outside, Inside, Settled
        <4> QED
          BY <2>6, <4>1, <4>2, <4>3 DEF HwOK
      <3> QED
        BY <3>2, <3>3
    <2> QED
      BY <2>8, <2>9
  <1> QED
    BY <1>2, <1>3

(* A CPU cycle as the DMC sees it.  A channel that is being switched off   *)
(* is so one cycle sooner.                                                 *)
LEMMA ApuClockOK ==
    ASSUME NEW h, HwOK(h)
    PROVE  /\ HwOK(apu_clock(h)) /\ Tick(h, apu_clock(h))
           /\ h.disable_delay > 0 => apu_clock(h).disable_delay < h.disable_delay
  <1> DEFINE n == dmc_need_to_run(h)
             r == dmc_run(n)
  <1>1. h \in Hw
    BY DEF HwOK
  <1>2. /\ HwOK(n) /\ Tick(h, n)
        /\ h.disable_delay > 0 => n.disable_delay < h.disable_delay
    <2>1. CASE h.need_to_run_flag
      <3>1. n = process_clock(h)
        BY <2>1 DEF dmc_need_to_run
      <3> QED
        BY <3>1, ProcessClockOK
    <2>2. CASE ~h.need_to_run_flag
      <3>1. n = h
        BY <2>2 DEF dmc_need_to_run
      <3>2. ~(h.disable_delay > 0)
        BY <2>2 DEF HwOK, Fetching
      <3> QED
        BY <1>1, <3>1, <3>2, TickSame
    <2> QED
      BY <2>1, <2>2
  <1> HIDE DEF n
  <1>3. HwOK(r) /\ Tick(n, r)
    BY <1>2, OutputOK
  <1>4. apu_clock(h) = r
    BY DEF apu_clock, n
  <1> HIDE DEF r
  <1>5. n \in Hw /\ r \in Hw
    BY <1>2, <1>3 DEF HwOK
  <1>6. Tick(h, r)
    BY <1>1, <1>2, <1>3, <1>5, TickTwice
  <1>7. h.disable_delay \in 0 .. 3 /\ n.disable_delay \in 0 .. 3 /\ r.disable_delay \in 0 .. 3
    BY <1>1, <1>5 DEF Hw, Delays
  <1>8. r.disable_delay <= n.disable_delay
    BY <1>3 DEF Tick
  <1>9. h.disable_delay > 0 => r.disable_delay < h.disable_delay
    BY <1>2, <1>7, <1>8
  <1> QED
    BY <1>3, <1>4, <1>6, <1>9

-----------------------------------------------------------------------------
(* The cycles of the DMA loop.                                             *)

LEMMA ProcessCycleOK ==
    ASSUME NEW h, HwOK(h)
    PROVE  LET q == process_cycle(h)
           IN  /\ HwOK(q)
               /\ q.sprite_dma_transfer = h.sprite_dma_transfer
               /\ q.disable_delay = h.disable_delay
               /\ Inside(h) => Inside(q)
               /\ h.dmc_dma_running => Settled(q)
               /\ h.dmc_dma_running /\ ~h.need_halt => ~q.need_dummy_read
               /\ ~h.abort_dmc_dma => /\ ~q.abort_dmc_dma
                                      /\ h.dmc_dma_running => q.dmc_dma_running
  <1> DEFINE a == [h EXCEPT !.dmc_dma_running = FALSE, !.abort_dmc_dma = FALSE,
                            !.need_dummy_read = FALSE, !.need_halt = FALSE]
             n == [h EXCEPT !.need_halt = FALSE]
             d == [h EXCEPT !.need_dummy_read = FALSE]
  <1>1. h \in Hw /\ FALSE \in Bits
    BY DEF HwOK, Bits
  <1>2. a \in Hw /\ n \in Hw /\ d \in Hw
    BY <1>1 DEF Hw
  <1>3. /\ a.sprite_dma_transfer = h.sprite_dma_transfer /\ a.buffer_empty = h.buffer_empty
        /\ a.bytes_remaining = h.bytes_remaining /\ a.transfer_start_delay = h.transfer_start_delay
        /\ a.disable_delay = h.disable_delay /\ a.need_to_run_flag = h.need_to_run_flag
        /\ a.irq_enabled = h.irq_enabled /\ a.irq = h.irq
        /\ a.dmc_dma_running = FALSE /\ a.abort_dmc_dma = FALSE /\ a.need_halt = FALSE
        /\ a.need_dummy_read = FALSE
    BY <1>1 DEF Hw
  <1>4. /\ n.sprite_dma_transfer = h.sprite_dma_transfer /\ n.dmc_dma_running = h.dmc_dma_running
        /\ n.abort_dmc_dma = h.abort_dmc_dma /\ n.buffer_empty = h.buffer_empty
        /\ n.bytes_remaining = h.bytes_remaining /\ n.transfer_start_delay = h.transfer_start_delay
        /\ n.disable_delay = h.disable_delay /\ n.need_to_run_flag = h.need_to_run_flag
        /\ n.irq_enabled = h.irq_enabled /\ n.irq = h.irq
        /\ n.need_halt = FALSE
    BY <1>1 DEF Hw
  <1>5. /\ d.need_halt = h.need_halt /\ d.sprite_dma_transfer = h.sprite_dma_transfer
        /\ d.dmc_dma_running = h.dmc_dma_running /\ d.abort_dmc_dma = h.abort_dmc_dma
        /\ d.buffer_empty = h.buffer_empty /\ d.bytes_remaining = h.bytes_remaining
        /\ d.transfer_start_delay = h.transfer_start_delay /\ d.disable_delay = h.disable_delay
        /\ d.need_to_run_flag = h.need_to_run_flag /\ d.irq_enabled = h.irq_enabled
        /\ d.irq = h.irq /\ d.need_dummy_read = FALSE
    BY <1>1 DEF Hw
  <1>6. process_cycle(h) = IF h.abort_dmc_dma THEN a ELSE IF h.need_halt THEN n ELSE d
    BY DEF process_cycle
  <1>7. h.dmc_dma_running => h.buffer_empty /\ h.transfer_start_delay = 0
    BY <1>1 DEF HwOK, Fetching, Halting, Hw, Bits, Delays
  <1> HIDE DEF a, n, d
  <1>8. CASE h.abort_dmc_dma
    <2>1. process_cycle(h) = a
      BY <1>6, <1>8
    <2>2. Fetching(a) /\ Halting(a)
      BY <1>1, <1>3, <1>8 DEF HwOK, Fetching, Halting, Hw, Bits, Delays
    <2>3. Inside(a) /\ (h.dmc_dma_running => Settled(a))
      BY <1>3, <1>7 DEF Inside, Settled
    <2> QED
      BY <1>2, <1>3, <1>8, <2>1, <2>2, <2>3 DEF HwOK
  <1>9. CASE ~h.abort_dmc_dma /\ h.need_halt
    <2>1. process_cycle(h) = n
      BY <1>6, <1>9
    <2>2. Fetching(n) /\ Halting(n)
      BY <1>1, <1>4, <1>9 DEF HwOK, Fetching, Halting, Hw, Bits, Delays
    <2>3. Inside(n) /\ (h.dmc_dma_running => Settled(n))
      BY <1>4, <1>7 DEF Inside, Settled
    <2> QED
      BY <1>2, <1>4, <1>9, <2>1, <2>2, <2>3 DEF HwOK
  <1>10. CASE ~h.abort_dmc_dma /\ ~h.need_halt
    <2>1. process_cycle(h) = d
      BY <1>6, <1>10
    <2>2. Fetching(d) /\ Halting(d)
      BY <1>5 DEF HwOK, Fetching, Halting
    <2>3. (Inside(h) => Inside(d)) /\ (h.dmc_dma_running => Settled(d))
      BY <1>5, <1>7, <1>10 DEF Inside, Settled
    <2> QED
      BY <1>2, <1>5, <1>10, <2>1, <2>2, <2>3 DEF HwOK
  <1> QED
    BY <1>8, <1>9, <1>10

(* process_cycle, then the cycle.                                          *)
LEMMA LoopCycle ==
    ASSUME NEW h, HwOK(h), Inside(h)
    PROVE  LET q == apu_clock(process_cycle(h))
           IN  /\ HwOK(q) /\ Inside(q)
               /\ q.sprite_dma_transfer = h.sprite_dma_transfer
               /\ q.disable_delay <= h.disable_delay
               /\ h.dmc_dma_running => Settled(q)
               /\ h.dmc_dma_running /\ ~h.need_halt => ~q.need_dummy_read
               /\ h.disable_delay = 0 /\ ~h.abort_dmc_dma =>
                        /\ ~q.abort_dmc_dma
                        /\ h.dmc_dma_running => q.dmc_dma_running
  <1> DEFINE c == process_cycle(h)
             q == apu_clock(c)
  <1>1. /\ HwOK(c) /\ Inside(c)
        /\ c.sprite_dma_transfer = h.sprite_dma_transfer
        /\ c.disable_delay = h.disable_delay
        /\ h.dmc_dma_running => Settled(c)
        /\ h.dmc_dma_running /\ ~h.need_halt => ~c.need_dummy_read
        /\ ~h.abort_dmc_dma => /\ ~c.abort_dmc_dma
                               /\ h.dmc_dma_running => c.dmc_dma_running
    BY ProcessCycleOK
  <1> HIDE DEF c
  <1>2. HwOK(q) /\ Tick(c, q)
    BY <1>1, ApuClockOK
  <1> HIDE DEF q
  <1>3. /\ Inside(q) /\ q.sprite_dma_transfer = h.sprite_dma_transfer
        /\ q.disable_delay <= h.disable_delay
        /\ h.dmc_dma_running => Settled(q)
        /\ h.dmc_dma_running /\ ~h.need_halt => ~q.need_dummy_read
        /\ h.disable_delay = 0 /\ ~h.abort_dmc_dma =>
                 /\ ~q.abort_dmc_dma
                 /\ h.dmc_dma_running => q.dmc_dma_running
    BY <1>1, <1>2 DEF Tick
  <1> QED
    BY <1>2, <1>3 DEF c, q

(* The halt cycle.                                                         *)
LEMMA HaltCycleOK ==
    ASSUME NEW h, HwOK(h), ~h.abort_dmc_dma
    PROVE  LET q == halt_cycle(h)
           IN  /\ HwOK(q) /\ Inside(q)
               /\ q.sprite_dma_transfer = h.sprite_dma_transfer
               /\ q.disable_delay <= h.disable_delay
               /\ h.dmc_dma_running => Settled(q)
               /\ ~q.abort_dmc_dma
  <1> DEFINE n == [h EXCEPT !.need_halt = FALSE]
             g == apu_clock(n)
             dummy == g.need_dummy_read /\ g.sprite_dma_transfer
             a == [g EXCEPT !.dmc_dma_running = FALSE, !.abort_dmc_dma = FALSE,
                            !.need_dummy_read = dummy]
  <1>1. h \in Hw /\ FALSE \in Bits
    BY DEF HwOK, Bits
  <1>2. n \in Hw
    BY <1>1 DEF Hw
  <1>3. /\ n.sprite_dma_transfer = h.sprite_dma_transfer /\ n.dmc_dma_running = h.dmc_dma_running
        /\ n.abort_dmc_dma = h.abort_dmc_dma /\ n.buffer_empty = h.buffer_empty
        /\ n.bytes_remaining = h.bytes_remaining /\ n.transfer_start_delay = h.transfer_start_delay
        /\ n.disable_delay = h.disable_delay /\ n.need_to_run_flag = h.need_to_run_flag
        /\ n.irq_enabled = h.irq_enabled /\ n.irq = h.irq
        /\ n.need_halt = FALSE
    BY <1>1 DEF Hw
  <1>4. halt_cycle(h) = IF ~g.abort_dmc_dma THEN g ELSE a
    BY DEF halt_cycle
  <1> HIDE DEF n
  <1>5. Fetching(n) /\ Halting(n) /\ Inside(n)
    BY <1>1, <1>3 DEF HwOK, Fetching, Halting, Hw, Bits, Delays, Inside
  <1>6. h.dmc_dma_running => Settled(n)
    BY <1>1, <1>3 DEF HwOK, Fetching, Halting, Hw, Bits, Delays, Settled
  <1>7. HwOK(g) /\ Tick(n, g)
    BY <1>2, <1>5, ApuClockOK DEF HwOK
  <1> HIDE DEF g
  <1>8. /\ g \in Hw /\ Inside(g) /\ g.sprite_dma_transfer = h.sprite_dma_transfer
        /\ g.disable_delay <= h.disable_delay
        /\ h.dmc_dma_running => Settled(g)
    BY <1>3, <1>5, <1>7, <1>6 DEF Tick, HwOK
  <1>9. CASE ~g.abort_dmc_dma
    BY <1>4, <1>7, <1>8, <1>9
  <1>10. CASE g.abort_dmc_dma
    <2>1. dummy \in Bits
      BY DEF Bits
    <2>2. a \in Hw
      <3> HIDE DEF dummy
      <3> QED
        BY <1>1, <1>8, <2>1 DEF Hw
    <2>3. /\ a.need_halt = g.need_halt /\ a.sprite_dma_transfer = g.sprite_dma_transfer
          /\ a.buffer_empty = g.buffer_empty /\ a.bytes_remaining = g.bytes_remaining
          /\ a.transfer_start_delay = g.transfer_start_delay /\ a.disable_delay = g.disable_delay
          /\ a.need_to_run_flag = g.need_to_run_flag /\ a.irq_enabled = g.irq_enabled
          /\ a.irq = g.irq
          /\ a.dmc_dma_running = FALSE /\ a.abort_dmc_dma = FALSE
      <3> HIDE DEF dummy
      <3> QED
        BY <1>8 DEF Hw
    <2>4. halt_cycle(h) = a
      BY <1>4, <1>10
    <2> HIDE DEF a
    <2>5. Fetching(a) /\ Halting(a) /\ Inside(a)
      BY <1>7, <1>8, <1>10, <2>3 DEF HwOK, Fetching, Halting, Hw, Bits, Delays, Inside
    <2>6. h.dmc_dma_running => Settled(a)
      BY <1>8, <2>3 DEF Settled
    <2> QED
      BY <1>8, <2>2, <2>3, <2>4, <2>5, <2>6 DEF HwOK
  <1> QED
    BY <1>9, <1>10

(* A new sample.                                                           *)
LEMMA Initialised ==
    ASSUME NEW h \in Hw
    PROVE  LET q == init_sample(h)
           IN  /\ q \in Hw
               /\ q.need_halt = h.need_halt /\ q.sprite_dma_transfer = h.sprite_dma_transfer
               /\ q.dmc_dma_running = h.dmc_dma_running /\ q.abort_dmc_dma = h.abort_dmc_dma
               /\ q.buffer_empty = h.buffer_empty /\ q.transfer_start_delay = h.transfer_start_delay
               /\ q.disable_delay = h.disable_delay /\ q.irq_enabled = h.irq_enabled
               /\ q.irq = h.irq
               /\ q.bytes_remaining = h.sample_length /\ q.bytes_remaining > 0
               /\ q.need_to_run_flag
  <1> DEFINE flag == h.need_to_run_flag \/ h.sample_length > 0
             q == [h EXCEPT !.bytes_remaining = h.sample_length, !.need_to_run_flag = flag]
  <1>1. h.sample_length \in Nat /\ h.sample_length > 0
    <2>1. h.sample_length \in SampleLengths
      BY DEF Hw
    <2>2. h.sample_length \in Nat \ {0}
      BY <2>1, SampleLengthsAssumption, Zenon
    <2> QED
      BY <2>2
  <1>2. flag \in Bits /\ flag
    BY <1>1 DEF Bits
  <1>3. init_sample(h) = q
    BY DEF init_sample
  <1> HIDE DEF flag
  <1>4. q \in Hw
    BY <1>1, <1>2 DEF Hw
  <1>5. /\ q.need_halt = h.need_halt /\ q.sprite_dma_transfer = h.sprite_dma_transfer
        /\ q.dmc_dma_running = h.dmc_dma_running /\ q.abort_dmc_dma = h.abort_dmc_dma
        /\ q.buffer_empty = h.buffer_empty /\ q.transfer_start_delay = h.transfer_start_delay
        /\ q.disable_delay = h.disable_delay /\ q.irq_enabled = h.irq_enabled
        /\ q.irq = h.irq
        /\ q.bytes_remaining = h.sample_length /\ q.need_to_run_flag = flag
    BY DEF Hw
  <1> HIDE DEF q
  <1> QED
    BY <1>1, <1>2, <1>3, <1>4, <1>5

(* The byte a fetch brings.                                                *)
LEMMA ReadBuffer ==
    ASSUME NEW h, HwOK(h), Settled(h)
    PROVE  LET q == set_dmc_read_buffer(h)
           IN  /\ q \in Hw
               /\ q.need_halt = h.need_halt /\ q.disable_delay = h.disable_delay
               /\ q.sprite_dma_transfer = h.sprite_dma_transfer
               /\ q.transfer_start_delay = h.transfer_start_delay
               /\ h.disable_delay > 0 \/ q.bytes_remaining > 0 => q.need_to_run_flag
               /\ q.irq => q.irq_enabled /\ q.bytes_remaining = 0
               /\ q.buffer_empty => q.bytes_remaining = 0
  <1> DEFINE g == [h EXCEPT !.buffer_empty = FALSE, !.bytes_remaining = h.bytes_remaining - 1]
             i == [g EXCEPT !.irq = TRUE]
  <1>1. h \in Hw /\ FALSE \in Bits /\ TRUE \in Bits
    BY DEF HwOK, Bits
  <1>2. CASE h.bytes_remaining = 0
    <2>1. set_dmc_read_buffer(h) = h
      BY <1>2 DEF set_dmc_read_buffer
    <2> QED
      BY <1>1, <1>2, <2>1 DEF HwOK, Fetching
  <1>3. CASE h.bytes_remaining # 0
    <2>1. /\ h.bytes_remaining \in Nat /\ h.bytes_remaining > 0
          /\ h.bytes_remaining - 1 \in Nat
      BY <1>1, <1>3 DEF Hw
    <2>2. g \in Hw
      BY <1>1, <2>1 DEF Hw
    <2>3. /\ g.need_halt = h.need_halt /\ g.sprite_dma_transfer = h.sprite_dma_transfer
          /\ g.dmc_dma_running = h.dmc_dma_running /\ g.abort_dmc_dma = h.abort_dmc_dma
          /\ g.transfer_start_delay = h.transfer_start_delay /\ g.disable_delay = h.disable_delay
          /\ g.need_to_run_flag = h.need_to_run_flag /\ g.irq_enabled = h.irq_enabled
          /\ g.irq = h.irq
          /\ g.buffer_empty = FALSE
      BY <1>1 DEF Hw
    <2>4. set_dmc_read_buffer(h) = IF g.bytes_remaining > 0 THEN g
                                   ELSE IF g.loop_flag THEN init_sample(g)
                                   ELSE IF g.irq_enabled THEN i ELSE g
      BY <1>3 DEF set_dmc_read_buffer
    <2> HIDE DEF g
    <2>5. h.need_to_run_flag /\ ~h.irq
      BY <2>1 DEF HwOK, Fetching
    <2>6. g.bytes_remaining \in Nat
      BY <2>2 DEF Hw
    <2>7. CASE g.bytes_remaining > 0
      <3>1. set_dmc_read_buffer(h) = g
        BY <2>4, <2>7
      <3> QED
        BY <2>2, <2>3, <2>5, <3>1
    <2>8. CASE ~(g.bytes_remaining > 0) /\ g.loop_flag
      <3> DEFINE q == init_sample(g)
      <3>1. set_dmc_read_buffer(h) = q
        BY <2>4, <2>8
      <3>2. q \in Hw
        BY <2>2, Initialised
      <3>3. /\ q.need_halt = g.need_halt /\ q.sprite_dma_transfer = g.sprite_dma_transfer
            /\ q.dmc_dma_running = g.dmc_dma_running /\ q.abort_dmc_dma = g.abort_dmc_dma
            /\ q.buffer_empty = g.buffer_empty /\ q.transfer_start_delay = g.transfer_start_delay
            /\ q.disable_delay = g.disable_delay /\ q.irq_enabled = g.irq_enabled
            /\ q.irq = g.irq
            /\ q.need_to_run_flag
        BY <2>2, Initialised
      <3> HIDE DEF q
      <3> QED
        BY <2>3, <2>5, <3>1, <3>2, <3>3
    <2>9. CASE ~(g.bytes_remaining > 0) /\ ~g.loop_flag /\ g.irq_enabled
      <3>1. set_dmc_read_buffer(h) = i
        BY <2>4, <2>9
      <3>2. i \in Hw
        BY <1>1, <2>2 DEF Hw
      <3>3. /\ i.need_halt = g.need_halt /\ i.sprite_dma_transfer = g.sprite_dma_transfer
            /\ i.dmc_dma_running = g.dmc_dma_running /\ i.abort_dmc_dma = g.abort_dmc_dma
            /\ i.buffer_empty = g.buffer_empty /\ i.bytes_remaining = g.bytes_remaining
            /\ i.transfer_start_delay = g.transfer_start_delay /\ i.disable_delay = g.disable_delay
            /\ i.need_to_run_flag = g.need_to_run_flag /\ i.irq_enabled = g.irq_enabled
        BY <2>2 DEF Hw
      <3>4. g.bytes_remaining = 0
        BY <2>6, <2>9
      <3> HIDE DEF i
      <3> QED
        BY <2>3, <2>5, <2>9, <3>1, <3>2, <3>3, <3>4
    <2>10. CASE ~(g.bytes_remaining > 0) /\ ~g.loop_flag /\ ~g.irq_enabled
      <3>1. set_dmc_read_buffer(h) = g
        BY <2>4, <2>10
      <3> QED
        BY <2>2, <2>3, <2>5, <3>1
    <2> QED
      BY <2>7, <2>8, <2>9, <2>10
  <1> QED
    BY <1>2, <1>3

(* A fetch ends, whether or not it was told to abort.                      *)
LEMMA FetchEnds ==
    ASSUME NEW h, HwOK(h), Settled(h)
    PROVE  LET q == [set_dmc_read_buffer(h) EXCEPT !.dmc_dma_running = FALSE,
                                                   !.abort_dmc_dma = FALSE]
           IN  /\ HwOK(q) /\ Inside(q)
               /\ q.sprite_dma_transfer = h.sprite_dma_transfer
               /\ q.disable_delay = h.disable_delay
               /\ ~q.dmc_dma_running /\ ~q.abort_dmc_dma
  <1> DEFINE b == set_dmc_read_buffer(h)
             q == [b EXCEPT !.dmc_dma_running = FALSE, !.abort_dmc_dma = FALSE]
  <1>1. b \in Hw
    BY ReadBuffer
  <1>2. /\ b.need_halt = h.need_halt /\ b.disable_delay = h.disable_delay
        /\ b.sprite_dma_transfer = h.sprite_dma_transfer
        /\ b.transfer_start_delay = h.transfer_start_delay
        /\ h.disable_delay > 0 \/ b.bytes_remaining > 0 => b.need_to_run_flag
        /\ b.irq => b.irq_enabled /\ b.bytes_remaining = 0
        /\ b.buffer_empty => b.bytes_remaining = 0
    BY ReadBuffer
  <1> HIDE DEF b
  <1>3. FALSE \in Bits
    BY DEF Bits
  <1>4. q \in Hw
    BY <1>1, <1>3 DEF Hw
  <1>5. /\ q.need_halt = b.need_halt /\ q.sprite_dma_transfer = b.sprite_dma_transfer
        /\ q.buffer_empty = b.buffer_empty /\ q.bytes_remaining = b.bytes_remaining
        /\ q.transfer_start_delay = b.transfer_start_delay /\ q.disable_delay = b.disable_delay
        /\ q.need_to_run_flag = b.need_to_run_flag /\ q.irq_enabled = b.irq_enabled
        /\ q.irq = b.irq
        /\ q.dmc_dma_running = FALSE /\ q.abort_dmc_dma = FALSE
    BY <1>1 DEF Hw
  <1> HIDE DEF q
  <1>6. ~h.need_halt /\ h.transfer_start_delay = 0
    BY DEF Settled
  <1>7. Fetching(q)
    BY <1>1, <1>2, <1>5, <1>6 DEF Fetching, Hw
  <1>8. Halting(q) /\ Inside(q)
    BY <1>2, <1>5, <1>6 DEF Halting, Inside
  <1> QED
    BY <1>2, <1>4, <1>5, <1>7, <1>8 DEF HwOK, b, q

-----------------------------------------------------------------------------
(* The registers, written outside the DMA loop.                            *)

LEMMA WriteStatusOK ==
    ASSUME NEW h, HwOK(h), Outside(h), NEW enabled, NEW parity
    PROVE  LET q == write_status(h, enabled, parity)
           IN  /\ HwOK(q) /\ Outside(q)
               /\ q.sprite_dma_transfer = h.sprite_dma_transfer
  <1> DEFINE f == [h EXCEPT !.irq = FALSE]
             i == init_sample(f)
             delay == IF parity THEN 3 ELSE 2
             off == IF f.disable_delay = 0 THEN delay ELSE f.disable_delay
             x == [f EXCEPT !.disable_delay = off, !.need_to_run_flag = TRUE]
             s == [i EXCEPT !.transfer_start_delay = delay, !.need_to_run_flag = TRUE]
  <1>1. h \in Hw /\ FALSE \in Bits /\ TRUE \in Bits
    BY DEF HwOK, Bits
  <1>2. f \in Hw
    BY <1>1 DEF Hw
  <1>3. /\ f.need_halt = h.need_halt /\ f.sprite_dma_transfer = h.sprite_dma_transfer
        /\ f.dmc_dma_running = h.dmc_dma_running /\ f.abort_dmc_dma = h.abort_dmc_dma
        /\ f.buffer_empty = h.buffer_empty /\ f.bytes_remaining = h.bytes_remaining
        /\ f.transfer_start_delay = h.transfer_start_delay /\ f.disable_delay = h.disable_delay
        /\ f.need_to_run_flag = h.need_to_run_flag /\ f.irq_enabled = h.irq_enabled
        /\ f.irq = FALSE
    BY <1>1 DEF Hw
  <1>4. write_status(h, enabled, parity) =
            IF ~enabled THEN x ELSE IF f.bytes_remaining = 0 THEN s ELSE f
    BY DEF write_status, set_enabled
  <1> HIDE DEF f
  <1>5. delay \in Delays /\ delay > 0
    BY DEF Delays
  <1> HIDE DEF delay
  <1>6. CASE ~enabled
    <2>1. off \in Delays
      BY <1>2, <1>5 DEF Hw
    <2> HIDE DEF off
    <2>2. x \in Hw
      BY <1>1, <1>2, <2>1 DEF Hw
    <2>3. /\ x.need_halt = f.need_halt /\ x.sprite_dma_transfer = f.sprite_dma_transfer
          /\ x.dmc_dma_running = f.dmc_dma_running /\ x.abort_dmc_dma = f.abort_dmc_dma
          /\ x.buffer_empty = f.buffer_empty /\ x.bytes_remaining = f.bytes_remaining
          /\ x.transfer_start_delay = f.transfer_start_delay
          /\ x.irq_enabled = f.irq_enabled /\ x.irq = f.irq
          /\ x.need_to_run_flag = TRUE
      BY <1>2 DEF Hw
    <2>4. write_status(h, enabled, parity) = x
      BY <1>4, <1>6
    <2> HIDE DEF x
    <2>5. Fetching(x) /\ Halting(x) /\ Outside(x)
      BY <1>3, <2>3 DEF HwOK, Fetching, Halting, Outside
    <2> QED
      BY <1>3, <2>2, <2>3, <2>4, <2>5 DEF HwOK
  <1>7. CASE enabled /\ f.bytes_remaining = 0
    <2>1. i \in Hw
      BY <1>2, Initialised
    <2>2. /\ i.need_halt = f.need_halt /\ i.sprite_dma_transfer = f.sprite_dma_transfer
          /\ i.dmc_dma_running = f.dmc_dma_running /\ i.abort_dmc_dma = f.abort_dmc_dma
          /\ i.irq_enabled = f.irq_enabled /\ i.irq = f.irq
      BY <1>2, Initialised
    <2> HIDE DEF i
    <2>3. s \in Hw
      BY <1>1, <1>5, <2>1 DEF Hw
    <2>4. /\ s.need_halt = i.need_halt /\ s.sprite_dma_transfer = i.sprite_dma_transfer
          /\ s.dmc_dma_running = i.dmc_dma_running /\ s.abort_dmc_dma = i.abort_dmc_dma
          /\ s.irq_enabled = i.irq_enabled /\ s.irq = i.irq
          /\ s.transfer_start_delay = delay /\ s.need_to_run_flag = TRUE
      BY <2>1 DEF Hw
    <2>5. write_status(h, enabled, parity) = s
      BY <1>4, <1>7
    <2> HIDE DEF s
    <2>6. ~h.dmc_dma_running /\ ~h.abort_dmc_dma
      BY <1>3, <1>7 DEF HwOK, Fetching, Outside
    <2>7. Fetching(s) /\ Halting(s) /\ Outside(s)
      BY <1>3, <1>5, <2>2, <2>4, <2>6 DEF HwOK, Fetching, Halting, Outside
    <2> QED
      BY <1>3, <2>2, <2>3, <2>4, <2>5, <2>7 DEF HwOK
  <1>8. CASE enabled /\ f.bytes_remaining # 0
    <2>1. write_status(h, enabled, parity) = f
      BY <1>4, <1>8
    <2>2. Fetching(f) /\ Halting(f) /\ Outside(f)
      BY <1>3 DEF HwOK, Fetching, Halting, Outside
    <2> QED
      BY <1>2, <1>3, <2>1, <2>2 DEF HwOK
  <1> QED
    BY <1>6, <1>7, <1>8

LEMMA WriteControlOK ==
    ASSUME NEW h, HwOK(h), Outside(h), NEW e \in BOOLEAN, NEW l \in BOOLEAN,
           NEW p \in OutputPeriods
    PROVE  LET q == write_control(h, e, l, p)
           IN  /\ HwOK(q) /\ Outside(q)
               /\ q.sprite_dma_transfer = h.sprite_dma_transfer
  <1> DEFINE pending == h.irq /\ e
             q == [h EXCEPT !.irq_enabled = e, !.loop_flag = l, !.period = p, !.irq = pending]
  <1>1. h \in Hw /\ e \in Bits /\ l \in Bits /\ pending \in Bits
    BY DEF HwOK, Bits
  <1>2. write_control(h, e, l, p) = q
    BY DEF write_control
  <1> HIDE DEF pending
  <1>3. q \in Hw
    BY <1>1 DEF Hw
  <1>4. /\ q.need_halt = h.need_halt /\ q.sprite_dma_transfer = h.sprite_dma_transfer
        /\ q.dmc_dma_running = h.dmc_dma_running /\ q.abort_dmc_dma = h.abort_dmc_dma
        /\ q.buffer_empty = h.buffer_empty /\ q.bytes_remaining = h.bytes_remaining
        /\ q.transfer_start_delay = h.transfer_start_delay /\ q.disable_delay = h.disable_delay
        /\ q.need_to_run_flag = h.need_to_run_flag
        /\ q.irq_enabled = e /\ q.irq = pending
    BY <1>1 DEF Hw
  <1> HIDE DEF q
  <1>5. Fetching(q) /\ Halting(q) /\ Outside(q)
    BY <1>4 DEF HwOK, Fetching, Halting, Outside, pending
  <1> QED
    BY <1>2, <1>3, <1>4, <1>5 DEF HwOK

LEMMA SampleLengthOK ==
    ASSUME NEW h, HwOK(h), Outside(h), NEW n \in SampleLengths
    PROVE  LET q == [h EXCEPT !.sample_length = n]
           IN  /\ HwOK(q) /\ Outside(q)
               /\ q.sprite_dma_transfer = h.sprite_dma_transfer
  <1> DEFINE q == [h EXCEPT !.sample_length = n]
  <1>1. h \in Hw
    BY DEF HwOK
  <1>2. q \in Hw
    BY <1>1 DEF Hw
  <1>3. /\ q.need_halt = h.need_halt /\ q.sprite_dma_transfer = h.sprite_dma_transfer
        /\ q.dmc_dma_running = h.dmc_dma_running /\ q.abort_dmc_dma = h.abort_dmc_dma
        /\ q.buffer_empty = h.buffer_empty /\ q.bytes_remaining = h.bytes_remaining
        /\ q.transfer_start_delay = h.transfer_start_delay /\ q.disable_delay = h.disable_delay
        /\ q.need_to_run_flag = h.need_to_run_flag /\ q.irq_enabled = h.irq_enabled
        /\ q.irq = h.irq
    BY <1>1 DEF Hw
  <1> HIDE DEF q
  <1>4. Fetching(q) /\ Halting(q) /\ Outside(q)
    BY <1>3 DEF HwOK, Fetching, Halting, Outside
  <1> QED
    BY <1>2, <1>3, <1>4 DEF HwOK, q

LEMMA RunDmaOK ==
    ASSUME NEW h, HwOK(h), Outside(h)
    PROVE  LET q == run_dma_transfer(h)
           IN  /\ HwOK(q) /\ Outside(q)
               /\ q.sprite_dma_transfer /\ q.need_halt
               /\ q.disable_delay = h.disable_delay
  <1> DEFINE q == [h EXCEPT !.sprite_dma_transfer = TRUE, !.need_halt = TRUE]
  <1>1. h \in Hw /\ TRUE \in Bits
    BY DEF HwOK, Bits
  <1>2. q \in Hw
    BY <1>1 DEF Hw
  <1>3. /\ q.dmc_dma_running = h.dmc_dma_running /\ q.abort_dmc_dma = h.abort_dmc_dma
        /\ q.buffer_empty = h.buffer_empty /\ q.bytes_remaining = h.bytes_remaining
        /\ q.transfer_start_delay = h.transfer_start_delay /\ q.disable_delay = h.disable_delay
        /\ q.need_to_run_flag = h.need_to_run_flag /\ q.irq_enabled = h.irq_enabled
        /\ q.irq = h.irq
        /\ q.need_halt = TRUE /\ q.sprite_dma_transfer = TRUE
    BY <1>1 DEF Hw
  <1>4. run_dma_transfer(h) = q
    BY DEF run_dma_transfer
  <1> HIDE DEF q
  <1>5. Fetching(q) /\ Halting(q) /\ Outside(q)
    BY <1>3 DEF HwOK, Fetching, Halting, Outside
  <1> QED
    BY <1>2, <1>3, <1>4, <1>5 DEF HwOK

(* The last sprite byte ends the transfer; a halt still to come is the     *)
(* sample fetch's.                                                         *)
LEMMA SpriteStepOK ==
    ASSUME NEW h, HwOK(h), Inside(h), NEW more \in BOOLEAN
    PROVE  LET q == [h EXCEPT !.sprite_dma_transfer = more]
           IN  /\ HwOK(q) /\ Inside(q)
               /\ q.sprite_dma_transfer = more
               /\ q.disable_delay = h.disable_delay
               /\ q.abort_dmc_dma = h.abort_dmc_dma
  <1> DEFINE q == [h EXCEPT !.sprite_dma_transfer = more]
  <1>1. h \in Hw /\ more \in Bits
    BY DEF HwOK, Bits
  <1>2. q \in Hw
    BY <1>1 DEF Hw
  <1>3. /\ q.need_halt = h.need_halt
        /\ q.dmc_dma_running = h.dmc_dma_running /\ q.abort_dmc_dma = h.abort_dmc_dma
        /\ q.buffer_empty = h.buffer_empty /\ q.bytes_remaining = h.bytes_remaining
        /\ q.transfer_start_delay = h.transfer_start_delay /\ q.disable_delay = h.disable_delay
        /\ q.need_to_run_flag = h.need_to_run_flag /\ q.irq_enabled = h.irq_enabled
        /\ q.irq = h.irq
        /\ q.sprite_dma_transfer = more
    BY <1>1 DEF Hw
  <1> HIDE DEF q
  <1>4. Fetching(q) /\ Halting(q) /\ Inside(q)
    BY <1>3 DEF HwOK, Fetching, Halting, Inside
  <1> QED
    BY <1>2, <1>3, <1>4 DEF HwOK, q

-----------------------------------------------------------------------------
(* The sprite copy.                                                        *)

LEMMA Parity ==
    ASSUME NEW n \in Nat
    PROVE  /\ (2 * n) % 2 = 0 /\ (2 * n + 1) % 2 = 1
           /\ (2 * n + 1) \div 2 = n
  OBVIOUS

(* A step that transfers no sprite byte.                                   *)
LEMMA CopyKept ==
    ASSUME Copying, ~Between, UNCHANGED <<oam, sprite_counter>>,
           hw'.sprite_dma_transfer = hw.sprite_dma_transfer,
           dma' = "none" => oam = << >>
    PROVE  Copying'
  <1>1. ~Between'
    BY DEF Between
  <1> QED
    BY <1>1 DEF Copying, Between

LEMMA NotBetween ==
    ASSUME Copying, dma # "loop" \/ ~odd
    PROVE  ~Between
  BY DEF Copying

(* The end of a cycle of process_pending_dma.                              *)
LEMMA LoopEnds ==
    ASSUME HwOK(hw'), Inside(hw'), EnterOrLeaveLoop
    PROVE  /\ Looping' /\ SpriteWaits'
           /\ dma' \in {"loop", "resume"}
           /\ hw'.sprite_dma_transfer => dma' = "loop"
  <1>1. CASE hw'.dmc_dma_running \/ hw'.sprite_dma_transfer
    <2>1. dma' = "loop"
      BY <1>1 DEF EnterOrLeaveLoop
    <2> QED
      BY <1>1, <2>1 DEF Looping, SpriteWaits
  <1>2. CASE ~(hw'.dmc_dma_running \/ hw'.sprite_dma_transfer)
    <2>1. dma' = "resume"
      BY <1>2 DEF EnterOrLeaveLoop
    <2>2. ~hw'.abort_dmc_dma
      BY <1>2 DEF HwOK, Halting
    <2>3. Outside(hw')
      BY <1>2, <2>2 DEF Outside
    <2> QED
      BY <1>2, <2>1, <2>3 DEF Looping, SpriteWaits
  <1> QED
    BY <1>1, <1>2

(* With the bus left alone.                                                *)
LEMMA OffKept ==
    ASSUME hw \in Hw, hw' \in Hw, bus \in Bus, SwitchedOff,
           hw'.disable_delay <= hw.disable_delay, UNCHANGED bus
    PROVE  SwitchedOff'
  <1>1. hw.disable_delay \in 0 .. 3 /\ hw'.disable_delay \in 0 .. 3 /\ bus.reads \in 0 .. 4
    BY DEF Hw, Delays, Bus
  <1> QED
    BY <1>1 DEF SwitchedOff

-----------------------------------------------------------------------------
(* The initial state and the steps.                                        *)

LEMMA InitInv == Init => Inv
  <1> SUFFICES ASSUME Init PROVE Inv
    OBVIOUS
  <1>1. PICK p \in OutputPeriods : \E u \in 1 .. p : hw = AfterReset(u, p)
    BY DEF Init
  <1>2. p \in Nat
    BY OutputPeriodsAssumption
  <1>3. PICK u \in 1 .. p : hw = AfterReset(u, p)
    BY <1>1
  <1>4. /\ u \in Positive /\ FALSE \in Bits /\ TRUE \in Bits /\ 0 \in Delays
        /\ 0 \in Nat /\ 1 \in SampleLengths
    BY <1>2, SampleLengthsAssumption DEF Positive, Bits, Delays
  <1>5. hw \in Hw
    BY <1>3, <1>4 DEF AfterReset, Hw
  <1>6. /\ ~hw.need_halt /\ ~hw.sprite_dma_transfer /\ ~hw.dmc_dma_running
        /\ ~hw.abort_dmc_dma /\ hw.bytes_remaining = 0
        /\ hw.transfer_start_delay = 0 /\ hw.disable_delay = 0 /\ ~hw.irq
    BY <1>3 DEF AfterReset
  <1>7. HwOK(hw)
    BY <1>5, <1>6 DEF HwOK, Fetching, Halting
  <1>8. Types
    <2>1. bus \in Bus
      BY DEF Init, Idle, Access, Bus, Targets
    <2>2. 0 \in -1 .. SpriteBytes - 1
      BY SpriteBytesAssumption
    <2>3. read_value \in -1 .. SpriteBytes - 1
      BY <2>2, Zenon DEF Init
    <2>4. odd \in BOOLEAN /\ latch \in BOOLEAN /\ frame_ended \in BOOLEAN
      BY Zenon DEF Init
    <2>5. sprite_counter \in Nat /\ stolen \in Nat /\ fetched \in Nat
      BY DEF Init
    <2>6. dma \in {"none", "loop", "resume"}
      BY DEF Init
    <2> QED
      BY <2>1, <2>3, <2>4, <2>5, <2>6, Zenon DEF Types
  <1>9. SpriteWaits /\ Looping
    BY <1>6 DEF Init, SpriteWaits, Looping, Outside
  <1>10. SwitchedOff
    BY <1>6 DEF Init, SwitchedOff, Idle, Access
  <1>11. Copying
    BY <1>6, SpriteBytesAssumption DEF Init, Copying, Between
  <1> QED
    BY <1>7, <1>8, <1>9, <1>10, <1>11 DEF Inv

LEMMA ExecInv == Inv /\ exec => Inv'
  <1> SUFFICES ASSUME Inv, exec PROVE Inv'
    OBVIOUS
  <1>1. /\ dma = "none" /\ dma' = dma /\ hw' = hw /\ oam' = oam
        /\ sprite_counter' = sprite_counter
    BY DEF exec, BetweenInstructions
  <1>2. bus' \in Bus /\ bus'.reads >= 2 /\ (bus'.target = "4014" => bus'.reads >= 3)
    BY DEF exec, Instructions, Access, Bus, Targets
  <1>3. HwOK(hw')
    BY <1>1 DEF Inv
  <1>4. Types'
    BY <1>2 DEF Inv, Types, exec
  <1>5. bus'.reads \in 0 .. 4 /\ hw.disable_delay \in 0 .. 3
    BY <1>2 DEF Bus, Inv, HwOK, Hw, Delays
  <1>6. ~WriteNext'
    BY <1>2, <1>5 DEF WriteNext
  <1>7. SpriteWaits'
    BY <1>1, <1>6 DEF Inv, SpriteWaits
  <1>8. SwitchedOff'
    BY <1>1, <1>2, <1>5 DEF SwitchedOff
  <1>9. Looping'
    BY <1>1 DEF Inv, Looping
  <1>10. Copying'
    BY <1>1, NotBetween, CopyKept DEF Inv, Copying
  <1> QED
    BY <1>3, <1>4, <1>7, <1>8, <1>9, <1>10 DEF Inv

LEMMA EndFrameInv == Inv /\ end_frame => Inv'
  <1> SUFFICES ASSUME Inv, end_frame PROVE Inv'
    OBVIOUS
  <1>1. /\ dma = "none" /\ dma' = dma /\ bus' = bus /\ oam' = oam
        /\ sprite_counter' = sprite_counter
        /\ hw' = process_clock(hw)
    BY DEF end_frame, BetweenInstructions
  <1>2. HwOK(hw')
    BY <1>1, ProcessClockOK DEF Inv
  <1>3. Tick(hw, hw')
    BY <1>1, ProcessClockOK DEF Inv
  <1>4. hw \in Hw /\ hw' \in Hw /\ bus \in Bus
    BY <1>2 DEF Inv, HwOK, Types
  <1>5. hw.disable_delay \in 0 .. 3 /\ hw'.disable_delay \in 0 .. 3
    BY <1>4 DEF Hw, Delays
  <1>6. Types'
    BY DEF Inv, Types, end_frame
  <1>7. WriteNext' = WriteNext
    BY <1>1 DEF WriteNext
  <1>8. SpriteWaits'
    <2>1. SUFFICES ASSUME hw'.sprite_dma_transfer
                   PROVE  /\ hw'.need_halt /\ hw'.disable_delay = 0
                          /\ WriteNext' => bus'.target = "4014"
      BY DEF SpriteWaits
    <2>2. /\ hw.need_halt /\ hw.disable_delay = 0
          /\ WriteNext => bus.target = "4014"
      BY <1>1, <1>3, <2>1 DEF Tick, Inv, SpriteWaits
    <2>3. hw'.need_halt /\ hw'.disable_delay = 0
      BY <1>3, <1>5, <2>2 DEF Tick
    <2> QED
      BY <1>1, <1>7, <2>2, <2>3
  <1>9. SwitchedOff'
    BY <1>1, <1>3, <1>4, OffKept DEF Inv, Tick
  <1>10. Looping'
    BY <1>1, <1>3 DEF Inv, Looping, Tick
  <1>11. Copying'
    BY <1>1, <1>3, NotBetween, CopyKept DEF Inv, Copying, Tick
  <1> QED
    BY <1>2, <1>6, <1>8, <1>9, <1>10, <1>11 DEF Inv

(* A read cycle brings the write to $4014 nearer, and the end of a channel *)
(* that is being switched off as well.                                     *)
LEMMA MemoryReadInv == Inv /\ memory_read => Inv'
  <1> SUFFICES ASSUME Inv, memory_read PROVE Inv'
    OBVIOUS
  <1>1. /\ dma' = "none" /\ dma # "loop" /\ oam' = << >> /\ sprite_counter' = 0
        /\ read_value' = 0 /\ hw' = apu_clock(hw)
    BY DEF memory_read, DmaLocalsCleared
  <1>2. HwOK(hw')
    BY <1>1, ApuClockOK DEF Inv
  <1>3. Tick(hw, hw') /\ (hw.disable_delay > 0 => hw'.disable_delay < hw.disable_delay)
    BY <1>1, ApuClockOK DEF Inv
  <1>4. ~hw'.sprite_dma_transfer
    <2>1. ~hw.sprite_dma_transfer
      BY DEF Inv, SpriteWaits, Looping, memory_read
    <2> QED
      BY <1>3, <2>1 DEF Tick
  <1>5. /\ bus.reads \in 0 .. 4 /\ bus.writes \in 0 .. 3 /\ bus.tail \in 0 .. 2
        /\ bus.target \in Targets
    BY DEF Inv, Types, Bus
  <1>6. /\ bus' \in Bus /\ bus'.target = bus.target
        /\ bus'.reads = IF bus.reads > 0 THEN bus.reads - 1 ELSE bus.reads
    <2>1. CASE bus.reads > 0
      BY <1>5, <2>1 DEF Inv, Types, memory_read, AfterRead, Bus
    <2>2. CASE ~(bus.reads > 0)
      <3>1. bus.tail > 0 /\ bus' = [bus EXCEPT !.tail = @ - 1]
        BY <1>5, <2>2 DEF memory_read, AfterRead, ReadNext
      <3> QED
        BY <1>5, <2>2, <3>1 DEF Inv, Types, Bus
    <2> QED
      BY <2>1, <2>2
  <1>7. Types'
    <2>1. /\ odd' \in BOOLEAN /\ latch' \in BOOLEAN /\ frame_ended' \in BOOLEAN
          /\ stolen' \in Nat /\ fetched' \in Nat
      BY DEF Inv, Types, memory_read, DmaLocalsCleared
    <2>2. 0 \in -1 .. SpriteBytes - 1
      BY SpriteBytesAssumption
    <2> QED
      BY <1>1, <1>6, <2>1, <2>2 DEF Types
  <1>8. SpriteWaits'
    BY <1>4 DEF SpriteWaits
  <1>9. SwitchedOff'
    <2>1. hw.disable_delay \in 0 .. 3 /\ hw'.disable_delay \in 0 .. 3
      BY <1>2 DEF Inv, HwOK, Hw, Delays
    <2>2. hw'.disable_delay <= hw.disable_delay
      BY <1>3 DEF Tick
    <2>3. SUFFICES ASSUME bus.target = "4014"
                   PROVE  hw'.disable_delay <= bus'.reads
      BY <1>6 DEF SwitchedOff
    <2>4. hw.disable_delay <= bus.reads
      BY <2>3 DEF Inv, SwitchedOff
    <2> QED
      BY <1>3, <1>5, <1>6, <2>1, <2>2, <2>4
  <1>10. Looping'
    BY <1>1, <1>3 DEF Inv, Looping, Tick
  <1>11. Copying'
    BY <1>1, <1>4, SpriteBytesAssumption DEF Copying, Between
  <1> QED
    BY <1>2, <1>7, <1>8, <1>9, <1>10, <1>11 DEF Inv

LEMMA HaltInv == Inv /\ process_pending_dma => Inv'
  <1> SUFFICES ASSUME Inv, process_pending_dma PROVE Inv'
    OBVIOUS
  <1>1. /\ dma = "none" /\ bus' = bus /\ oam' = oam /\ sprite_counter' = sprite_counter
        /\ hw' = halt_cycle(hw) /\ EnterOrLeaveLoop
    BY DEF process_pending_dma
  <1>2. ~hw.abort_dmc_dma
    BY <1>1 DEF Inv, Looping, Outside
  <1>3. /\ HwOK(hw') /\ Inside(hw')
        /\ hw'.sprite_dma_transfer = hw.sprite_dma_transfer
        /\ hw'.disable_delay <= hw.disable_delay
    BY <1>1, <1>2, HaltCycleOK DEF Inv
  <1>4. /\ Looping' /\ SpriteWaits' /\ dma' \in {"loop", "resume"}
    BY <1>1, <1>3, LoopEnds
  <1>5. Types'
    BY <1>4 DEF Inv, Types, process_pending_dma
  <1>6. SwitchedOff'
    BY <1>1, <1>3, OffKept DEF Inv, HwOK, Types
  <1>7. Copying'
    BY <1>1, <1>3, <1>4, NotBetween, CopyKept DEF Inv, Copying
  <1> QED
    BY <1>3, <1>4, <1>5, <1>6, <1>7 DEF Inv

(* What a cycle of the loop leaves to show of its transfer.                *)
LEMMA DmaCycleInv ==
    ASSUME Inv, DmaCycle, HwOK(hw'), Inside(hw'),
           hw'.disable_delay <= hw.disable_delay,
           sprite_counter' \in Nat, read_value' \in -1 .. SpriteBytes - 1,
           fetched' \in Nat, Copying'
    PROVE  Inv'
  <1>1. EnterOrLeaveLoop /\ UNCHANGED bus
    BY DEF DmaCycle
  <1>2. Looping' /\ SpriteWaits' /\ dma' \in {"loop", "resume"}
    BY <1>1, LoopEnds
  <1>3. SwitchedOff'
    BY <1>1, OffKept DEF Inv, HwOK, Types
  <1>4. stolen' \in Nat
    BY DEF Inv, Types, DmaCycle
  <1>5. Types'
    BY <1>2, <1>4 DEF Inv, Types, DmaCycle
  <1> QED
    BY <1>2, <1>3, <1>5 DEF Inv

LEMMA DmcReadInv == Inv /\ dma_dmc_read => Inv'
  <1> SUFFICES ASSUME Inv, dma_dmc_read PROVE Inv'
    OBVIOUS
  <1> DEFINE q == apu_clock(process_cycle(hw))
  <1>1. /\ DmaCycle /\ dma = "loop" /\ ~odd /\ oam' = oam
        /\ sprite_counter' = sprite_counter /\ read_value' = -1
        /\ hw.dmc_dma_running /\ ~hw.need_halt
        /\ hw' = [set_dmc_read_buffer(q) EXCEPT !.dmc_dma_running = FALSE,
                                                !.abort_dmc_dma = FALSE]
    BY DEF dma_dmc_read, DmaCycle, DmcReady
  <1>2. /\ HwOK(q) /\ Settled(q)
        /\ q.sprite_dma_transfer = hw.sprite_dma_transfer
        /\ q.disable_delay <= hw.disable_delay
    BY <1>1, LoopCycle DEF Inv, Looping
  <1> HIDE DEF q
  <1>3. /\ HwOK(hw') /\ Inside(hw')
        /\ hw'.sprite_dma_transfer = q.sprite_dma_transfer
        /\ hw'.disable_delay = q.disable_delay
    BY <1>1, <1>2, FetchEnds
  <1>4. dma' # "none"
    BY <1>1 DEF DmaCycle, EnterOrLeaveLoop
  <1>5. Copying'
    BY <1>1, <1>2, <1>3, <1>4, NotBetween, CopyKept DEF Inv
  <1>6. sprite_counter' \in Nat /\ read_value' \in -1 .. SpriteBytes - 1 /\ fetched' \in Nat
    BY <1>1, SpriteBytesAssumption DEF Inv, Types, dma_dmc_read
  <1> QED
    BY <1>1, <1>2, <1>3, <1>5, <1>6, DmaCycleInv

LEMMA DummyReadInv == Inv /\ dma_dummy_read => Inv'
  <1> SUFFICES ASSUME Inv, dma_dummy_read PROVE Inv'
    OBVIOUS
  <1>1. /\ DmaCycle /\ dma = "loop" /\ oam' = oam
        /\ sprite_counter' = sprite_counter /\ read_value' = read_value
        /\ fetched' = fetched /\ hw' = apu_clock(process_cycle(hw))
    BY DEF dma_dummy_read, DmaCycle
  <1>2. /\ HwOK(hw') /\ Inside(hw')
        /\ hw'.sprite_dma_transfer = hw.sprite_dma_transfer
        /\ hw'.disable_delay <= hw.disable_delay
    BY <1>1, LoopCycle DEF Inv, Looping
  <1>3. ~Between
    <2>1. SUFFICES ASSUME Between PROVE FALSE
      OBVIOUS
    <2>2. odd /\ hw.sprite_dma_transfer
      BY <2>1 DEF Inv, Copying
    <2>3. sprite_counter % 2 # 1
      BY <2>2 DEF dma_dummy_read
    <2>4. Len(oam) \in Nat
      BY DEF Inv, Copying
    <2> QED
      BY <2>1, <2>3, <2>4, Parity DEF Between
  <1>4. dma' # "none"
    BY <1>1 DEF DmaCycle, EnterOrLeaveLoop
  <1>5. Copying'
    BY <1>1, <1>2, <1>3, <1>4, CopyKept DEF Inv
  <1>6. sprite_counter' \in Nat /\ read_value' \in -1 .. SpriteBytes - 1 /\ fetched' \in Nat
    BY <1>1 DEF Inv, Types
  <1> QED
    BY <1>1, <1>2, <1>5, <1>6, DmaCycleInv

LEMMA SpriteReadInv == Inv /\ dma_sprite_read => Inv'
  <1> SUFFICES ASSUME Inv, dma_sprite_read PROVE Inv'
    OBVIOUS
  <1> DEFINE n == Len(oam)
  <1>1. /\ DmaCycle /\ dma = "loop" /\ ~odd /\ oam' = oam /\ hw.sprite_dma_transfer
        /\ sprite_counter' = sprite_counter + 1
        /\ read_value' = (sprite_counter + 1) \div 2
        /\ fetched' = fetched /\ hw' = apu_clock(process_cycle(hw))
    BY DEF dma_sprite_read, DmaCycle
  <1>2. /\ HwOK(hw') /\ Inside(hw')
        /\ hw'.sprite_dma_transfer = hw.sprite_dma_transfer
        /\ hw'.disable_delay <= hw.disable_delay
    BY <1>1, LoopCycle DEF Inv, Looping
  <1>3. ~Between
    BY <1>1, NotBetween DEF Inv
  <1>4. n \in Nat /\ n < SpriteBytes /\ sprite_counter = 2 * n
    BY <1>1, <1>3 DEF Inv, Copying
  <1>5. sprite_counter' = 2 * n + 1 /\ read_value' = n
    BY <1>1, <1>4, Parity
  <1>6. dma' = "loop" /\ odd'
    BY <1>1, <1>2 DEF DmaCycle, EnterOrLeaveLoop, Inv, Types
  <1>7. Copying'
    BY <1>1, <1>2, <1>4, <1>5, <1>6 DEF Inv, Copying, Between
  <1>8. sprite_counter' \in Nat /\ read_value' \in -1 .. SpriteBytes - 1 /\ fetched' \in Nat
    BY <1>1, <1>4, <1>5, SpriteBytesAssumption DEF Inv, Types
  <1> QED
    BY <1>1, <1>2, <1>7, <1>8, DmaCycleInv

LEMMA SpriteWriteInv == Inv /\ dma_sprite_write => Inv'
  <1> SUFFICES ASSUME Inv, dma_sprite_write PROVE Inv'
    OBVIOUS
  <1> DEFINE n == Len(oam)
             more == sprite_counter + 1 # 2 * SpriteBytes
             q == apu_clock(process_cycle(hw))
  <1>1. /\ DmaCycle /\ dma = "loop" /\ hw.sprite_dma_transfer
        /\ sprite_counter % 2 = 1
        /\ oam' = Append(oam, read_value)
        /\ sprite_counter' = sprite_counter + 1
        /\ read_value' = read_value
        /\ fetched' = fetched
        /\ hw' = [q EXCEPT !.sprite_dma_transfer = more]
    BY DEF dma_sprite_write, DmaCycle
  <1>2. HwOK(q) /\ Inside(q) /\ q.disable_delay <= hw.disable_delay
    BY <1>1, LoopCycle DEF Inv, Looping
  <1> HIDE DEF q
  <1>3. more \in BOOLEAN
    OBVIOUS
  <1>4. /\ HwOK(hw') /\ Inside(hw')
        /\ hw'.sprite_dma_transfer = more
        /\ hw'.disable_delay = q.disable_delay
    <2> HIDE DEF more
    <2> QED
      BY <1>1, <1>2, <1>3, SpriteStepOK
  <1>5. n \in Nat /\ n < SpriteBytes
    BY <1>1 DEF Inv, Copying
  <1>6. Between
    BY <1>1, <1>5, Parity DEF Inv, Copying
  <1>7. sprite_counter = 2 * n + 1 /\ read_value = n
    BY <1>6 DEF Inv, Copying, Between
  <1>8. more <=> n + 1 # SpriteBytes
    BY <1>5, <1>7, SpriteBytesAssumption
  <1>9. read_value \in -1 .. SpriteBytes - 1 /\ oam \in Seq(-1 .. SpriteBytes - 1)
    BY DEF Inv, Types, Copying
  <1>10. /\ oam' \in Seq(-1 .. SpriteBytes - 1) /\ Len(oam') = n + 1
         /\ \A i \in 1 .. n : oam'[i] = oam[i]
         /\ oam'[n + 1] = read_value
    BY <1>1, <1>9
  <1>11. Copying'
    <2> HIDE DEF more
    <2>1. \A i \in 1 .. Len(oam') : oam'[i] = i - 1
      <3>1. SUFFICES ASSUME NEW i \in 1 .. n + 1 PROVE oam'[i] = i - 1
        BY <1>10
      <3>2. CASE i \in 1 .. n
        BY <1>10, <3>2 DEF Inv, Copying
      <3>3. CASE i = n + 1
        BY <1>5, <1>7, <1>10, <3>3
      <3> QED
        BY <1>5, <3>2, <3>3
    <2>2. sprite_counter' = 2 * Len(oam') /\ ~Between'
      BY <1>1, <1>5, <1>7, <1>10 DEF Between
    <2>3. /\ hw'.sprite_dma_transfer => Len(oam') < SpriteBytes
          /\ ~hw'.sprite_dma_transfer => Len(oam') \in {0, SpriteBytes}
      BY <1>4, <1>5, <1>8, <1>10, SpriteBytesAssumption
    <2>4. dma' # "none"
      BY <1>1 DEF DmaCycle, EnterOrLeaveLoop
    <2> QED
      BY <1>10, <2>1, <2>2, <2>3, <2>4 DEF Copying
  <1>12. sprite_counter' \in Nat /\ read_value' \in -1 .. SpriteBytes - 1 /\ fetched' \in Nat
    BY <1>1, <1>9 DEF Inv, Types
  <1> QED
    BY <1>1, <1>2, <1>4, <1>11, <1>12, DmaCycleInv

(* What a write cycle leaves to show: the register it writes keeps the     *)
(* hardware in order.                                                      *)
LEMMA WriteCycleInv ==
    ASSUME Inv, NEW target, WriteCycle(target), target # "4014",
           HwOK(hw'), Outside(hw'), hw'.sprite_dma_transfer = hw.sprite_dma_transfer
    PROVE  Inv'
  <1>1. /\ dma = "none" /\ dma' = dma /\ oam' = oam /\ sprite_counter' = sprite_counter
        /\ bus.target = target /\ WriteNext
    BY DEF WriteCycle
  <1>2. ~hw'.sprite_dma_transfer
    BY <1>1 DEF Inv, SpriteWaits
  <1>3. bus' \in Bus /\ bus'.target = target
    <2>1. bus \in Bus /\ bus.writes \in 0 .. 3 /\ bus.writes > 0
      BY <1>1 DEF Inv, Types, Bus, WriteNext
    <2>2. bus.writes - 1 \in 0 .. 3
      BY <2>1
    <2> QED
      BY <1>1, <2>1, <2>2 DEF WriteCycle, AfterWrite, Bus
  <1>4. Types'
    BY <1>3 DEF Inv, Types, WriteCycle
  <1>5. SpriteWaits' /\ SwitchedOff' /\ Looping'
    BY <1>1, <1>2, <1>3 DEF SpriteWaits, SwitchedOff, Looping
  <1>6. Copying'
    BY <1>1, NotBetween, CopyKept DEF Inv, Copying
  <1> QED
    BY <1>4, <1>5, <1>6 DEF Inv

(* The clock of a write cycle, which is outside the loop.                  *)
LEMMA WriteClock ==
    ASSUME Inv, dma = "none"
    PROVE  /\ HwOK(apu_clock(hw)) /\ Outside(apu_clock(hw))
           /\ apu_clock(hw).sprite_dma_transfer = hw.sprite_dma_transfer
           /\ apu_clock(hw).disable_delay <= hw.disable_delay
  <1>1. HwOK(hw) /\ Outside(hw)
    BY DEF Inv, Looping
  <1>2. HwOK(apu_clock(hw)) /\ Tick(hw, apu_clock(hw))
    BY <1>1, ApuClockOK
  <1> QED
    BY <1>1, <1>2 DEF Tick

LEMMA WriteRamInv == Inv /\ write_ram => Inv'
  <1> SUFFICES ASSUME Inv, write_ram PROVE Inv'
    OBVIOUS
  <1>1. WriteCycle("ram") /\ dma = "none" /\ hw' = apu_clock(hw)
    BY DEF write_ram, WriteCycle
  <1> QED
    BY <1>1, WriteClock, WriteCycleInv

LEMMA Write4010Inv == Inv /\ write_4010 => Inv'
  <1> SUFFICES ASSUME Inv, write_4010 PROVE Inv'
    OBVIOUS
  <1> DEFINE c == apu_clock(hw)
  <1>1. WriteCycle("4010") /\ dma = "none"
    BY DEF write_4010, WriteCycle
  <1>2. PICK e \in BOOLEAN, l \in BOOLEAN, p \in OutputPeriods : hw' = write_control(c, e, l, p)
    BY DEF write_4010
  <1>3. HwOK(c) /\ Outside(c) /\ c.sprite_dma_transfer = hw.sprite_dma_transfer
    BY <1>1, WriteClock
  <1> HIDE DEF c
  <1>4. /\ HwOK(hw') /\ Outside(hw')
        /\ hw'.sprite_dma_transfer = c.sprite_dma_transfer
    BY <1>2, <1>3, WriteControlOK
  <1> QED
    BY <1>1, <1>3, <1>4, WriteCycleInv

LEMMA Write4013Inv == Inv /\ write_4013 => Inv'
  <1> SUFFICES ASSUME Inv, write_4013 PROVE Inv'
    OBVIOUS
  <1> DEFINE c == apu_clock(hw)
  <1>1. WriteCycle("4013") /\ dma = "none"
    BY DEF write_4013, WriteCycle
  <1>2. PICK n \in SampleLengths : hw' = [c EXCEPT !.sample_length = n]
    BY DEF write_4013
  <1>3. HwOK(c) /\ Outside(c) /\ c.sprite_dma_transfer = hw.sprite_dma_transfer
    BY <1>1, WriteClock
  <1> HIDE DEF c
  <1>4. /\ HwOK(hw') /\ Outside(hw')
        /\ hw'.sprite_dma_transfer = c.sprite_dma_transfer
    BY <1>2, <1>3, SampleLengthOK
  <1> QED
    BY <1>1, <1>3, <1>4, WriteCycleInv

LEMMA Write4015Inv == Inv /\ write_4015 => Inv'
  <1> SUFFICES ASSUME Inv, write_4015 PROVE Inv'
    OBVIOUS
  <1> DEFINE c == apu_clock(hw)
  <1>1. WriteCycle("4015") /\ dma = "none"
    BY DEF write_4015, WriteCycle
  <1>2. \E enabled : hw' = write_status(c, enabled, odd')
    BY DEF write_4015
  <1>3. HwOK(c) /\ Outside(c) /\ c.sprite_dma_transfer = hw.sprite_dma_transfer
    BY <1>1, WriteClock
  <1> HIDE DEF c
  <1>4. PICK enabled : hw' = write_status(c, enabled, odd')
    BY <1>2
  <1>5. /\ HwOK(hw') /\ Outside(hw')
        /\ hw'.sprite_dma_transfer = c.sprite_dma_transfer
    BY <1>3, <1>4, WriteStatusOK
  <1> QED
    BY <1>1, <1>3, <1>5, WriteCycleInv

(* The write that asks for the sprite DMA: a channel switched off before   *)
(* has stopped, so that its stop cannot take the halt back.                *)
LEMMA Write4014Inv == Inv /\ write_4014 => Inv'
  <1> SUFFICES ASSUME Inv, write_4014 PROVE Inv'
    OBVIOUS
  <1> DEFINE c == apu_clock(hw)
  <1>1. /\ WriteCycle("4014") /\ dma = "none" /\ dma' = "none" /\ oam' = oam
        /\ sprite_counter' = sprite_counter
        /\ bus.target = "4014" /\ bus.reads = 0 /\ WriteNext
        /\ hw' = run_dma_transfer(c)
    BY DEF write_4014, WriteCycle, WriteNext
  <1>2. HwOK(c) /\ Outside(c) /\ c.disable_delay <= hw.disable_delay
    BY <1>1, WriteClock
  <1> HIDE DEF c
  <1>3. /\ HwOK(hw') /\ Outside(hw') /\ hw'.sprite_dma_transfer /\ hw'.need_halt
        /\ hw'.disable_delay = c.disable_delay
    BY <1>1, <1>2, RunDmaOK
  <1>4. hw'.disable_delay = 0
    <2>1. hw.disable_delay \in 0 .. 3 /\ hw'.disable_delay \in 0 .. 3
      BY <1>3 DEF Inv, HwOK, Hw, Delays
    <2>2. hw.disable_delay <= 0
      BY <1>1 DEF Inv, SwitchedOff
    <2> QED
      BY <1>2, <1>3, <2>1, <2>2
  <1>5. bus' \in Bus /\ bus'.target = "4014" /\ bus'.reads = 0
    <2>1. bus \in Bus /\ bus.writes \in 0 .. 3 /\ bus.writes > 0
      BY <1>1 DEF Inv, Types, Bus, WriteNext
    <2>2. bus.writes - 1 \in 0 .. 3
      BY <2>1
    <2> QED
      BY <1>1, <2>1, <2>2 DEF WriteCycle, AfterWrite, Bus
  <1>6. Types'
    BY <1>5 DEF Inv, Types, WriteCycle, write_4014
  <1>7. SpriteWaits' /\ SwitchedOff'
    BY <1>3, <1>4, <1>5 DEF SpriteWaits, SwitchedOff
  <1>8. Looping'
    BY <1>1, <1>3 DEF Looping
  <1>9. Copying'
    <2>1. oam = << >> /\ ~Between
      BY <1>1, NotBetween DEF Inv, Copying
    <2>2. sprite_counter = 0
      BY <2>1 DEF Inv, Copying, Between
    <2> QED
      BY <1>1, <1>3, <2>1, <2>2, SpriteBytesAssumption DEF Inv, Copying, Between
  <1> QED
    BY <1>3, <1>6, <1>7, <1>8, <1>9 DEF Inv

LEMMA StutterInv == Inv /\ UNCHANGED vars => Inv'
  <1> SUFFICES ASSUME Inv, UNCHANGED vars PROVE Inv'
    OBVIOUS
  <1> USE DEF vars
  <1>1. HwOK(hw')
    BY DEF Inv
  <1>2. Types'
    BY DEF Inv, Types
  <1>3. SpriteWaits' /\ SwitchedOff' /\ Looping'
    BY DEF Inv, SpriteWaits, SwitchedOff, Looping, WriteNext
  <1>4. Copying'
    BY DEF Inv, Copying, Between
  <1> QED
    BY <1>1, <1>2, <1>3, <1>4 DEF Inv

LEMMA NextInv == Inv /\ [Next]_vars => Inv'
  <1> SUFFICES ASSUME Inv, [Next]_vars PROVE Inv'
    OBVIOUS
  <1>1. CASE exec
    BY <1>1, ExecInv
  <1>2. CASE end_frame
    BY <1>2, EndFrameInv
  <1>3. CASE memory_read
    BY <1>3, MemoryReadInv
  <1>4. CASE process_pending_dma
    BY <1>4, HaltInv
  <1>5. CASE dma_dmc_read
    BY <1>5, DmcReadInv
  <1>6. CASE dma_sprite_read
    BY <1>6, SpriteReadInv
  <1>7. CASE dma_sprite_write
    BY <1>7, SpriteWriteInv
  <1>8. CASE dma_dummy_read
    BY <1>8, DummyReadInv
  <1>9. CASE write_ram
    BY <1>9, WriteRamInv
  <1>10. CASE write_4010
    BY <1>10, Write4010Inv
  <1>11. CASE write_4013
    BY <1>11, Write4013Inv
  <1>12. CASE write_4014
    BY <1>12, Write4014Inv
  <1>13. CASE write_4015
    BY <1>13, Write4015Inv
  <1>14. CASE UNCHANGED vars
    BY <1>14, StutterInv
  <1> QED
    BY <1>1, <1>2, <1>3, <1>4, <1>5, <1>6, <1>7, <1>8, <1>9, <1>10, <1>11,
       <1>12, <1>13, <1>14 DEF Next, Cycle

-----------------------------------------------------------------------------
(* The invariant of the DMA units.                                         *)
THEOREM DmaInvariant == Spec => []Inv
  BY InitInv, NextInv, PTL DEF Spec

LEMMA InvType == Inv => TypeOK
  <1> SUFFICES ASSUME Inv PROVE TypeOK
    OBVIOUS
  <1>1. hw \in HardwareState
    BY DEF Inv, HwOK, Hw, HardwareState, Bits, Delays, Positive
  <1>2. sprite_counter \in 0 .. 2 * SpriteBytes
    <2>1. Len(oam) \in Nat /\ Len(oam) <= SpriteBytes /\ (Between => Len(oam) < SpriteBytes)
      BY SpriteBytesAssumption DEF Inv, Copying
    <2>2. sprite_counter = 2 * Len(oam) \/ Between
      BY DEF Inv, Copying
    <2> QED
      BY <2>1, <2>2, SpriteBytesAssumption DEF Between
  <1>3. oam \in Seq(-1 .. SpriteBytes - 1)
    BY DEF Inv, Copying
  <1> QED
    BY <1>1, <1>2, <1>3, Zenon DEF Inv, Types, TypeOK, Bus

(* Halts match transfers: a DMA that has been asked for is never forgotten *)
(* (outside the loop of process_pending_dma need_halt_ is set while one is *)
(* in progress), the CPU halts for nothing else, and an abort never        *)
(* outlives the transfer it is meant for.                                  *)
THEOREM HaltsMatchTransfers == Spec => []HaltMatchesDma
  <1>1. Inv => HaltMatchesDma
    <2> SUFFICES ASSUME Inv PROVE HaltMatchesDma
      OBVIOUS
    <2>1. TypeOK
      BY InvType
    <2>2. hw.need_halt => hw.sprite_dma_transfer \/ hw.dmc_dma_running
      BY DEF Inv, HwOK, Halting
    <2>3. dma # "loop" /\ (hw.sprite_dma_transfer \/ hw.dmc_dma_running) => hw.need_halt
      BY <2>1 DEF TypeOK, Inv, Looping, Outside, SpriteWaits
    <2>4. hw.abort_dmc_dma => dma = "loop" /\ hw.dmc_dma_running /\ hw.bytes_remaining = 0
      BY DEF Inv, HwOK, Halting, Looping, Outside
    <2> QED
      BY <2>1, <2>2, <2>3, <2>4 DEF HaltMatchesDma
  <1> QED
    BY <1>1, DmaInvariant, PTL

(* Fetches match the sample buffer: a fetch is under way only for a byte   *)
(* the channel lacks, the channel never stalls with a byte left to fetch,  *)
(* need_to_run_flag_ is set whenever process_clock has something to do,    *)
(* and the interrupt is pending only after a sample's end.                 *)
THEOREM FetchesMatchBuffer == Spec => []FetchMatchesBuffer
  <1>1. Inv => FetchMatchesBuffer
    BY DEF Inv, HwOK, Fetching, FetchMatchesBuffer
  <1> QED
    BY <1>1, DmaInvariant, PTL

(* OAM is written in order: the sprite DMA of a page of any size writes    *)
(* the page's bytes in order, all of them and nothing else, however many   *)
(* sample fetches take its read cycles.                                    *)
THEOREM OamWrittenInOrder == Spec => []OamInOrder
  <1>1. Inv => OamInOrder
    <2> SUFFICES ASSUME Inv PROVE OamInOrder
      OBVIOUS
    <2>1. Len(oam) \in Nat /\ (Len(oam) = 0 => oam = << >>)
      BY DEF Inv, Copying
    <2>2. dma = "resume" /\ oam # << >> => Len(oam) = SpriteBytes
      BY <2>1 DEF Inv, Copying, Looping
    <2>3. sprite_counter % 2 = 1 => dma = "loop" /\ odd
      BY <2>1, Parity DEF Inv, Copying
    <2>4. \A i \in 1 .. Len(oam) : oam[i] = i - 1
      BY DEF Inv, Copying
    <2> QED
      BY <2>2, <2>3, <2>4 DEF OamInOrder
  <1> QED
    BY <1>1, DmaInvariant, PTL

-----------------------------------------------------------------------------
(* What a DMA costs.  During a sprite DMA the channel is not being         *)
(* switched off, so that a fetch which begins is not called off.           *)
NoStop ==
    dma = "loop" /\ (hw.sprite_dma_transfer \/ oam # << >>)
        => hw.disable_delay = 0 /\ ~hw.abort_dmc_dma

(* At most k cycles that are neither the copy's nor one of two for each    *)
(* byte fetched.                                                           *)
Over(k) == fetched = MaxStolen \/ stolen <= sprite_counter + 2 * fetched + k

(* A sample fetch by itself: the halt, the dummy read, perhaps a cycle to  *)
(* align, the read.                                                        *)
FetchCost ==
    dma = "loop" /\ ~hw.sprite_dma_transfer /\ oam = << >> =>
        /\ ~hw.need_halt
        /\ \/ stolen = 1
           \/ stolen = 2 /\ ~hw.need_dummy_read
           \/ stolen = 3 /\ ~hw.need_dummy_read /\ ~odd

(* The copy under way, which loses a cycle when it has to wait for a read  *)
(* cycle.                                                                  *)
CopyCost ==
    dma = "loop" /\ hw.sprite_dma_transfer =>
        Over(IF odd /\ ~Between THEN 1 ELSE 2)

(* The copy done and a fetch still to end: it is a halt, a dummy read and  *)
(* the read away at most.                                                  *)
TailCost ==
    dma = "loop" /\ ~hw.sprite_dma_transfer /\ oam # << >> =>
        \/ ~odd /\ Over(2)
        \/ odd /\ ~hw.need_halt /\ Over(3)
        \/ ~odd /\ ~hw.need_halt /\ ~hw.need_dummy_read /\ Over(4)

Counts ==
    /\ stolen <= MaxStolen /\ fetched <= MaxStolen
    /\ dma = "none" => fetched = 0
    /\ dma # "none" => stolen >= sprite_counter + 1

Costs == NoStop /\ Counts /\ FetchCost /\ CopyCost /\ TailCost /\ DmaCost

LEMMA LimitNat == MaxStolen \in Nat /\ MaxStolen >= 2 * SpriteBytes + 6
  BY SpriteBytesAssumption DEF MaxStolen

(* Sums of the counts.                                                     *)
LEMMA OneMore ==
    ASSUME NEW s \in Nat, NEW c \in Nat, NEW d \in Nat, s >= c + 1, d <= c + 1
    PROVE  s + 1 >= d + 1
  OBVIOUS

LEMMA AtLimit ==
    ASSUME NEW s \in Nat, NEW m \in Nat, NEW d \in Nat, NEW b \in Nat,
           s >= m, m >= b + 6, d <= b
    PROVE  s >= d + 1
  OBVIOUS

LEMMA TwoIsLess ==
    ASSUME NEW s \in Nat, NEW b \in Nat, NEW f \in Nat, s <= b + 2 * f + 2
    PROVE  s <= b + 2 + 3 * f
  OBVIOUS

LEMMA PageNat == 2 * SpriteBytes \in Nat
  BY SpriteBytesAssumption

(* The counter, from the bytes copied.                                     *)
LEMMA CounterOf ==
    ASSUME Inv
    PROVE  /\ stolen \in Nat /\ fetched \in Nat /\ sprite_counter \in Nat
           /\ sprite_counter <= 2 * SpriteBytes
           /\ ~hw.sprite_dma_transfer => ~Between /\ (oam = << >> \/ sprite_counter = 2 * SpriteBytes)
           /\ oam = << >> /\ ~Between => sprite_counter = 0
  <1>1. sprite_counter \in 0 .. 2 * SpriteBytes
    BY InvType DEF TypeOK
  <1>2. stolen \in Nat /\ fetched \in Nat /\ sprite_counter \in Nat
    BY DEF Inv, Types
  <1>3. ~hw.sprite_dma_transfer => ~Between
    BY DEF Inv, Copying
  <1>4. Len(oam) \in Nat /\ (Len(oam) = 0 <=> oam = << >>)
    BY DEF Inv, Copying
  <1>5. ~hw.sprite_dma_transfer => oam = << >> \/ sprite_counter = 2 * SpriteBytes
    BY <1>3, <1>4 DEF Inv, Copying
  <1>6. oam = << >> /\ ~Between => sprite_counter = 0
    BY <1>4 DEF Inv, Copying
  <1> QED
    BY <1>1, <1>2, <1>3, <1>5, <1>6, SpriteBytesAssumption

LEMMA InitCosts == Init => Costs
  <1> SUFFICES ASSUME Init PROVE Costs
    OBVIOUS
  <1>1. dma = "none" /\ stolen = 0 /\ fetched = 0
    BY DEF Init
  <1>2. NoStop /\ FetchCost /\ CopyCost /\ TailCost /\ DmaCost
    BY <1>1 DEF NoStop, FetchCost, CopyCost, TailCost, DmaCost
  <1>3. Counts
    BY <1>1, LimitNat DEF Counts
  <1> QED
    BY <1>2, <1>3 DEF Costs

(* Outside the loop nothing is owed.                                       *)
LEMMA OutsideCosts ==
    ASSUME Costs, dma' = "none", stolen' \in Nat, stolen' <= MaxStolen, fetched' = 0
    PROVE  Costs'
  <1>1. (NoStop /\ FetchCost /\ CopyCost /\ TailCost /\ DmaCost)'
    BY DEF NoStop, FetchCost, CopyCost, TailCost, DmaCost
  <1>2. Counts'
    BY LimitNat DEF Counts, MaxStolen
  <1> QED
    BY <1>1, <1>2 DEF Costs

LEMMA HaltCosts == Inv /\ Inv' /\ Costs /\ process_pending_dma => Costs'
  <1> SUFFICES ASSUME Inv, Inv', Costs, process_pending_dma PROVE Costs'
    OBVIOUS
  <1>1. /\ dma = "none" /\ hw.need_halt /\ hw' = halt_cycle(hw) /\ EnterOrLeaveLoop
        /\ stolen' = 1 /\ fetched' = fetched /\ oam' = oam
        /\ sprite_counter' = sprite_counter
    BY DEF process_pending_dma
  <1>2. ~hw.abort_dmc_dma
    BY <1>1 DEF Inv, Looping, Outside
  <1>3. /\ hw'.sprite_dma_transfer = hw.sprite_dma_transfer
        /\ hw'.disable_delay <= hw.disable_delay
        /\ hw.dmc_dma_running => Settled(hw')
        /\ ~hw'.abort_dmc_dma
    BY <1>1, <1>2, HaltCycleOK DEF Inv
  <1>4. oam = << >> /\ sprite_counter = 0 /\ fetched = 0 /\ ~Between'
    <2>1. oam = << >> /\ ~Between
      BY <1>1, NotBetween DEF Inv, Copying
    <2>2. sprite_counter = 0
      BY <2>1, CounterOf
    <2> QED
      BY <1>1, <2>1, <2>2 DEF Costs, Counts, Between
  <1>5. NoStop'
    <2>1. SUFFICES ASSUME hw'.sprite_dma_transfer PROVE hw'.disable_delay = 0
      BY <1>1, <1>3, <1>4 DEF NoStop
    <2>2. hw.disable_delay = 0
      BY <1>1, <1>3, <2>1 DEF Inv, SpriteWaits
    <2>3. hw'.disable_delay \in 0 .. 3
      BY DEF Inv, HwOK, Hw, Delays
    <2> QED
      BY <1>3, <2>2, <2>3
  <1>6. Counts'
    BY <1>1, <1>4, LimitNat, SpriteBytesAssumption DEF Counts, MaxStolen
  <1>7. FetchCost'
    <2>1. SUFFICES ASSUME ~hw'.sprite_dma_transfer PROVE ~hw'.need_halt
      BY <1>1 DEF FetchCost
    <2>2. hw.dmc_dma_running
      BY <1>1, <1>3, <2>1 DEF Inv, HwOK, Halting
    <2> QED
      BY <1>3, <2>2 DEF Settled
  <1>8. CopyCost'
    <2>1. Over(1)' /\ Over(2)'
      BY <1>1, <1>4 DEF Over
    <2> QED
      BY <2>1 DEF CopyCost
  <1>9. TailCost' /\ DmaCost'
    BY <1>1, <1>4 DEF TailCost, DmaCost
  <1> QED
    BY <1>5, <1>6, <1>7, <1>8, <1>9 DEF Costs

(* The counts of a cycle in the loop, which adds one at most.              *)
LEMMA CycleCounts ==
    ASSUME Inv, Inv', Counts, DmaCycle,
           sprite_counter' \in {sprite_counter, sprite_counter + 1},
           fetched' = fetched \/ fetched' = IF fetched < MaxStolen THEN fetched + 1 ELSE fetched
    PROVE  /\ Counts' /\ dma = "loop" /\ dma' \in {"loop", "resume"}
           /\ stolen' <= stolen + 1
           /\ stolen < 4 => stolen' = stolen + 1
  <1>1. /\ stolen \in Nat /\ fetched \in Nat /\ sprite_counter \in Nat
        /\ sprite_counter' \in Nat /\ sprite_counter' <= 2 * SpriteBytes
        /\ stolen' \in Nat /\ fetched' \in Nat
    <2>1. sprite_counter' \in Nat /\ sprite_counter' <= 2 * SpriteBytes /\ stolen' \in Nat /\ fetched' \in Nat
      <3>1. (sprite_counter \in Nat /\ stolen \in Nat /\ fetched \in Nat)'
        BY DEF Inv, Types
      <3>2. (Len(oam) \in Nat /\ Len(oam) <= SpriteBytes /\ (Between => Len(oam) < SpriteBytes))'
        BY SpriteBytesAssumption DEF Inv, Copying
      <3>3. (sprite_counter = 2 * Len(oam) \/ Between)'
        BY DEF Inv, Copying
      <3> QED
        BY <3>1, <3>2, <3>3, SpriteBytesAssumption DEF Between
    <2> QED
      BY <2>1, CounterOf
  <1>2. dma = "loop" /\ dma' \in {"loop", "resume"}
    BY DEF DmaCycle, EnterOrLeaveLoop
  <1>3. stolen' = IF stolen < MaxStolen THEN stolen + 1 ELSE stolen
    BY DEF DmaCycle
  <1>4. MaxStolen' = MaxStolen
    BY DEF MaxStolen
  <1>5. stolen <= MaxStolen /\ fetched <= MaxStolen /\ stolen >= sprite_counter + 1
    BY <1>2 DEF Counts
  <1>6. stolen' <= MaxStolen /\ fetched' <= MaxStolen
    BY <1>1, <1>3, <1>5, LimitNat
  <1>7. stolen' >= sprite_counter' + 1
    <2>1. CASE stolen < MaxStolen
      <3>1. stolen' = stolen + 1
        BY <1>3, <2>1
      <3>2. sprite_counter' <= sprite_counter + 1
        BY <1>1
      <3>3. stolen + 1 >= sprite_counter' + 1
        BY <1>1, <1>5, <3>2, OneMore
      <3> QED
        BY <3>1, <3>3
    <2>2. CASE ~(stolen < MaxStolen)
      <3>1. stolen' = stolen
        BY <1>3, <2>2
      <3>2. stolen >= MaxStolen
        BY <1>1, <2>2, LimitNat
      <3>3. stolen >= sprite_counter' + 1
        BY <1>1, <3>2, LimitNat, PageNat, AtLimit
      <3> QED
        BY <3>1, <3>3
    <2> QED
      BY <2>1, <2>2
  <1>8. Counts'
    BY <1>2, <1>4, <1>6, <1>7 DEF Counts
  <1>9. MaxStolen > 4
    BY SpriteBytesAssumption DEF MaxStolen
  <1> QED
    BY <1>1, <1>2, <1>3, <1>8, <1>9, LimitNat

(* A fetch takes two cycles more at most: its read, and the cycle in which *)
(* the copy waits for the next read cycle.                                 *)
LEMMA DmcReadCosts == Inv /\ Inv' /\ Costs /\ dma_dmc_read => Costs'
  <1> SUFFICES ASSUME Inv, Inv', Costs, dma_dmc_read PROVE Costs'
    OBVIOUS
  <1> DEFINE q == apu_clock(process_cycle(hw))
  <1>1. /\ DmaCycle /\ ~odd /\ oam' = oam /\ sprite_counter' = sprite_counter
        /\ hw.dmc_dma_running /\ ~hw.need_halt /\ odd' = ~odd /\ EnterOrLeaveLoop
        /\ fetched' = IF fetched < MaxStolen THEN fetched + 1 ELSE fetched
        /\ hw' = [set_dmc_read_buffer(q) EXCEPT !.dmc_dma_running = FALSE,
                                                !.abort_dmc_dma = FALSE]
    BY DEF dma_dmc_read, DmaCycle, DmcReady
  <1>2. /\ Counts' /\ dma = "loop" /\ dma' \in {"loop", "resume"}
        /\ stolen' <= stolen + 1
        /\ stolen < 4 => stolen' = stolen + 1
    BY <1>1, CycleCounts DEF Costs
  <1>3. /\ HwOK(q) /\ Settled(q)
        /\ q.sprite_dma_transfer = hw.sprite_dma_transfer
        /\ q.disable_delay <= hw.disable_delay
    BY <1>1, <1>2, LoopCycle DEF Inv, Looping
  <1> HIDE DEF q
  <1>4. /\ hw'.sprite_dma_transfer = hw.sprite_dma_transfer
        /\ hw'.disable_delay <= hw.disable_delay
        /\ ~hw'.dmc_dma_running /\ ~hw'.abort_dmc_dma
    BY <1>1, <1>3, FetchEnds
  <1>5. dma' = "loop" <=> hw.sprite_dma_transfer
    BY <1>1, <1>4 DEF EnterOrLeaveLoop
  <1>6. /\ stolen \in Nat /\ fetched \in Nat /\ sprite_counter \in Nat
        /\ stolen' \in Nat /\ fetched' \in Nat
    BY DEF Inv, Types
  <1>7. NoStop'
    <2>1. SUFFICES ASSUME hw.sprite_dma_transfer \/ oam # << >> PROVE hw'.disable_delay = 0
      BY <1>1, <1>4 DEF NoStop
    <2>2. hw.disable_delay = 0
      BY <1>2, <2>1 DEF Costs, NoStop
    <2>3. hw'.disable_delay \in 0 .. 3
      BY DEF Inv, HwOK, Hw, Delays
    <2> QED
      BY <1>4, <2>2, <2>3
  <1>8. FetchCost' /\ TailCost'
    BY <1>4, <1>5 DEF FetchCost, TailCost
  <1>9. CopyCost'
    <2>1. SUFFICES ASSUME hw.sprite_dma_transfer PROVE Over(1)' /\ Over(2)'
      BY <1>4 DEF CopyCost
    <2>2. Over(2)
      BY <1>1, <1>2, <2>1 DEF Costs, CopyCost
    <2>3. fetched <= MaxStolen
      BY DEF Costs, Counts
    <2> QED
      BY <1>1, <1>2, <1>6, <2>2, <2>3, LimitNat DEF Over, MaxStolen
  <1>10. DmaCost'
    <2>1. SUFFICES ASSUME ~hw.sprite_dma_transfer PROVE DmaCost'
      BY <1>2, <1>5 DEF DmaCost
    <2>2. CASE oam = << >>
      <3>1. stolen \in {1, 2, 3}
        BY <1>2, <2>1, <2>2 DEF Costs, FetchCost
      <3> QED
        BY <1>1, <1>2, <1>6, <2>2, <3>1 DEF DmaCost
    <2>3. CASE oam # << >>
      <3>1. sprite_counter = 2 * SpriteBytes
        BY <2>1, <2>3, CounterOf
      <3>2. fetched = MaxStolen \/ stolen <= sprite_counter + 2 * fetched + 4
        BY <1>1, <1>2, <1>6, <2>1, <2>3 DEF Costs, TailCost, Over
      <3>3. /\ stolen' >= 2 * SpriteBytes + 1
            /\ stolen' <= MaxStolen
        BY <1>1, <1>2, <3>1 DEF Counts, MaxStolen
      <3>4. stolen' <= 2 * SpriteBytes + 2 + 3 * fetched'
        <4>1. CASE fetched = MaxStolen
          BY <1>1, <1>6, <3>3, <4>1, SpriteBytesAssumption
        <4>2. CASE fetched # MaxStolen
          <5>1. fetched' = fetched + 1
            BY <1>1, <1>6, <4>2, LimitNat DEF Costs, Counts
          <5> QED
            BY <1>2, <1>6, <3>1, <3>2, <4>2, <5>1, SpriteBytesAssumption
        <4> QED
          BY <4>1, <4>2
      <3> QED
        BY <1>1, <2>3, <3>3, <3>4 DEF DmaCost
    <2> QED
      BY <2>2, <2>3
  <1> QED
    BY <1>2, <1>7, <1>8, <1>9, <1>10 DEF Costs

LEMMA SpriteReadCosts == Inv /\ Inv' /\ Costs /\ dma_sprite_read => Costs'
  <1> SUFFICES ASSUME Inv, Inv', Costs, dma_sprite_read PROVE Costs'
    OBVIOUS
  <1>1. /\ DmaCycle /\ ~odd /\ oam' = oam /\ hw.sprite_dma_transfer
        /\ sprite_counter' = sprite_counter + 1 /\ fetched' = fetched
        /\ hw' = apu_clock(process_cycle(hw)) /\ EnterOrLeaveLoop
    BY DEF dma_sprite_read, DmaCycle
  <1>2. /\ Counts' /\ dma = "loop" /\ stolen' <= stolen + 1
    BY <1>1, CycleCounts DEF Costs
  <1>3. hw.disable_delay = 0 /\ ~hw.abort_dmc_dma
    BY <1>1, <1>2 DEF Costs, NoStop
  <1>4. /\ hw'.sprite_dma_transfer = hw.sprite_dma_transfer
        /\ hw'.disable_delay <= hw.disable_delay
        /\ ~hw'.abort_dmc_dma
    BY <1>1, <1>2, <1>3, LoopCycle DEF Inv, Looping
  <1>5. hw'.disable_delay \in 0 .. 3
    BY DEF Inv, HwOK, Hw, Delays
  <1>6. NoStop'
    BY <1>3, <1>4, <1>5 DEF NoStop
  <1>7. dma' = "loop"
    BY <1>1, <1>4 DEF EnterOrLeaveLoop
  <1>8. FetchCost' /\ TailCost' /\ DmaCost'
    BY <1>1, <1>4, <1>7 DEF FetchCost, TailCost, DmaCost
  <1>9. CopyCost'
    <2>1. Over(2)
      BY <1>1, <1>2 DEF Costs, CopyCost
    <2>2. stolen \in Nat /\ fetched \in Nat /\ sprite_counter \in Nat /\ stolen' \in Nat
      BY DEF Inv, Types
    <2>3. Over(2)'
      BY <1>1, <1>2, <2>1, <2>2 DEF Over, MaxStolen
    <2>4. Between'
      <3>1. ~Between
        BY <1>1, NotBetween DEF Inv
      <3> QED
        BY <1>1, <2>2, <3>1 DEF Inv, Copying, Between
    <2> QED
      BY <2>3, <2>4 DEF CopyCost
  <1> QED
    BY <1>2, <1>6, <1>8, <1>9 DEF Costs

LEMMA SpriteWriteCosts == Inv /\ Inv' /\ Costs /\ dma_sprite_write => Costs'
  <1> SUFFICES ASSUME Inv, Inv', Costs, dma_sprite_write PROVE Costs'
    OBVIOUS
  <1> DEFINE more == sprite_counter + 1 # 2 * SpriteBytes
             q == apu_clock(process_cycle(hw))
  <1>1. /\ DmaCycle /\ odd /\ odd' = ~odd /\ hw.sprite_dma_transfer
        /\ sprite_counter % 2 = 1 /\ oam' = Append(oam, read_value)
        /\ sprite_counter' = sprite_counter + 1 /\ fetched' = fetched
        /\ hw' = [q EXCEPT !.sprite_dma_transfer = more] /\ EnterOrLeaveLoop
    BY DEF dma_sprite_write, DmaCycle
  <1>2. /\ Counts' /\ dma = "loop" /\ dma' \in {"loop", "resume"}
        /\ stolen' <= stolen + 1
    BY <1>1, CycleCounts DEF Costs
  <1>3. hw.disable_delay = 0 /\ ~hw.abort_dmc_dma
    BY <1>1, <1>2 DEF Costs, NoStop
  <1>4. /\ HwOK(q) /\ Inside(q) /\ q.disable_delay <= hw.disable_delay
        /\ ~q.abort_dmc_dma
    BY <1>1, <1>2, <1>3, LoopCycle DEF Inv, Looping
  <1> HIDE DEF q
  <1>5. more \in BOOLEAN
    OBVIOUS
  <1>6. /\ hw'.disable_delay <= hw.disable_delay /\ ~hw'.abort_dmc_dma
    <2> HIDE DEF more
    <2> QED
      BY <1>1, <1>4, <1>5, SpriteStepOK
  <1>7. hw'.disable_delay \in 0 .. 3
    BY DEF Inv, HwOK, Hw, Delays
  <1>8. NoStop'
    BY <1>3, <1>6, <1>7 DEF NoStop
  <1>9. oam' # << >>
    <2>1. oam \in Seq(-1 .. SpriteBytes - 1) /\ read_value \in -1 .. SpriteBytes - 1
      BY DEF Inv, Copying, Types
    <2>2. Len(oam') = Len(oam) + 1 /\ Len(oam) \in Nat
      BY <1>1, <2>1
    <2> QED
      BY <2>2
  <1>10. FetchCost'
    BY <1>9 DEF FetchCost
  <1>11. Between
    <2>1. Len(oam) \in Nat
      BY DEF Inv, Copying
    <2> QED
      BY <1>1, <2>1, Parity DEF Inv, Copying
  <1>12. stolen \in Nat /\ fetched \in Nat /\ sprite_counter \in Nat /\ stolen' \in Nat
    BY DEF Inv, Types
  <1>13. Over(2)'
    <2>1. Over(2)
      BY <1>1, <1>2, <1>11 DEF Costs, CopyCost
    <2> QED
      BY <1>1, <1>2, <1>12, <2>1 DEF Over, MaxStolen
  <1>14. CopyCost' /\ TailCost'
    BY <1>1, <1>13 DEF CopyCost, TailCost
  <1>15. DmaCost'
    <2>1. SUFFICES ASSUME dma' = "resume"
                   PROVE  /\ stolen' >= 2 * SpriteBytes + 1
                          /\ stolen' <= 2 * SpriteBytes + 2 + 3 * fetched'
      BY <1>9 DEF DmaCost
    <2>2. (~hw.sprite_dma_transfer)'
      BY <1>1, <2>1 DEF EnterOrLeaveLoop
    <2>3. sprite_counter' = 2 * SpriteBytes
      <3>1. (~hw.sprite_dma_transfer => oam = << >> \/ sprite_counter = 2 * SpriteBytes)'
        <4>1. (~hw.sprite_dma_transfer => ~Between)'
          BY DEF Inv, Copying
        <4> QED
          BY <4>1 DEF Inv, Copying
      <3> QED
        BY <1>9, <2>2, <3>1
    <2>4. stolen' >= 2 * SpriteBytes + 1 /\ stolen' <= MaxStolen
      BY <1>2, <2>1, <2>3 DEF Counts, MaxStolen
    <2>5. fetched' = MaxStolen \/ stolen' <= 2 * SpriteBytes + 2 * fetched' + 2
      BY <1>13, <2>3 DEF Over, MaxStolen
    <2>6. fetched' \in Nat /\ stolen' \in Nat
      BY <1>1, <1>12
    <2>7. stolen' <= 2 * SpriteBytes + 2 + 3 * fetched'
      <3>1. CASE fetched' = MaxStolen
        BY <2>4, <2>6, <3>1, SpriteBytesAssumption
      <3>2. CASE stolen' <= 2 * SpriteBytes + 2 * fetched' + 2
        BY <2>6, <3>2, PageNat, TwoIsLess
      <3> QED
        BY <2>5, <3>1, <3>2
    <2> QED
      BY <2>4, <2>7
  <1> QED
    BY <1>2, <1>8, <1>10, <1>14, <1>15 DEF Costs

(* A cycle without a transfer brings the fetch nearer, or the copy to its  *)
(* read cycle.                                                             *)
LEMMA DummyReadCosts == Inv /\ Inv' /\ Costs /\ dma_dummy_read => Costs'
  <1> SUFFICES ASSUME Inv, Inv', Costs, dma_dummy_read PROVE Costs'
    OBVIOUS
  <1>1. /\ DmaCycle /\ odd' = ~odd /\ oam' = oam
        /\ sprite_counter' = sprite_counter /\ fetched' = fetched
        /\ hw' = apu_clock(process_cycle(hw)) /\ EnterOrLeaveLoop
    BY DEF dma_dummy_read, DmaCycle
  <1>2. /\ Counts' /\ dma = "loop" /\ dma' \in {"loop", "resume"}
        /\ stolen' <= stolen + 1
        /\ stolen < 4 => stolen' = stolen + 1
    BY <1>1, CycleCounts DEF Costs
  <1>3. /\ hw'.sprite_dma_transfer = hw.sprite_dma_transfer
        /\ hw'.disable_delay <= hw.disable_delay
        /\ hw.dmc_dma_running => Settled(hw')
        /\ hw.dmc_dma_running /\ ~hw.need_halt => ~hw'.need_dummy_read
        /\ hw.disable_delay = 0 /\ ~hw.abort_dmc_dma =>
                 /\ ~hw'.abort_dmc_dma
                 /\ hw.dmc_dma_running => hw'.dmc_dma_running
    BY <1>1, <1>2, LoopCycle DEF Inv, Looping
  <1>4. /\ hw.disable_delay \in 0 .. 3 /\ hw'.disable_delay \in 0 .. 3
        /\ stolen \in Nat /\ fetched \in Nat /\ sprite_counter \in Nat /\ stolen' \in Nat
        /\ odd \in BOOLEAN
    BY DEF Inv, HwOK, Hw, Delays, Types
  <1>5. NoStop'
    <2>1. SUFFICES ASSUME hw.sprite_dma_transfer \/ oam # << >>
                   PROVE  hw'.disable_delay = 0 /\ ~hw'.abort_dmc_dma
      BY <1>1, <1>3 DEF NoStop
    <2>2. hw.disable_delay = 0 /\ ~hw.abort_dmc_dma
      BY <1>2, <2>1 DEF Costs, NoStop
    <2> QED
      BY <1>3, <1>4, <2>2
  <1>6. CASE hw.sprite_dma_transfer
    <2>1. odd
      BY <1>6 DEF dma_dummy_read
    <2>2. dma' = "loop" /\ ~Between
      <3>1. dma' = "loop"
        BY <1>1, <1>3, <1>6 DEF EnterOrLeaveLoop
      <3>2. (Between => odd)'
        BY DEF Inv, Copying
      <3>3. ~Between'
        BY <1>1, <2>1, <3>2
      <3> QED
        BY <1>1, <3>1, <3>3 DEF Between
    <2>3. Over(1)
      BY <1>2, <1>6, <2>1, <2>2 DEF Costs, CopyCost
    <2>4. Over(2)'
      BY <1>1, <1>2, <1>4, <2>3 DEF Over, MaxStolen
    <2>5. CopyCost'
      BY <1>1, <2>1, <2>4 DEF CopyCost
    <2>6. FetchCost' /\ TailCost' /\ DmaCost'
      BY <1>3, <1>6, <2>2 DEF FetchCost, TailCost, DmaCost
    <2> QED
      BY <1>2, <1>5, <2>5, <2>6 DEF Costs
  <1>7. CASE ~hw.sprite_dma_transfer /\ oam = << >>
    <2>1. CopyCost' /\ TailCost'
      BY <1>1, <1>3, <1>7 DEF CopyCost, TailCost
    <2>2. hw.dmc_dma_running
      BY <1>2, <1>7 DEF Inv, Looping
    <2>3. /\ ~hw.need_halt
          /\ \/ stolen = 1
             \/ stolen = 2 /\ ~hw.need_dummy_read
             \/ stolen = 3 /\ ~hw.need_dummy_read /\ ~odd
      BY <1>2, <1>7 DEF Costs, FetchCost
    <2>4. ~hw'.need_halt /\ ~hw'.need_dummy_read
      BY <1>3, <2>2, <2>3 DEF Settled
    <2>5. odd \/ hw.need_dummy_read
      BY <1>7, <2>2, <2>3 DEF dma_dummy_read, DmcReady
    <2>6. FetchCost' /\ stolen' <= 4
      <3>1. CASE stolen = 1
        <4>1. stolen' = 2
          BY <1>2, <3>1
        <4> QED
          BY <2>4, <4>1 DEF FetchCost
      <3>2. CASE stolen = 2 /\ odd
        <4>1. stolen' = 3
          BY <1>2, <3>2
        <4>2. ~odd'
          BY <1>1, <3>2
        <4> QED
          BY <2>4, <4>1, <4>2 DEF FetchCost
      <3> QED
        BY <2>3, <2>5, <3>1, <3>2
    <2>7. DmaCost'
      BY <1>1, <1>7, <2>6 DEF DmaCost
    <2> QED
      BY <1>2, <1>5, <2>1, <2>6, <2>7 DEF Costs
  <1>8. CASE ~hw.sprite_dma_transfer /\ oam # << >>
    <2>1. CopyCost' /\ FetchCost'
      BY <1>1, <1>3, <1>8 DEF CopyCost, FetchCost
    <2>2. hw.dmc_dma_running /\ hw.disable_delay = 0 /\ ~hw.abort_dmc_dma
      BY <1>2, <1>8 DEF Inv, Looping, Costs, NoStop
    <2>3. dma' = "loop"
      BY <1>1, <1>3, <2>2 DEF EnterOrLeaveLoop
    <2>4. ~hw'.need_halt
      BY <1>3, <2>2 DEF Settled
    <2>5. \/ ~odd /\ Over(2)
          \/ odd /\ ~hw.need_halt /\ Over(3)
          \/ ~odd /\ ~hw.need_halt /\ ~hw.need_dummy_read /\ Over(4)
      BY <1>2, <1>8 DEF Costs, TailCost
    <2>6. odd \/ hw.need_halt \/ hw.need_dummy_read
      BY <1>8, <2>2 DEF dma_dummy_read, DmcReady
    <2>7. ASSUME ~odd PROVE TailCost'
      <3>1. Over(2)
        BY <2>5, <2>6, <2>7
      <3>2. Over(3)'
        BY <1>1, <1>2, <1>4, <3>1 DEF Over, MaxStolen
      <3>3. odd'
        BY <1>1, <2>7
      <3> QED
        BY <2>4, <3>2, <3>3 DEF TailCost
    <2>8. ASSUME odd PROVE TailCost'
      <3>1. ~hw.need_halt /\ Over(3)
        BY <2>5, <2>8
      <3>2. Over(4)' /\ ~hw'.need_dummy_read
        BY <1>1, <1>2, <1>3, <1>4, <2>2, <3>1 DEF Over, MaxStolen
      <3>3. ~odd'
        BY <1>1, <2>8
      <3> QED
        BY <2>4, <3>2, <3>3 DEF TailCost
    <2>9. DmaCost'
      BY <2>3 DEF DmaCost
    <2> QED
      BY <1>2, <1>5, <2>1, <2>7, <2>8, <2>9 DEF Costs
  <1> QED
    BY <1>6, <1>7, <1>8

LEMMA NextCosts == Inv /\ Inv' /\ Costs /\ [Next]_vars => Costs'
  <1> SUFFICES ASSUME Inv, Inv', Costs, [Next]_vars PROVE Costs'
    OBVIOUS
  <1>1. /\ stolen \in Nat /\ 0 \in Nat /\ stolen <= MaxStolen /\ 0 <= MaxStolen
        /\ dma = "none" => fetched = 0
    BY LimitNat DEF Inv, Types, Costs, Counts
  <1>2. CASE exec \/ end_frame
    <2>1. dma' = "none" /\ stolen' = stolen /\ fetched' = 0
      BY <1>1, <1>2 DEF exec, end_frame, BetweenInstructions
    <2> QED
      BY <1>1, <2>1, OutsideCosts
  <1>3. CASE memory_read
    <2>1. dma' = "none" /\ stolen' = 0 /\ fetched' = 0
      BY <1>3 DEF memory_read, DmaLocalsCleared
    <2> QED
      BY <1>1, <2>1, OutsideCosts
  <1>4. CASE write_ram \/ write_4010 \/ write_4013 \/ write_4014 \/ write_4015
    <2>1. \E target : WriteCycle(target)
      BY <1>4 DEF write_ram, write_4010, write_4013, write_4014, write_4015
    <2>2. dma' = "none" /\ stolen' = stolen /\ fetched' = 0
      BY <1>1, <2>1 DEF WriteCycle
    <2> QED
      BY <1>1, <2>2, OutsideCosts
  <1>5. CASE UNCHANGED vars
    <2>1. /\ NoStop' /\ FetchCost' /\ DmaCost'
      BY <1>5 DEF vars, Costs, NoStop, FetchCost, DmaCost
    <2>2. Counts'
      BY <1>5 DEF vars, Costs, Counts, MaxStolen
    <2>3. CopyCost' /\ TailCost'
      BY <1>5 DEF vars, Costs, CopyCost, TailCost, Over, Between, MaxStolen
    <2> QED
      BY <2>1, <2>2, <2>3 DEF Costs
  <1> QED
    BY <1>2, <1>3, <1>4, <1>5, HaltCosts, DmcReadCosts, SpriteReadCosts, SpriteWriteCosts,
       DummyReadCosts DEF Next, Cycle

(* What a DMA costs the CPU, for a page of any size and any rate of the    *)
(* output unit: a sample fetch by itself at most four cycles, a sprite DMA *)
(* two per byte and one or two more, and three more at most for each       *)
(* sample fetch that joins it.                                             *)
THEOREM DmaCostBounded == Spec => []DmaCost
  <1>1. Costs => DmaCost
    BY DEF Costs
  <1>2. Spec => []Costs
    BY InitCosts, NextCosts, DmaInvariant, PTL DEF Spec
  <1> QED
    BY <1>1, <1>2, PTL

=============================================================================
