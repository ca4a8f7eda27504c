------------------------------ MODULE NmiTiming ------------------------------
(***************************************************************************)
(* The vertical blank of the PPU and the interrupts of the CPU.            *)
(*                                                                         *)
(* NesPpu::exec advances the raster by one dot; it raises the vertical     *)
(* blank flag and, if $2000 says so, the CPU's NMI line.  The CPU runs the *)
(* PPU for two dots, makes its bus access, runs it for the third dot and   *)
(* then samples its interrupt lines (start_cpu_cycle, end_cpu_cycle); it   *)
(* acts on what it sampled at the end of an instruction.  The program is   *)
(* arbitrary: it may read $2002 and write $2000 and $2001 in any cycle, so *)
(* every race between these accesses and the raster occurs.                *)
(*                                                                         *)
(* The raster is scaled down by constants; the interrupt sources of APU    *)
(* and mapper are an arbitrary level.                                      *)
(***************************************************************************)
EXTENDS Integers

CONSTANTS
    LastDot,       \* 340
    PostRender,    \* the scanline that ends the picture; 240
    VblankEnd,     \* vblank_end_, the last scanline; 260
    Opcodes,       \* the kinds of instruction the program uses
    OpCycles,      \* the longest of the plain ones; 8, and more with DMA stalls
    IrqLevels      \* the levels the IRQ sources take; BOOLEAN

(* nmi_scanline_; 241 *)
NmiScanline == PostRender + 1

ASSUME RasterAssumption ==
    /\ LastDot \in Nat \ {0, 1, 2}
    /\ PostRender \in Nat \ {0}
    /\ VblankEnd \in Nat
    /\ VblankEnd > NmiScanline
ASSUME OpcodesAssumption ==
    /\ Opcodes \subseteq {"op", "cli", "sei", "rti", "brk", "hlt"}
    /\ OpCycles \in Nat \ {0, 1}
ASSUME IrqLevelsAssumption == IrqLevels \subseteq BOOLEAN

(* The cycles of the longest instruction; an interrupt sequence takes 7.   *)
Longest == IF OpCycles > 7 THEN OpCycles ELSE 7

(* The longest wait of an NMI, the end of an interrupt sequence, an        *)
(* instruction and four cycles more, is over before the vertical blank is; *)
(* one that is enabled as late as possible, which waits for no sequence,   *)
(* is taken before the next vertical blank.  The real raster has 20 and    *)
(* 242 lines of 341 dots for them.                                         *)
ASSUME BlankAssumption ==
    /\ (VblankEnd - PostRender) * (LastDot + 1) >= 3 * Longest + 22
    /\ (PostRender + 2) * (LastDot + 1) > 3 * Longest + 12

VARIABLES
    ppu,             \* raster position, registers, NMI line and history
    prev_nmi_flag, need_nmi, prev_need_nmi,   \* the CPU's NMI edge detector
    irq_flag,        \* is an IRQ source asserted?
    run_irq, prev_run_irq,                    \* the CPU's IRQ sampling
    disabled,        \* PSFlags::INTERRUPT
    seq,             \* what the CPU executes: an opcode, irq(), or "none"
    left,            \* its remaining cycles
    nmis             \* NMIs taken since the last vertical blank began

vars == <<ppu, prev_nmi_flag, need_nmi, prev_need_nmi, irq_flag, run_irq,
          prev_run_irq, disabled, seq, left, nmis>>

-----------------------------------------------------------------------------
(* The PPU.                                                                *)

AtVblank(p) == p.scanline = NmiScanline /\ p.cycle = 1

(* Each vertical blank starts its own history: whether the NMI was enabled *)
(* at its start, whether the program raced with it, and then how often it  *)
(* read the flag as set and how often it enabled the NMI again.            *)
StartHistory(p) ==
    [p EXCEPT !.on_at_start = p.nmi_on,
              !.raced = IF p.prevent_vbl THEN "before" ELSE "no",
              !.seen = 0,
              !.enables = 0]

(* prevent_vbl_flag_ suppresses the flag and the interrupt of this frame.  *)
begin_vblank(p) ==
    [p EXCEPT !.vertical_blank = @ \/ ~p.prevent_vbl,
              !.nmi_flag = @ \/ (~p.prevent_vbl /\ p.nmi_on),
              !.prevent_vbl = FALSE]

process_scanline_first_cycle(p) ==
    LET line == IF p.scanline = VblankEnd THEN -1 ELSE p.scanline + 1
        q == [p EXCEPT !.cycle = 0,
                       !.scanline = line,
                       !.vertical_blank = @ /\ line # -1]
    IN  IF line # PostRender THEN q
        ELSE [q EXCEPT !.frame_odd = ~@, !.length = p.dots, !.dots = 0]

process_prerender_any_frame(p) ==
    IF p.cycle = 1 THEN [p EXCEPT !.vertical_blank = FALSE, !.nmi_flag = FALSE]
    ELSE IF p.cycle = LastDot - 1 /\ p.rendering
    THEN [p EXCEPT !.cycle = LastDot]
    ELSE p

(* The parts of process_scanline_impl that matter here: the NMI line goes  *)
(* down, and odd frames skip a dot.                                        *)
process_prerender(p) ==
    IF p.cycle = 1 THEN [p EXCEPT !.vertical_blank = FALSE, !.nmi_flag = FALSE]
    ELSE IF p.cycle = LastDot - 1 /\ p.rendering /\ p.frame_odd
    THEN [p EXCEPT !.cycle = LastDot]
    ELSE p

exec_cycle(p) ==
    LET q == [p EXCEPT !.cycle = @ + 1]
        r == IF AtVblank(q) THEN begin_vblank(StartHistory(q)) ELSE q
    IN  IF r.scanline = -1 THEN process_prerender(r) ELSE r

(* NesPpu::exec; update_state makes the $2001 bits effective after the dot. *)
ppu_exec(p) ==
    LET c == [p EXCEPT !.dots = @ + 1]
        q == IF c.cycle < LastDot THEN exec_cycle(c)
                                  ELSE process_scanline_first_cycle(c)
    IN  [q EXCEPT !.rendering = q.mask]

(* The access falls into the CPU cycle in which the vertical blank began.  *)
InFirstCycle(p) == p.scanline = NmiScanline /\ p.cycle \in {1, 2}

Count(n) == IF n < 2 THEN n + 1 ELSE n

(* A read of $2002: the flag as it was is returned.                        *)
update_status_flag(p) ==
    [p EXCEPT !.vertical_blank = FALSE,
              !.nmi_flag = FALSE,
              !.prevent_vbl = @ \/ (p.scanline = NmiScanline /\ p.cycle = 0),
              !.seen = IF p.vertical_blank THEN Count(@) ELSE @,
              !.raced = IF InFirstCycle(p) /\ @ = "no" THEN "during" ELSE @]

set_control_register_keeps_line(p, on) ==
    [p EXCEPT !.nmi_on = on,
              !.nmi_flag = @ \/ (on /\ p.vertical_blank),
              !.enables = IF on /\ ~p.nmi_on THEN Count(@) ELSE @,
              !.raced = IF InFirstCycle(p) /\ ~on /\ @ = "no" THEN "during" ELSE @]

(* A write of $2000.                                                       *)
set_control_register(p, on) ==
    [p EXCEPT !.nmi_on = on,
              !.nmi_flag = on /\ (@ \/ p.vertical_blank),
              !.enables = IF on /\ ~p.nmi_on THEN Count(@) ELSE @,
              !.raced = IF InFirstCycle(p) /\ ~on /\ @ = "no" THEN "during" ELSE @]

set_mask_register(p, on) == [p EXCEPT !.mask = on]

Access == {"other", "2002", "2000 on", "2000 off", "2001 on", "2001 off"}

access(p, a) ==
    CASE a = "2002" -> update_status_flag(p)
      [] a = "2000 on" -> set_control_register(p, TRUE)
      [] a = "2000 off" -> set_control_register(p, FALSE)
      [] a = "2001 on" -> set_mask_register(p, TRUE)
      [] a = "2001 off" -> set_mask_register(p, FALSE)
      [] OTHER -> p

-----------------------------------------------------------------------------
FullFrame == (LastDot + 1) * (VblankEnd + 2)

(* The reset leaves the CPU some cycles into the first, odd, frame.        *)
Init ==
    /\ \E d \in 0 .. LastDot :
          ppu = [scanline |-> 0, cycle |-> d, frame_odd |-> TRUE,
                 vertical_blank |-> FALSE, prevent_vbl |-> FALSE,
                 nmi_on |-> FALSE, nmi_flag |-> FALSE,
                 mask |-> FALSE, rendering |-> FALSE,
                 on_at_start |-> FALSE, raced |-> "no", seen |-> 0,
                 enables |-> 0, length |-> FullFrame,
                 dots |-> FullFrame - PostRender * (LastDot + 1) + d]
    /\ prev_nmi_flag = FALSE /\ need_nmi = FALSE /\ prev_need_nmi = FALSE
    /\ irq_flag = FALSE /\ run_irq = FALSE /\ prev_run_irq = FALSE
    /\ disabled = TRUE
    /\ seq = "none" /\ left = 0
    /\ nmis = 0

(* The length of each kind of instruction.  The cycles of a DMA, which run *)
(* the PPU and sample the lines like all others, belong to the plain       *)
(* instruction whose read they delay.                                      *)
Lengths(op) == CASE op = "brk" -> {7}
                 [] op = "rti" -> {6}
                 [] op \in {"cli", "sei", "hlt"} -> {2}
                 [] OTHER -> 2 .. OpCycles

exec ==
    /\ seq = "none"
    /\ seq' \in Opcodes
    /\ left' \in Lengths(seq')
    /\ UNCHANGED <<ppu, prev_nmi_flag, need_nmi, prev_need_nmi, irq_flag,
                   run_irq, prev_run_irq, disabled, nmis>>

(* A CPU cycle's effect on the PPU: two dots, the access, one dot.         *)
run_ppu(p, a) == ppu_exec(access(ppu_exec(ppu_exec(p)), a))

(* The sequences of irq() and op_brk have pushed the return address and    *)
(* choose their vector.                                                    *)
Sequences == {"irq", "nmi", "brk"}
ChoosesVector == seq \in Sequences /\ left = 4

(* end_cpu_cycle's sampling: the NMI line's edge, and the IRQ level while  *)
(* interrupts are enabled.                                                 *)
NmiSampled == need_nmi \/ (~prev_nmi_flag /\ ppu'.nmi_flag)

(* The NMI taken as a level instead of an edge.                            *)
sample_interrupts_level ==
    /\ prev_need_nmi' = (need_nmi /\ ~(seq \in {"brk", "hlt"} /\ left = 1))
    /\ need_nmi' = ((need_nmi \/ ppu'.nmi_flag) /\ ~ChoosesVector)
    /\ prev_nmi_flag' = ppu'.nmi_flag
    /\ prev_run_irq' = (run_irq /\ ~(seq = "hlt" /\ left = 1))
    /\ run_irq' = (irq_flag' /\ ~disabled)

(* The NMI not kept until an instruction ends.                             *)
sample_interrupts_forgets_nmi ==
    /\ prev_need_nmi' = (need_nmi /\ ~(seq \in {"brk", "hlt"} /\ left = 1))
    /\ need_nmi' = (~prev_nmi_flag /\ ppu'.nmi_flag /\ ~ChoosesVector)
    /\ prev_nmi_flag' = ppu'.nmi_flag
    /\ prev_run_irq' = (run_irq /\ ~(seq = "hlt" /\ left = 1))
    /\ run_irq' = (irq_flag' /\ ~disabled)

sample_interrupts ==
    /\ prev_need_nmi' = (need_nmi /\ ~(seq \in {"brk", "hlt"} /\ left = 1))
    /\ need_nmi' = (NmiSampled /\ ~ChoosesVector)
    /\ prev_nmi_flag' = ppu'.nmi_flag
    /\ prev_run_irq' = (run_irq /\ ~(seq = "hlt" /\ left = 1))
    /\ run_irq' = (irq_flag' /\ ~disabled)

(* Where the status register's interrupt flag changes: interrupt entry     *)
(* sets it after its last push, RTI restores it with two cycles to go, CLI *)
(* and SEI (and PLP) change it after their last cycle.                     *)
set_interrupt_flag_late ==
    IF seq \in Sequences /\ left = 1 THEN disabled' = TRUE
    ELSE IF seq = "rti" /\ left = 3 THEN disabled' \in BOOLEAN
    ELSE IF seq = "cli" /\ left = 1 THEN disabled' = FALSE
    ELSE IF seq = "sei" /\ left = 1 THEN disabled' = TRUE
    ELSE UNCHANGED disabled

set_interrupt_flag ==
    IF seq \in Sequences /\ left = 3 THEN disabled' = TRUE
    ELSE IF seq = "rti" /\ left = 3 THEN disabled' \in BOOLEAN
    ELSE IF seq = "cli" /\ left = 1 THEN disabled' = FALSE
    ELSE IF seq = "sei" /\ left = 1 THEN disabled' = TRUE
    ELSE UNCHANGED disabled

(* exec() looks at the samples of the last but one cycle and enters irq(), *)
(* called "nmi" here when there is no IRQ;                                 *)
(* irq() itself is not followed by another look.                           *)
finish_instruction ==
    IF left > 1 THEN left' = left - 1 /\ UNCHANGED seq
    ELSE IF seq \notin {"irq", "nmi"} /\ (prev_run_irq' \/ prev_need_nmi')
    THEN left' = 7 /\ seq' = IF prev_run_irq' THEN "irq" ELSE "nmi"
    ELSE left' = 0 /\ seq' = "none"

StartsVblank(p, q) ==
    q.scanline = NmiScanline /\ q.cycle \in 1 .. 3
        /\ ~(p.scanline = NmiScanline /\ p.cycle > 0)

cpu_cycle ==
    /\ left > 0
    /\ \E a \in IF seq \in Sequences THEN {"other"} ELSE Access :
            ppu' = run_ppu(ppu, a)
    /\ irq_flag' \in IrqLevels
    /\ sample_interrupts
    /\ set_interrupt_flag
    /\ finish_instruction
    /\ LET base == IF StartsVblank(ppu, ppu') THEN 0 ELSE nmis
       IN  nmis' = IF ChoosesVector /\ NmiSampled THEN Count(base) ELSE base

Next == exec \/ cpu_cycle

Spec == Init /\ [][Next]_vars

-----------------------------------------------------------------------------
PpuState ==
    [scanline : -1 .. VblankEnd, cycle : 0 .. LastDot, frame_odd : BOOLEAN,
     vertical_blank : BOOLEAN, prevent_vbl : BOOLEAN, nmi_on : BOOLEAN,
     nmi_flag : BOOLEAN, mask : BOOLEAN, rendering : BOOLEAN,
     on_at_start : BOOLEAN, raced : {"no", "before", "during"}, seen : 0 .. 2,
     enables : 0 .. 2, length : 0 .. FullFrame, dots : 0 .. FullFrame]

TypeOK ==
    /\ ppu \in PpuState
    /\ {prev_nmi_flag, need_nmi, prev_need_nmi, irq_flag, run_irq,
        prev_run_irq, disabled} \subseteq BOOLEAN
    /\ seq \in Opcodes \cup {"irq", "nmi", "none"}
    /\ left \in 0 .. Longest
    /\ nmis \in 0 .. 2

(* The CPU's NMI line is the conjunction of the PPU's vertical blank flag  *)
(* and its enable bit, although five places of nes_ppu.cpp update it; only *)
(* in the first dot of the pre-render line is the flag already down and    *)
(* the line not yet.  prevent_vbl_flag_ never survives into another frame: *)
(* it is set only in the dot before the vertical blank.                    *)
NmiLineFollowsFlag ==
    /\ TypeOK
    /\ ppu.prevent_vbl => ppu.scanline = NmiScanline /\ ppu.cycle = 0
    /\ ppu.vertical_blank /\ ppu.nmi_on => ppu.nmi_flag
    /\ ppu.nmi_flag => /\ ppu.nmi_on
                       /\ \/ ppu.vertical_blank
                          \/ ppu.scanline = -1 /\ ppu.cycle = 0
    /\ ppu.seen <= 1 /\ (ppu.raced = "before" => ppu.seen = 0)

(* No NMI comes from nowhere: one for the start of the vertical blank, if  *)
(* it was enabled and the program did not race with it, and one for each   *)
(* time the program enabled it again.                                      *)
NmiHasCause ==
    nmis <= ppu.enables
                + (IF ppu.on_at_start /\ ppu.raced = "no" THEN 1 ELSE 0)

(* No NMI is lost: if it was enabled as the vertical blank began, and the  *)
(* program did not race with it, it has been taken by the end of the       *)
(* vertical blank, whatever the program was doing.                         *)
NmiNotLost ==
    ppu.scanline = 0 /\ ppu.on_at_start /\ ppu.raced = "no" => nmis >= 1

(* Frames have all their dots, but for the one that odd frames skip while  *)
(* rendering: the picture never drifts against the CPU by more.            *)
FrameLength ==
    \/ ppu.length = FullFrame
    \/ ppu.length = FullFrame - 1 /\ ~ppu.frame_odd

(* irq() is entered for a reason that still holds when it chooses its      *)
(* vector: an NMI that has been served by a BRK in between does not start  *)
(* an IRQ handler without an IRQ.                                          *)
NoSpuriousIrq == seq = "nmi" /\ left >= 4 => need_nmi

(* An interrupt handler is not interrupted by the IRQ that started it:     *)
(* when the sequence of irq() ends, no IRQ is waiting to be taken.         *)
HandlerEntered == seq \in Sequences /\ left <= 1 => disabled /\ ~run_irq

=============================================================================
