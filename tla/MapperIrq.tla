----------------------------- MODULE MapperIrq ------------------------------
(***************************************************************************)
(* The interrupt timers of the cartridge boards, as operators on a record. *)
(* Each board has a clock (process_cpu_clock, or the rising edges of the   *)
(* PPU's address line A12) and the set of results its register writes can  *)
(* have.  The field irq is the CPU's EXTERNAL interrupt source, which only *)
(* the board sets and clears.  A nibble has Nibble values instead of 16;   *)
(* bytes and words follow from it.                                         *)
(***************************************************************************)
EXTENDS Integers, Sequences

CONSTANTS
    Nibble,          \* 16
    ScanlineDots,    \* VrcIrq's prescaler period; 341
    PrescalerLimit   \* values of the int16_t prescaler are below it; 2^15

ASSUME WidthAssumption ==
    /\ Nibble \in Nat /\ Nibble > 1 /\ Nibble % 2 = 0
    /\ ScanlineDots \in Nat /\ ScanlineDots > 3
    /\ PrescalerLimit \in Nat /\ PrescalerLimit > 2 * ScanlineDots

Byte == Nibble * Nibble
Word == Byte * Byte
Half == Word \div 2              \* 0x8000
Nibbles == 0 .. Nibble - 1
Bytes == 0 .. Byte - 1
NibbleWeight == [i \in 0 .. 3 |-> CASE i = 0 -> 1 [] i = 1 -> Nibble
                                    [] i = 2 -> Byte [] i = 3 -> Byte * Nibble]
FirstCount == NibbleWeight[3]    \* 0x1000, 4096
LevelStart == (Half \div 4) * 3  \* 0x6000

SetLow(word, v) == word - (word % Byte) + v
SetHigh(word, v) == (word % Byte) + v * Byte
SetNibble(word, i, v) ==
    word + (v - ((word \div NibbleWeight[i]) % Nibble)) * NibbleWeight[i]

(* The A12 filter: an edge counts after the line was low for so many CPU   *)
(* cycles.  low is the number of cycles since A12 was first seen low, at   *)
(* most the filter's; -1 stands for a12_low_clock_ = 0.                    *)
A12Filter == 3
NotLow == -1

(* A board after init.  flag and size are the board's further mode         *)
(* members, on_ack the enable that an acknowledge restores.                *)
timer_init(board) ==
    [board |-> board, counter |-> 0, reload |-> 0, enabled |-> FALSE,
     flag |-> FALSE, size |-> 0, on_ack |-> FALSE, prescaler |-> 0,
     low |-> NotLow, irq |-> FALSE]

(* set_irq_source(EXTERNAL) and clear_irq_source(EXTERNAL).                *)
Raise(m) == [m EXCEPT !.irq = TRUE]
Clear(m) == [m EXCEPT !.irq = FALSE]

-----------------------------------------------------------------------------
(* Boards clocked by the CPU.                                              *)

Mapper006_clock(m) ==
    LET c == (m.counter + 1) % Word
        n == [m EXCEPT !.counter = c]
    IN  CASE ~m.enabled -> m
          [] m.enabled /\ c = 0 -> Raise([n EXCEPT !.enabled = FALSE])
          [] OTHER -> n

Mapper006_writes(m) ==
    {Clear([m EXCEPT !.enabled = FALSE])}
    \cup {Clear([m EXCEPT !.counter = SetLow(@, v)]) : v \in Bytes}
    \cup {Clear([m EXCEPT !.counter = SetHigh(@, v), !.enabled = TRUE]) : v \in Bytes}

Mapper016_clock(m) ==
    LET n == [m EXCEPT !.counter = (@ - 1) % Word]
    IN  CASE ~m.enabled -> m
          [] m.enabled /\ m.counter = 0 -> Raise(n)
          [] OTHER -> n

(* Submapper 4 of board 16 writes the counter directly; all others have a  *)
(* reload value that the enabling write copies.                            *)
Mapper016_writes(m) ==
    IF m.board = "016.4"
    THEN {Clear([m EXCEPT !.enabled = e]) : e \in BOOLEAN}
         \cup {[m EXCEPT !.counter = SetLow(@, v)] : v \in Bytes}
         \cup {[m EXCEPT !.counter = SetHigh(@, v)] : v \in Bytes}
    ELSE {Clear([m EXCEPT !.enabled = e, !.counter = m.reload]) : e \in BOOLEAN}
         \cup {[m EXCEPT !.reload = SetLow(@, v)] : v \in Bytes}
         \cup {[m EXCEPT !.reload = SetHigh(@, v)] : v \in Bytes}

(* IRQ_MASKS: the counter is the low 16, 12, 8 or 4 bits.                  *)
MaskValues(size) == <<Word, NibbleWeight[3], Byte, Nibble>>[size + 1]

Mapper018_clock(m) ==
    LET values == MaskValues(m.size)
        counter == ((m.counter % values) - 1) % Word
        n == [m EXCEPT !.counter = @ - (@ % values) + (counter % values)]
    IN  CASE ~m.enabled -> m
          [] m.enabled /\ counter = 0 -> Raise(n)
          [] OTHER -> n

Mapper018_control(m, enabled, size) == Clear([m EXCEPT !.enabled = enabled, !.size = size])

Mapper018_writes(m) ==
    {[m EXCEPT !.reload = SetNibble(@, i, v)] : i \in 0 .. 3, v \in Nibbles}
    \cup {Clear([m EXCEPT !.counter = m.reload])}
    \cup {Mapper018_control(m, e, s) : e \in BOOLEAN, s \in 0 .. 3}

(* The counter's top bit enables it; it stops at 0x7FFF.                   *)
Mapper019_clock(m) ==
    LET n == [m EXCEPT !.counter = @ + 1]
    IN  CASE m.counter < Half \/ m.counter = Word - 1 -> m
          [] n.counter = Word - 1 -> Raise(n)
          [] OTHER -> n

Mapper019_writes(m) ==
    {Clear([m EXCEPT !.counter = SetLow(@, v)]) : v \in Bytes}
    \cup {Clear([m EXCEPT !.counter = SetHigh(@, v)]) : v \in Bytes}

Mapper40_clock(m) ==
    LET n == [m EXCEPT !.counter = @ - 1]
    IN  CASE m.counter = 0 -> m
          [] m.counter = 1 -> Raise(n)
          [] OTHER -> n

Mapper40_writes(m) ==
    {Clear([m EXCEPT !.counter = 0]), [m EXCEPT !.counter = FirstCount]}

(* The only board whose line falls by itself.                              *)
Mapper42_clock(m) ==
    LET n == [m EXCEPT !.counter = (@ + 1) % Half]
    IN  CASE ~m.enabled -> m
          [] m.enabled /\ n.counter >= LevelStart -> Raise(n)
          [] OTHER -> Clear(n)

Mapper42_writes(m) ==
    {[m EXCEPT !.enabled = TRUE], Clear([m EXCEPT !.enabled = FALSE, !.counter = 0])}

Mapper43_clock(m) ==
    LET n == [m EXCEPT !.counter = @ + 1]
    IN  CASE ~m.enabled -> m
          [] m.enabled /\ n.counter >= FirstCount -> Raise([n EXCEPT !.enabled = FALSE])
          [] OTHER -> n

Mapper43_writes(m) ==
    {Clear([m EXCEPT !.enabled = e, !.counter = 0]) : e \in BOOLEAN}

Mapper50_clock(m) ==
    LET n == [m EXCEPT !.counter = (@ + 1) % Word]
    IN  CASE ~m.enabled -> m
          [] m.enabled /\ n.counter = FirstCount -> Raise([n EXCEPT !.enabled = FALSE])
          [] OTHER -> n

Mapper50_writes(m) ==
    {[m EXCEPT !.enabled = TRUE], Clear([m EXCEPT !.enabled = FALSE, !.counter = 0])}

Mapper065_clock(m) ==
    LET n == [m EXCEPT !.counter = (@ - 1) % Word]
    IN  CASE ~m.enabled -> m
          [] m.enabled /\ n.counter = 0 -> Raise([n EXCEPT !.enabled = FALSE])
          [] OTHER -> n

Mapper065_writes(m) ==
    {Clear([m EXCEPT !.enabled = e]) : e \in BOOLEAN}
    \cup {Clear([m EXCEPT !.counter = m.reload])}
    \cup {[m EXCEPT !.reload = SetLow(@, v)] : v \in Bytes}
    \cup {[m EXCEPT !.reload = SetHigh(@, v)] : v \in Bytes}

Mapper067_clock(m) ==
    LET n == [m EXCEPT !.counter = (@ - 1) % Word]
    IN  CASE ~m.enabled -> m
          [] m.enabled /\ n.counter = Word - 1 -> Raise([n EXCEPT !.enabled = FALSE])
          [] OTHER -> n

(* flag is irq_latch_: the next write to $C800 is the low byte.            *)
Mapper067_writes(m) ==
    {[m EXCEPT !.counter = IF m.flag THEN SetLow(@, v) ELSE SetHigh(@, v),
               !.flag = ~@] : v \in Bytes}
    \cup {Clear([m EXCEPT !.enabled = e, !.flag = FALSE]) : e \in BOOLEAN}

(* flag is irq_counter_enabled_.                                           *)
Mapper069_clock(m) ==
    LET n == [m EXCEPT !.counter = (@ - 1) % Word]
    IN  CASE ~m.flag -> m
          [] m.flag /\ n.counter = Word - 1 /\ m.enabled -> Raise(n)
          [] OTHER -> n

Mapper069_control(m, enabled, counter_enabled) ==
    Clear([m EXCEPT !.enabled = enabled, !.flag = counter_enabled])

Mapper069_writes(m) ==
    {Mapper069_control(m, e, f) : e, f \in BOOLEAN}
    \cup {[m EXCEPT !.counter = SetLow(@, v)] : v \in Bytes}
    \cup {[m EXCEPT !.counter = SetHigh(@, v)] : v \in Bytes}

(* flag is small_counter_: only the low byte counts and is reloaded.       *)
Mapper073_clock(m) ==
    LET low == (m.counter + 1) % Byte
        word == (m.counter + 1) % Word
    IN  CASE ~m.enabled -> m
          [] m.enabled /\ m.flag /\ low = 0 ->
                 Raise([m EXCEPT !.counter = SetLow(@, m.reload % Byte)])
          [] m.enabled /\ m.flag /\ low # 0 -> [m EXCEPT !.counter = SetLow(@, low)]
          [] m.enabled /\ ~m.flag /\ word = 0 -> Raise([m EXCEPT !.counter = m.reload])
          [] OTHER -> [m EXCEPT !.counter = word]

Mapper073_control(m, enabled, small, on_ack) ==
    Clear([m EXCEPT !.enabled = enabled, !.flag = small, !.on_ack = on_ack,
                    !.counter = IF enabled THEN m.reload ELSE @])

Mapper073_writes(m) ==
    {[m EXCEPT !.reload = SetNibble(@, i, v)] : i \in 0 .. 3, v \in Nibbles}
    \cup {Mapper073_control(m, e, f, a) : e, f, a \in BOOLEAN}
    \cup {Clear([m EXCEPT !.enabled = m.on_ack])}

(* The prescaler is an int16_t: in cycle mode it gains more than it loses  *)
(* and wraps.                                                              *)
Int16(p) == ((p + PrescalerLimit) % (2 * PrescalerLimit)) - PrescalerLimit

VrcIrq_process_cpu_clock_resetting(m) ==
    LET p == Int16(m.prescaler - 3)
    IN  CASE ~m.enabled -> m
          [] m.enabled /\ ~m.flag /\ p > 0 -> [m EXCEPT !.prescaler = p]
          [] m.enabled /\ (m.flag \/ p <= 0) /\ m.counter = Byte - 1 ->
                 Raise([m EXCEPT !.counter = m.reload, !.prescaler = ScanlineDots])
          [] OTHER -> [m EXCEPT !.counter = @ + 1, !.prescaler = ScanlineDots]

(* VRC2/4, VRC6 and board 252; flag is cycle_mode_.                        *)
VrcIrq_process_cpu_clock(m) ==
    LET p == Int16(m.prescaler - 3)
    IN  CASE ~m.enabled -> m
          [] m.enabled /\ ~m.flag /\ p > 0 -> [m EXCEPT !.prescaler = p]
          [] m.enabled /\ (m.flag \/ p <= 0) /\ m.counter = Byte - 1 ->
                 Raise([m EXCEPT !.counter = m.reload, !.prescaler = Int16(p + ScanlineDots)])
          [] OTHER -> [m EXCEPT !.counter = @ + 1, !.prescaler = Int16(p + ScanlineDots)]

VrcIrq_set_control_value(m, on_ack, enabled, cycle_mode) ==
    Clear([m EXCEPT !.on_ack = on_ack, !.enabled = enabled, !.flag = cycle_mode,
                    !.counter = IF enabled THEN m.reload ELSE @,
                    !.prescaler = IF enabled THEN ScanlineDots ELSE @])

VrcIrq_writes(m) ==
    {[m EXCEPT !.reload = v] : v \in Bytes}
    \cup {VrcIrq_set_control_value(m, a, e, c) : a, e, c \in BOOLEAN}
    \cup {Clear([m EXCEPT !.enabled = m.on_ack])}

-----------------------------------------------------------------------------
(* Boards clocked by the rising edges of A12.                              *)

(* flag is irq_reload_; board "004A" has force_mmc3_rev_a_irqs_.           *)
Mapper004_edge(m) ==
    LET c == IF m.counter = 0 \/ m.flag THEN m.reload ELSE m.counter - 1
        n == [m EXCEPT !.counter = c, !.flag = FALSE]
        due == c = 0 /\ (m.board = "004A" => m.counter > 0 \/ m.flag)
    IN  IF due /\ m.enabled THEN Raise(n) ELSE n

Mapper004_writes(m) ==
    {[m EXCEPT !.reload = v] : v \in Bytes}
    \cup {[m EXCEPT !.counter = 0, !.flag = TRUE], Clear([m EXCEPT !.enabled = FALSE]),
          [m EXCEPT !.enabled = TRUE]}

Mapper035_edge(m) ==
    LET n == [m EXCEPT !.counter = (@ - 1) % Byte]
    IN  CASE ~m.enabled -> m
          [] m.enabled /\ n.counter = 0 -> Raise([n EXCEPT !.enabled = FALSE])
          [] OTHER -> n

Mapper035_writes(m) ==
    {Clear([m EXCEPT !.enabled = FALSE]), [m EXCEPT !.enabled = TRUE]}
    \cup {[m EXCEPT !.counter = v] : v \in Bytes}

(* flag is irq_enabled_alt_.                                               *)
Mapper117_edge(m) ==
    LET n == [m EXCEPT !.counter = @ - 1]
    IN  CASE ~m.enabled \/ ~m.flag \/ m.counter = 0 -> m
          [] m.enabled /\ m.flag /\ m.counter = 1 -> Raise([n EXCEPT !.flag = FALSE])
          [] OTHER -> n

Mapper117_writes(m) ==
    {[m EXCEPT !.reload = v] : v \in Bytes}
    \cup {Clear(m), [m EXCEPT !.counter = m.reload, !.flag = TRUE]}
    \cup {Clear([m EXCEPT !.enabled = e]) : e \in BOOLEAN}

-----------------------------------------------------------------------------
CpuClocked == {"006", "016", "016.4", "018", "019", "40", "42", "43", "50", "065",
               "067", "069", "073", "VRC"}
A12Clocked == {"004", "004A", "035", "117"}
TimerBoards == CpuClocked \cup A12Clocked

(* The mapper's part of a CPU cycle; a cycle lengthens the time A12 has    *)
(* been low.                                                               *)
timer_clock(m) ==
    CASE m.board = "006" -> Mapper006_clock(m)
      [] m.board \in {"016", "016.4"} -> Mapper016_clock(m)
      [] m.board = "018" -> Mapper018_clock(m)
      [] m.board = "019" -> Mapper019_clock(m)
      [] m.board = "40" -> Mapper40_clock(m)
      [] m.board = "42" -> Mapper42_clock(m)
      [] m.board = "43" -> Mapper43_clock(m)
      [] m.board = "50" -> Mapper50_clock(m)
      [] m.board = "065" -> Mapper065_clock(m)
      [] m.board = "067" -> Mapper067_clock(m)
      [] m.board = "069" -> Mapper069_clock(m)
      [] m.board = "073" -> Mapper073_clock(m)
      [] m.board = "VRC" -> VrcIrq_process_cpu_clock(m)
      [] OTHER -> [m EXCEPT !.low = IF @ \in {NotLow, A12Filter} THEN @ ELSE @ + 1]

timer_writes(m) ==
    CASE m.board = "006" -> Mapper006_writes(m)
      [] m.board \in {"016", "016.4"} -> Mapper016_writes(m)
      [] m.board = "018" -> Mapper018_writes(m)
      [] m.board = "019" -> Mapper019_writes(m)
      [] m.board = "40" -> Mapper40_writes(m)
      [] m.board = "42" -> Mapper42_writes(m)
      [] m.board = "43" -> Mapper43_writes(m)
      [] m.board = "50" -> Mapper50_writes(m)
      [] m.board = "065" -> Mapper065_writes(m)
      [] m.board = "067" -> Mapper067_writes(m)
      [] m.board = "069" -> Mapper069_writes(m)
      [] m.board = "073" -> Mapper073_writes(m)
      [] m.board = "VRC" -> VrcIrq_writes(m)
      [] m.board \in {"004", "004A"} -> Mapper004_writes(m)
      [] m.board = "035" -> Mapper035_writes(m)
      [] m.board = "117" -> Mapper117_writes(m)
      [] OTHER -> {}

(* is_a12_rising_edge, with the address's A12.                             *)
IsEdge(m, a12) == a12 /\ m.low >= A12Filter

notify_vram_address_change(m, a12) ==
    LET n == [m EXCEPT !.low = IF a12 THEN NotLow ELSE IF @ = NotLow THEN 0 ELSE @]
    IN  CASE ~IsEdge(m, a12) -> n
          [] IsEdge(m, a12) /\ m.board \in {"004", "004A"} -> Mapper004_edge(n)
          [] IsEdge(m, a12) /\ m.board = "035" -> Mapper035_edge(n)
          [] OTHER -> Mapper117_edge(n)

-----------------------------------------------------------------------------
(* The countdown each board stands for, in closed form: ticks until the    *)
(* interrupt as long as no register is written, 0 for never.               *)
WrapZero(c, values) == IF c = 0 THEN values ELSE c

TicksLeft(m) ==
    CASE m.board = "006" -> IF m.enabled THEN Word - m.counter ELSE 0
      [] m.board \in {"016", "016.4", "067"} -> IF m.enabled THEN m.counter + 1 ELSE 0
      [] m.board = "018" ->
             IF m.enabled THEN WrapZero(m.counter % MaskValues(m.size), MaskValues(m.size)) ELSE 0
      [] m.board = "019" -> IF m.counter >= Half THEN Word - 1 - m.counter ELSE 0
      [] m.board = "40" -> m.counter
      [] m.board = "42" ->
             IF m.enabled THEN WrapZero((LevelStart - m.counter) % Half, Half) ELSE 0
      [] m.board = "43" -> IF m.enabled THEN FirstCount - m.counter ELSE 0
      [] m.board = "50" ->
             IF m.enabled THEN WrapZero((FirstCount - m.counter) % Word, Word) ELSE 0
      [] m.board = "065" -> IF m.enabled THEN WrapZero(m.counter, Word) ELSE 0
      [] m.board = "069" -> IF m.enabled /\ m.flag THEN m.counter + 1 ELSE 0
      [] m.board = "073" ->
             CASE ~m.enabled -> 0
               [] m.enabled /\ m.flag -> Byte - (m.counter % Byte)
               [] OTHER -> Word - m.counter
      [] m.board \in {"004", "004A"} ->
             CASE ~m.enabled -> 0
               [] m.enabled /\ (m.flag \/ m.counter = 0) ->
                      IF m.board = "004A" /\ ~m.flag /\ m.reload = 0 THEN 0 ELSE m.reload + 1
               [] OTHER -> m.counter
      [] m.board = "035" -> IF m.enabled THEN WrapZero(m.counter, Byte) ELSE 0
      [] m.board = "117" -> IF m.enabled /\ m.flag THEN m.counter ELSE 0
      [] OTHER -> 0

(* Ticks from one interrupt to the next, 0 for a single shot.              *)
PeriodTicks(m) ==
    CASE m.board \in {"016", "016.4", "069"} -> Word
      [] m.board = "018" -> MaskValues(m.size)
      [] m.board = "42" -> Half
      [] m.board = "073" -> IF m.flag THEN Byte - (m.reload % Byte) ELSE Word - m.reload
      [] m.board = "004" -> m.reload + 1
      [] m.board = "004A" -> IF m.reload = 0 THEN 0 ELSE m.reload + 1
      [] OTHER -> 0

=============================================================================
