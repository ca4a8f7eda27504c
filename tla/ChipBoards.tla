----------------------------- MODULE ChipBoards -----------------------------
(***************************************************************************)
(* The bank switching of boards built around a chip with registers of its  *)
(* own: MMC1, MMC3 and its variants, MMC2 and MMC4, the Namco 108 family,  *)
(* the VRC2 and VRC4, and boards whose interrupt timer is in MapperIrq.    *)
(* The records and the calls are those of module Boards.                   *)
(***************************************************************************)
EXTENDS Boards

NoBanks == [i \in 0 .. 7 |-> 0]
VHAB(n) == M(<<"vertical", "horizontal", "screen_a", "screen_b">>[n + 1])

(* The board's own RAM at $6000, with an access of "rw", "read" or "none". *)
Own(access) == <<"own", access>>

-----------------------------------------------------------------------------
(* MMC1: a serial port.  Five writes bring the five bits of a register,    *)
(* lowest first, and the address of the fifth selects it; a write with bit *)
(* 7 set empties the port and fixes the last bank.  The second of two      *)
(* writes in successive cycles (soon) is ignored, unless it has bit 7 set. *)
Mapper001_members ==
    [shift_count |-> 0, write_buffer |-> 0, wram |-> "rw", chr_mode |-> 0,
     prg_mode |-> 1, slot_select |-> 1, chr_reg0 |-> 0, chr_reg1 |-> 0,
     prg_reg |-> 0, last_chr_reg |-> \hA000]

Mapper001_process_register_write(r, a, val) ==
    CASE Bits(a, 13, 2) = 0 ->
           [r EXCEPT !.slot_select = Bit(val, 2), !.prg_mode = Bit(val, 3),
                     !.chr_mode = Bit(val, 4)]
      [] Bits(a, 13, 2) = 1 -> [r EXCEPT !.last_chr_reg = a, !.chr_reg0 = val]
      [] Bits(a, 13, 2) = 2 -> [r EXCEPT !.last_chr_reg = a, !.chr_reg1 = val]
      [] OTHER -> [r EXCEPT !.prg_reg = Bits(val, 0, 4),
                            !.wram = IF Bit(val, 4) = 1 THEN "none" ELSE "rw"]

Mapper001_update_state(info, s) ==
    LET extra_reg == IF s.last_chr_reg = \hC000 /\ s.chr_mode = 1 THEN s.chr_reg1
                                                                  ELSE s.chr_reg0
        half == IF info.prg = 512 THEN 16 * Bit(extra_reg, 4) ELSE 0
    IN  <<Own(s.wram)>>
        \o (CASE s.prg_mode = 0 -> P2(0, Even(s.prg_reg) + half)
              [] s.slot_select = 1 -> <<P(0, s.prg_reg + half), P(1, 15 + half)>>
              [] OTHER -> <<P(0, half), P(1, s.prg_reg + half)>>)
        \o (IF s.chr_mode = 1 THEN <<C(0, s.chr_reg0), C(1, s.chr_reg1)>>
                              ELSE C2(0, Even(s.chr_reg0)))

Mapper001_reset_keeping_buffer(r) == r
Mapper001_reset_buffer(r) == [r EXCEPT !.shift_count = 0, !.write_buffer = 0]

Mapper001(info, r, a, v, soon) ==
    LET buffer == r.write_buffer \div 2 + 16 * Bit(v, 0)
        reset == v >= 128
        fifth == ~reset /\ r.shift_count = 4
        s == CASE reset -> [Mapper001_reset_buffer(r) EXCEPT !.prg_mode = 1,
                                                             !.slot_select = 1]
               [] fifth -> Mapper001_reset_buffer(
                             Mapper001_process_register_write(r, a, buffer))
               [] OTHER -> [r EXCEPT !.shift_count = @ + 1, !.write_buffer = buffer]
        ignored == soon /\ ~reset
        control == fifth /\ Bits(a, 13, 2) = 0
    IN  Keeping(Latch(16, 4, Rom, {\h8000, \hA000, \hC000, \hC001, \hE000},
                      <<M("screen_a")>> \o Mapper001_update_state(info, r),
                      CASE ignored -> <<>>
                        [] control ->
                             <<M(<<"screen_a", "screen_b", "vertical",
                                   "horizontal">>[Bits(buffer, 0, 2) + 1])>>
                             \o Mapper001_update_state(info, s)
                        [] reset \/ fifth -> Mapper001_update_state(info, s)
                        [] OTHER -> <<>>),
                IF ignored THEN r ELSE s)

-----------------------------------------------------------------------------
(* MMC3 and the boards that derive from it: 118 switches the nametables    *)
(* with the CHR registers, 245 a block of 512 KB.                          *)
PowerOnBanks == [i \in 0 .. 7 |-> <<0, 2, 4, 5, 6, 7, 0, 1>>[i + 1]]

Block(g) == 64 * Bit(g[0], 1)
Mapper245_registers(g) ==
    [g EXCEPT ![6] = Bits(@, 0, 6) + Block(g), ![7] = Bits(@, 0, 6) + Block(g)]

Mapper245_last_page(info, g) == IF info.prg >= 512 THEN 63 + Block(g) ELSE -1
Mapper245_chr_ram(s) == [i \in 1 .. 8 |-> C(i - 1, (i - 1 + 4 * s.chr_mode) % 8)]

Mapper004_members(info) ==
    [current |-> 0, prg_mode |-> 0, chr_mode |-> 0, wram |-> "none",
     registers |-> IF info.mapper = 245 THEN Mapper245_registers(PowerOnBanks)
                                        ELSE PowerOnBanks]

Mapper004_update_prg_mapping(info, s) ==
    LET g == s.registers
        last == IF info.mapper = 245 THEN Mapper245_last_page(info, g) ELSE -1
    IN  IF s.prg_mode = 0 THEN Four(g[6], g[7], last - 1, last)
                          ELSE Four(last - 1, g[7], g[6], last)

(* Two windows of 2 KB and four of 1 KB.                                   *)
TwoAndFour(g, two, four) ==
    C2(two, Even(g[0])) \o C2(two + 2, Even(g[1]))
    \o [i \in 1 .. 4 |-> C(four + i - 1, g[i + 1])]

Mapper004_update_chr_mapping(info, s) ==
    CASE info.mapper = 245 /\ info.chr = 0 -> Mapper245_chr_ram(s)
      [] s.chr_mode = 0 -> TwoAndFour(s.registers, 0, 4)
      [] OTHER -> TwoAndFour(s.registers, 4, 0)

Mapper118_nametables(r, v) ==
    LET page == Bit(v, 7)
        both(i) == <<NT(i, page), NT(i + 1, page)>>
    IN  CASE r.chr_mode = 0 /\ r.current \in {0, 1} -> both(2 * r.current)
          [] r.chr_mode = 1 /\ r.current \in 2 .. 5 -> <<NT(r.current - 2, page)>>
          [] OTHER -> <<>>

Mapper004(info, r, a, v) ==
    LET reg == <<Bits(a, 13, 2), Bit(a, 0)>>
        bank == IF r.current <= 1 THEN Even(v) ELSE v
        written == CASE reg = <<0, 0>> ->
                          [r EXCEPT !.current = Bits(v, 0, 3), !.prg_mode = Bit(v, 6),
                                    !.chr_mode = Bit(v, 7)]
                     [] reg = <<0, 1>> -> [r EXCEPT !.registers[r.current] = bank]
                     [] reg = <<1, 1>> ->
                          [r EXCEPT !.wram = CASE Bit(v, 7) = 0 -> "none"
                                               [] Bit(v, 6) = 1 -> "read"
                                               [] OTHER -> "rw"]
                     [] OTHER -> r
        updates == reg \in {<<0, 0>>, <<0, 1>>, <<1, 1>>}
        s == IF updates /\ info.mapper = 245
             THEN [written EXCEPT !.registers = Mapper245_registers(@)] ELSE written
        update_state(t) == <<Own(t.wram)>> \o Mapper004_update_prg_mapping(info, t)
                           \o Mapper004_update_chr_mapping(info, t)
    IN  Keeping(Latch(8, 1, Rom, {\h8000, \h8001, \hA000, \hA001, \hC001, \hE000},
                      update_state(r) \o <<UnlessFour(M("vertical"))>>,
                      When(info.mapper = 118 /\ reg = <<0, 1>>,
                           Mapper118_nametables(r, v))
                      \o When(updates, update_state(s))
                      \o When(reg = <<1, 0>>, <<UnlessFour(HV(Bit(v, 0)))>>)),
                s)

(* The Namco 108 family.  88 and 154 force a bit of the CHR registers, 95  *)
(* takes the nametables from them, 154 from every write.                   *)
Namco108_registers(info, g) ==
    IF info.mapper \in {88, 154}
    THEN [i \in 0 .. 7 |-> CASE i <= 1 -> Bits(g[i], 0, 6)
                             [] i <= 5 -> IF Bit(g[i], 6) = 1 THEN g[i] ELSE g[i] + 64
                             [] OTHER -> g[i]]
    ELSE g
Namco108_members(info) ==
    [current |-> 0, registers |-> Namco108_registers(info, PowerOnBanks)]

MapperNamco108(info, r, a, v) ==
    LET bank == IF r.current <= 1 THEN Even(v) ELSE v
        banks == Namco108_registers(info, [r.registers EXCEPT ![r.current] = bank])
        update_state(g) ==
          Four(g[6], g[7], -2, -1)
          \o (IF info.mapper = 76 THEN [i \in 1 .. 4 |-> C(i - 1, g[i + 1])]
                                  ELSE TwoAndFour(g, 0, 4))
        select == Bit(a, 0) = 0
    IN  Keeping(Latch(8, IF info.mapper = 76 THEN 2 ELSE 1, Rom, {\h8000, \hC001},
                      <<Hdr>> \o update_state(r.registers),
                      When(info.mapper = 154, <<AB(Bit(v, 6))>>)
                      \o When(~select, update_state(banks))
                      \o When(~select /\ info.mapper = 95,
                              [i \in 1 .. 4 |-> NT(i - 1, Bit(banks[(i - 1) \div 2], 5))])),
                IF select THEN [r EXCEPT !.current = Bits(v, 0, 3)]
                          ELSE [r EXCEPT !.registers = banks])

-----------------------------------------------------------------------------
(* MMC2 (board 9) and MMC4 (board 10): two pages for each half of the      *)
(* pattern tables, chosen by the tile the PPU fetched last.                *)
Mapper009_members == [left_latch |-> 1, right_latch |-> 1, left |-> <<0, 0>>,
                      right |-> <<0, 0>>]
Mapper009_update_chr_mapping(s) ==
    <<C(0, s.left[s.left_latch + 1]), C(1, s.right[s.right_latch + 1])>>

Mapper009(info, r, a, v) ==
    LET reg == Bits(a, 12, 4)
        page == Bits(v, 0, 5)
        s == CASE reg \in {11, 12} -> [r EXCEPT !.left[reg - 10] = page]
               [] reg \in {13, 14} -> [r EXCEPT !.right[reg - 12] = page]
               [] OTHER -> r
    IN  Keeping(Latch(IF info.mapper = 10 THEN 16 ELSE 8, 4, {<<\hA000, \hFFFF>>},
                      {\hA000, \hB000, \hC000, \hD000, \hE000, \hF000},
                      (IF info.mapper = 10 THEN <<P(1, -1)>>
                       ELSE <<P(1, -3), P(2, -2), P(3, -1)>>)
                      \o <<Hdr>> \o Mapper009_update_chr_mapping(r),
                      CASE reg = 10 -> <<P(0, Bits(v, 0, 4))>>
                        [] reg = 15 -> <<HV(Bit(v, 0))>>
                        [] OTHER -> Mapper009_update_chr_mapping(s)),
                s)

(* The PPU fetches from address a: FD tiles set a latch to 0, FE tiles to  *)
(* 1.  On board 9 only the first row of the left tiles counts.             *)
Mapper009_latches(info, r, a) ==
    LET row == IF info.mapper = 10 THEN 0 .. 7 ELSE {0}
    IN  CASE \E i \in row : a = \h0FD8 + i -> [r EXCEPT !.left_latch = 0]
          [] \E i \in row : a = \h0FE8 + i -> [r EXCEPT !.left_latch = 1]
          [] a \in \h1FD8 .. \h1FDF -> [r EXCEPT !.right_latch = 0]
          [] a \in \h1FE8 .. \h1FEF -> [r EXCEPT !.right_latch = 1]
          [] OTHER -> r

-----------------------------------------------------------------------------
(* VRC2 and VRC4 (21, 22, 23, 25).  The variants wire different address    *)
(* lines to the two register select inputs; without a submapper the lines  *)
(* of the possible variants are taken together.                            *)
detect_variant(info) ==
    LET sub == info.submapper
    IN  CASE info.mapper = 21 -> IF sub = 2 THEN "VRC4C" ELSE "VRC4A"
          [] info.mapper = 23 -> IF sub = 2 THEN "VRC4E" ELSE "VRC2B"
          [] info.mapper = 25 -> CASE sub = 2 -> "VRC4D" [] sub = 3 -> "VRC2C"
                                   [] OTHER -> "VRC4B"
          [] OTHER -> "VRC2A"
use_heuristics(info) == info.submapper = 0 /\ info.mapper # 22
IsVrc2(info) == detect_variant(info) \in {"VRC2A", "VRC2B", "VRC2C"}
use_microwire(info) ==
    /\ info.mapper \in {21, 22, 23, 25}
    /\ ~use_heuristics(info) /\ IsVrc2(info) /\ ~info.battery /\ info.work_ram = 0

(* The address bits wired to A0 and to A1.                                 *)
Lines(info) ==
    LET variant == detect_variant(info)
    IN  IF use_heuristics(info)
        THEN CASE variant \in {"VRC2C", "VRC4B", "VRC4D"} -> <<{1, 3}, {0, 2}>>
               [] variant \in {"VRC4A", "VRC4C"} -> <<{1, 6}, {2, 7}>>
               [] OTHER -> <<{0, 2}, {1, 3}>>
        ELSE CASE variant \in {"VRC2A", "VRC2C", "VRC4B"} -> <<{1}, {0}>>
               [] variant = "VRC4D" -> <<{3}, {2}>>
               [] variant = "VRC4A" -> <<{1}, {2}>>
               [] variant = "VRC4C" -> <<{6}, {7}>>
               [] variant = "VRC2B" -> <<{0}, {1}>>
               [] OTHER -> <<{2}, {3}>>
translate_address(info, a) ==
    LET line(k) == IF \E i \in Lines(info)[k] : Bit(a, i) = 1 THEN 1 ELSE 0
    IN  2 * line(2) + line(1)

MapperVRC2_4_members == [prg_reg |-> <<0, 0>>, prg_mode |-> 0, chr_low |-> NoBanks,
                         chr_high |-> NoBanks, latch |-> 0]

MapperVRC2_4(info, r, a, v) ==
    LET reg == Bits(a, 12, 4)
        low == translate_address(info, a)
        bank == 2 * (reg - 11) + low \div 2
        mirrors == reg = 9 /\ (IsVrc2(info) \/ low <= 1)
        wide == use_heuristics(info) \/ ~IsVrc2(info)
        s == CASE a < \h8000 -> [r EXCEPT !.latch = Bit(v, 0)]
               [] reg = 8 -> [r EXCEPT !.prg_reg[1] = Bits(v, 0, 5)]
               [] reg = 9 /\ ~mirrors -> [r EXCEPT !.prg_mode = Bit(v, 1)]
               [] reg = 10 -> [r EXCEPT !.prg_reg[2] = Bits(v, 0, 5)]
               [] reg \in 11 .. 14 /\ low % 2 = 0 ->
                    [r EXCEPT !.chr_low[bank] = Bits(v, 0, 4)]
               [] reg \in 11 .. 14 -> [r EXCEPT !.chr_high[bank] = Bits(v, 0, 5)]
               [] OTHER -> r
        update_state(t) ==
          LET page(i) == t.chr_low[i] + 16 * t.chr_high[i]
              shift == IF detect_variant(info) = "VRC2A" THEN 2 ELSE 1
          IN  [i \in 1 .. 8 |-> C(i - 1, page(i - 1) \div shift)]
              \o (IF t.prg_mode = 0 THEN Four(t.prg_reg[1], t.prg_reg[2], -2, -1)
                                    ELSE Four(-2, t.prg_reg[2], t.prg_reg[1], -1))
    IN  Keeping(Latch(8, 1,
                      IF use_microwire(info) THEN {<<\h6000, \hFFFF>>} ELSE Rom,
                      {\h8000, \h9000, \h908A, \hA000, \hB041, \hE0C6}
                      \cup IF use_microwire(info) THEN {\h6000} ELSE {},
                      <<Hdr>> \o update_state(r),
                      When(mirrors, <<VHAB(Bits(v, 0, IF wide THEN 2 ELSE 1))>>)
                      \o When(a >= \h8000, update_state(s))),
                s)

-----------------------------------------------------------------------------
(* Boards whose timers are in MapperIrq.                                   *)
SetNibbleOf(bank, v, upper) ==
    IF upper THEN (bank % 16) + 16 * Bits(v, 0, 4) ELSE 16 * Bits(bank, 4, 4) + Bits(v, 0, 4)

Mapper018_members == [prg |-> [i \in 0 .. 2 |-> 0], chr |-> NoBanks]
Mapper018(r, a, v) ==
    LET reg == 2 * Bits(a, 12, 4) + Bit(a, 1)
        upper == Bit(a, 0) = 1
        s == CASE reg \in 16 .. 18 -> [r EXCEPT !.prg[reg - 16] = SetNibbleOf(@, v, upper)]
               [] reg \in 20 .. 27 -> [r EXCEPT !.chr[reg - 20] = SetNibbleOf(@, v, upper)]
               [] OTHER -> r
    IN  Keeping(Latch(8, 1, Rom, {\h8000, \h8003, \h9001, \hA002, \hD003, \hE000, \hF002},
                      <<Hdr, P(3, -1)>>,
                      CASE reg \in 16 .. 18 -> <<P(reg - 16, s.prg[reg - 16])>>
                        [] reg \in 20 .. 27 -> <<C(reg - 20, s.chr[reg - 20])>>
                        [] reg = 31 /\ ~upper ->
                             <<M(<<"horizontal", "vertical", "screen_a",
                                   "screen_b">>[Bits(v, 0, 2) + 1])>>
                        [] OTHER -> <<>>),
                s)
Mapper035(a, v) ==
    LET reg == <<Bits(a, 12, 4), Bits(a, 0, 3)>>
    IN  Latch(8, 1, Rom, {\h8000, \h8003, \h9000, \h9007, \hC002, \hD001},
              <<Hdr, P(3, -1)>>,
              CASE reg[1] = 8 /\ reg[2] <= 3 -> <<P(reg[2], v)>>
                [] reg[1] = 9 -> <<C(reg[2], v)>>
                [] reg = <<13, 1>> -> <<HV(Bit(v, 0))>>
                [] OTHER -> <<>>)
Mapper073(a, v) ==
    Latch(16, 8, Rom, {\h8000, \hC000, \hF000}, <<Hdr, P(1, -1), C(0, 0)>>,
          When(Bits(a, 12, 4) = 15, <<P(0, Bits(v, 0, 3))>>))
Mapper117(a, v) ==
    Latch(8, 1, Rom, {\h8000, \h8003, \hA000, \hA007, \hC001, \hD000},
          <<Hdr>> \o Four(-4, -3, -2, -1),
          CASE a \in \h8000 .. \h8003 -> <<P(Bits(a, 0, 2), v)>>
            [] a \in \hA000 .. \hA007 -> <<C(Bits(a, 0, 3), v)>>
            [] a = \hD000 -> <<HV(Bit(v, 0))>>
            [] OTHER -> <<>>)

-----------------------------------------------------------------------------
(* What the factory makes: a board of this module or of Boards.            *)
ChipNumbers ==
    {1, 4, 9, 10, 18, 21, 22, 23, 25, 35, 73, 76, 88, 95, 117, 118, 154, 206, 245}

create_members(info) ==
    LET n == info.mapper
    IN  CASE n = 1 -> Mapper001_members
          [] n \in {4, 118, 245} -> Mapper004_members(info)
          [] n \in {9, 10} -> Mapper009_members
          [] n = 18 -> Mapper018_members
          [] n \in {21, 22, 23, 25} -> MapperVRC2_4_members
          [] n \in {76, 88, 95, 154, 206} -> Namco108_members(info)
          [] OTHER -> members(info)

(* b is the byte the ROM has at the address written to; soon, that the     *)
(* write comes in the cycle after another.                                 *)
create_mapper(info, r, a, v, b, soon) ==
    LET n == info.mapper
    IN  CASE n = 1 -> Mapper001(info, r, a, v, soon)
          [] n \in {4, 118, 245} -> Mapper004(info, r, a, v)
          [] n \in {9, 10} -> Mapper009(info, r, a, v)
          [] n = 18 -> Mapper018(r, a, v)
          [] n \in {21, 22, 23, 25} -> MapperVRC2_4(info, r, a, v)
          [] n = 35 -> Mapper035(a, v)
          [] n = 73 -> Mapper073(a, v)
          [] n = 117 -> Mapper117(a, v)
          [] n \in {76, 88, 95, 154, 206} -> MapperNamco108(info, r, a, v)
          [] OTHER -> board(info, r, a, v, b)

=============================================================================
