------------------------------- MODULE Boards -------------------------------
(***************************************************************************)
(* The bank switching of the simple cartridge boards (systems/nes/mappers).*)
(* A board is a record: its page sizes in KB, whether init switches on bus *)
(* conflicts, the register ranges it declares, what init does and what     *)
(* write_register does with address a and value v.  What a board does to   *)
(* the page tables is a sequence of calls of BaseMapper's functions; the   *)
(* tables themselves are in NesCartridge.                                  *)
(*                                                                         *)
(*   prg, chr   page sizes                                                 *)
(*   bus        init calls set_has_bus_conflicts(true)                     *)
(*   range      the write ranges init declares                             *)
(*   decodes    addresses of every case write_register tells apart         *)
(*   start      what init does to the page tables                          *)
(*   write      what write_register does to them                           *)
(*   then       the board's own members after write_register               *)
(***************************************************************************)
EXTENDS Integers, Sequences

LOCAL INSTANCE Bitwise

(* n bits of x from bit lo upwards.                                        *)
Bits(x, lo, n) == (x \div 2^lo) % 2^n
Bit(x, i) == Bits(x, i, 1)
Even(x) == x - (x % 2)
U16(x) == x % 65536

(* The calls.                                                              *)
P(slot, page) == <<"prg", slot, U16(page)>>
P2(slot, page) == <<P(slot, page), P(slot + 1, page + 1)>>
C(slot, page) == <<"chr", slot, U16(page)>>
C2(slot, page) == <<C(slot, page), C(slot + 1, page + 1)>>
M(type) == <<"mirror", type>>
NT(index, table) == <<"nametable", index, table>>
Window(page) == <<"window", page>>
OwnRam == <<"own", "rw">>
ChrOff == <<"chr_off">>
ChrRam(slot, page) == <<"chr_ram", slot, page>>

Hdr == M("header")
Both(page) == <<P(0, page), P(1, page)>>
Pair(page) == P2(0, Even(page))
HV(bit) == M(IF bit = 1 THEN "horizontal" ELSE "vertical")
VH(bit) == HV(1 - bit)
AB(bit) == M(IF bit = 1 THEN "screen_b" ELSE "screen_a")
UnlessFour(mirror) == <<"mirror_unless_four", mirror[2]>>
When(condition, calls) == IF condition THEN calls ELSE <<>>

Rom == {<<\h8000, \hFFFF>>}
AnyRom == {\h8000, \hFFFF}

(* A board without members of its own.                                     *)
Latch(prg, chr, range, decodes, start, write) ==
    [prg |-> prg, chr |-> chr, bus |-> FALSE, range |-> range,
     decodes |-> decodes, start |-> start, write |-> write, then |-> <<>>]
Conflicting(board) == [board EXCEPT !.bus = TRUE]
Keeping(board, then) == [board EXCEPT !.then = then]

-----------------------------------------------------------------------------
(* Boards with one PRG window of 32 KB.                                    *)
Mapper003(v) == Latch(32, 8, Rom, AnyRom, <<Hdr, P(0, 0), C(0, 0)>>, <<C(0, v)>>)
Mapper007(v) ==
    LET w(x) == <<P(0, Bits(x, 0, 4)), AB(Bit(x, 4))>>
    IN  Latch(32, 8, Rom, AnyRom, <<C(0, 0)>> \o w(0), w(v))
(* Board 144 is this one with the ROM byte's lowest bit set in the value.  *)
Mapper011(v) ==
    Conflicting(Latch(32, 8, Rom, AnyRom, <<P(0, 0), C(0, 0)>>,
                      <<P(0, Bits(v, 0, 4)), C(0, Bits(v, 4, 4))>>))
Mapper013(v) == Latch(32, 4, Rom, AnyRom, <<P(0, 0), C(0, 0), M("vertical")>>,
                      <<C(1, Bits(v, 0, 2))>>)
Mapper034(v) == Latch(32, 8, Rom, AnyRom, <<Hdr, P(0, 0), C(0, 0)>>, <<P(0, v)>>)
Mapper038(v) == Latch(32, 8, {<<\h7000, \h7FFF>>}, {\h7000},
                      <<Hdr, P(0, 0), C(0, 0)>>,
                      <<P(0, Bits(v, 0, 2)), C(0, Bits(v, 2, 2))>>)
Mapper039(v) == Latch(32, 8, Rom, AnyRom, <<Hdr, P(0, 0), C(0, 0)>>, <<P(0, v)>>)
Mapper041(r, a, v) ==
    LET outer == [prg |-> Bits(a, 0, 3), chr |-> (r.chr % 4) + 4 * Bits(a, 3, 2)]
        inner == [r EXCEPT !.chr = 4 * (r.chr \div 4) + Bits(v, 0, 2)]
        low == a <= \h67FF
    IN  Keeping(
          Latch(32, 8, {<<\h6000, \h67FF>>} \cup Rom,
                {\h6000, \h6004, \h601C, \h6027, \h8000},
                <<Hdr, P(0, 0), C(0, 0), M("vertical")>>,
                IF low THEN <<P(0, outer.prg), C(0, outer.chr), HV(Bit(a, 5))>>
                ELSE When(r.prg >= 4, <<C(0, inner.chr)>>)),
          IF low THEN outer ELSE IF r.prg >= 4 THEN inner ELSE r)
Mapper46(r, a, v) ==
    LET update_state(s) ==
          <<P(0, 2 * Bits(s[1], 0, 4) + Bit(s[2], 0)),
            C(0, 8 * Bits(s[1], 4, 4) + Bits(s[2], 4, 3))>>
        s == IF a < \h8000 THEN <<v, r[2]>> ELSE <<r[1], v>>
    IN  Keeping(Latch(32, 8, {<<\h6000, \hFFFF>>}, {\h6000, \h8000},
                      <<Hdr>> \o update_state(<<0, 0>>), update_state(s)),
                s)
Mapper066(v) == Latch(32, 8, Rom, AnyRom, <<Hdr, P(0, 0), C(0, 0)>>,
                      <<P(0, Bits(v, 4, 2)), C(0, Bits(v, 0, 2))>>)
Mapper77(info, v) ==
    Latch(32, 2, Rom, AnyRom,
          <<M("four"), P(0, 0), C(0, 0)>>
          \o When(info.chr > 0, <<ChrRam(1, 0), ChrRam(2, 0), ChrRam(3, 0)>>),
          <<P(0, Bits(v, 0, 4)), C(0, Bits(v, 4, 4))>>)
Mapper079(info, a, v) ==
    Latch(32, 8, {<<\h4100, \h5FFF>>}, {\h4100, \h5F00},
          <<Hdr, P(0, 0), C(0, 0)>>,
          When(Bits(a, 13, 3) = 2 /\ Bit(a, 8) = 1,
               IF info.mapper = 113
               THEN <<P(0, Bits(v, 3, 3)), C(0, Bits(v, 0, 3) + 8 * Bit(v, 6)),
                      VH(Bit(v, 7))>>
               ELSE <<P(0, Bit(v, 3)), C(0, Bits(v, 0, 3))>>))
Mapper086(a, v) ==
    Latch(32, 8, {<<\h6000, \h7FFF>>}, {\h6000, \h7000}, <<Hdr, P(0, 0)>>,
          When(Bits(a, 12, 3) = 6,
               <<P(0, Bits(v, 4, 2)), C(0, Bits(v, 0, 2) + 4 * Bit(v, 6))>>))
Mapper087(info, v) ==
    Latch(32, 8, {<<\h6000, \h7FFF>>}, {\h6000}, <<Hdr, P(0, 0), C(0, 0)>>,
          <<C(0, IF info.mapper = 101 THEN v ELSE 2 * Bit(v, 0) + Bit(v, 1))>>)
Mapper107(v) == Latch(32, 8, Rom, AnyRom, <<Hdr, P(0, 0), C(0, 0)>>,
                      <<P(0, v \div 2), C(0, v)>>)
Mapper133(a, v) ==
    Latch(32, 8, {<<\h4100, \hFFFF>>}, {\h4100}, <<Hdr, P(0, 0), C(0, 0)>>,
          When(Bits(a, 13, 2) = 2 /\ Bit(a, 8) = 1,
               <<P(0, Bit(v, 2)), C(0, Bits(v, 0, 2))>>))
Mapper140(v) == Latch(32, 8, {<<\h6000, \h7FFF>>}, {\h6000},
                      <<Hdr, P(0, 0), C(0, 0)>>,
                      <<P(0, Bits(v, 4, 2)), C(0, Bits(v, 0, 4))>>)
Mapper145(a, v) ==
    Latch(32, 8, {<<\h4100, \h7FFF>>}, {\h4100}, <<Hdr, P(0, 0)>>,
          When(Bit(a, 14) = 1 /\ Bit(a, 8) = 1, <<C(0, Bit(v, 7))>>))
Mapper148(v) ==
    Conflicting(Latch(32, 8, Rom, AnyRom, <<Hdr, P(0, 0)>>,
                      <<P(0, Bit(v, 3)), C(0, Bits(v, 0, 3))>>))
Mapper149(v) == Latch(32, 8, Rom, AnyRom, <<Hdr, P(0, 0)>>, <<C(0, Bit(v, 7))>>)
Mapper170(v) ==
    Keeping(Latch(32, 8, {<<\h6502, \h6502>>}, {\h6502},
                  <<Hdr, P(0, 0), C(0, 0)>>, <<>>),
            128 * Bit(v, 6))
Mapper184(v) == Latch(32, 4, {<<\h6000, \h7FFF>>}, {\h6000}, <<Hdr, P(0, 0)>>,
                      <<C(0, Bits(v, 0, 3)), C(1, 128 + Bits(v, 4, 3))>>)
Mapper185(info, v) ==
    LET chr_enabled == CASE info.submapper = 4 -> Bits(v, 0, 2) = 0
                         [] info.submapper = 5 -> Bits(v, 0, 2) = 1
                         [] info.submapper = 6 -> Bits(v, 0, 2) = 2
                         [] info.submapper = 7 -> Bits(v, 0, 2) = 3
                         [] OTHER -> Bits(v, 0, 4) # 0 /\ v # \h13
    IN  Conflicting(Latch(32, 8, Rom, AnyRom, <<Hdr, P(0, 0), C(0, 0)>>,
                          IF chr_enabled THEN <<C(0, 0)>> ELSE <<ChrOff>>))
Mapper213(a) ==
    LET w(x) == <<C(0, Bits(x, 3, 3)), P(0, Bits(x, 1, 2))>>
    IN  Latch(32, 8, Rom, AnyRom, <<Hdr>> \o w(\h8000), w(a))
Mapper216(a) ==
    LET w(x) == <<P(0, Bit(x, 0)), C(0, Bits(x, 1, 3))>>
    IN  Latch(32, 8, Rom, AnyRom, <<Hdr>> \o w(\h8000), w(a))
Mapper240(v) == Latch(32, 8, {<<\h4020, \h5FFF>>}, {\h4020},
                      <<Hdr, P(0, 0), C(0, 0)>>,
                      <<P(0, Bits(v, 4, 4)), C(0, Bits(v, 0, 4))>>)
Mapper241(v) == Latch(32, 8, Rom, AnyRom, <<Hdr, P(0, 0), C(0, 0)>>, <<P(0, v)>>)
Mapper242(a) == Latch(32, 8, Rom, AnyRom,
                      <<Hdr, P(0, 0), M("vertical"), C(0, 0)>>,
                      <<HV(Bit(a, 1)), P(0, Bits(a, 3, 4))>>)
LUT_PRG == <<<<0, 1, 2, 3>>, <<3, 2, 1, 0>>, <<0, 2, 1, 3>>, <<3, 1, 2, 0>>>>
LUT_CHR == <<<<0, 1, 2, 3, 4, 5, 6, 7>>, <<0, 2, 1, 3, 4, 6, 5, 7>>,
             <<0, 1, 4, 5, 2, 3, 6, 7>>, <<0, 4, 1, 5, 2, 6, 3, 7>>,
             <<0, 4, 2, 6, 1, 5, 3, 7>>, <<0, 2, 4, 6, 1, 3, 5, 7>>,
             <<7, 6, 5, 4, 3, 2, 1, 0>>, <<7, 6, 5, 4, 3, 2, 1, 0>>>>
Mapper244(v) ==
    Latch(32, 8, Rom, AnyRom, <<Hdr, P(0, 0), C(0, 0)>>,
          IF Bit(v, 3) = 1
          THEN <<C(0, LUT_CHR[Bits(v, 4, 3) + 1][Bits(v, 0, 3) + 1])>>
          ELSE <<P(0, LUT_PRG[Bits(v, 4, 2) + 1][Bits(v, 0, 2) + 1])>>)
MapperSachen74LS374N(info, r, a, v) ==
    LET update_state(s) ==
          <<C(0, IF info.mapper = 150
                 THEN 4 * Bit(s[4], 0) + Bits(s[6], 0, 2)
                 ELSE 8 * Bit(s[2], 0) + 2 * Bits(s[6], 0, 2) + Bit(s[4], 0)),
            P(0, Bits(s[5], 0, 2))>>
          \o CASE Bits(s[7], 1, 2) = 0 -> <<NT(0, 0), NT(1, 0), NT(2, 0), NT(3, 1)>>
               [] Bits(s[7], 1, 2) = 1 -> <<M("horizontal")>>
               [] Bits(s[7], 1, 2) = 2 -> <<M("vertical")>>
               [] OTHER -> <<M("screen_a")>>
        hit(odd) == Bits(a, 14, 2) = 1 /\ Bit(a, 8) = 1 /\ Bit(a, 0) = odd
        s == [r EXCEPT !.registers[r.current] = Bits(v, 0, 3)]
        none == [i \in 0 .. 7 |-> 0]
    IN  Keeping(Latch(32, 8, {<<\h4100, \h7FFF>>}, {\h4100, \h4101},
                      <<Hdr>> \o update_state(none),
                      When(hit(1), update_state(s.registers))),
                IF hit(0) THEN [r EXCEPT !.current = Bits(v, 0, 3)]
                ELSE IF hit(1) THEN s ELSE r)

-----------------------------------------------------------------------------
(* Boards with two PRG windows of 16 KB.                                   *)
last_bank_one_past(info) == info.prg \div 16
last_bank(info) == info.prg \div 16 - 1

Mapper000(info) ==
    Latch(16, 8, {}, {}, <<Hdr, P(0, 0), P(1, IF info.prg >= 32 THEN 1 ELSE 0),
                           C(0, 0)>>, <<>>)
Mapper002(info, v) ==
    Latch(16, 8, Rom, AnyRom,
          <<Hdr, OwnRam, P(0, 0), P(1, last_bank(info)), C(0, 0)>>,
          <<P(0, v)>>)
Mapper57(r, a, v) ==
    LET s == IF Bit(a, 11) = 0 THEN <<v, r[2]>> ELSE <<r[1], v>>
        update_state(t) ==
          <<HV(Bit(t[2], 3)), C(0, 8 * Bit(t[1], 6) + Bits(t[1] | t[2], 0, 3))>>
          \o (IF Bit(t[2], 4) = 1 THEN Pair(Bits(t[2], 5, 3))
                                  ELSE Both(Bits(t[2], 5, 3)))
    IN  Keeping(Latch(16, 8, Rom, {\h8000, \h8800},
                      <<Hdr>> \o update_state(<<0, 0>>), update_state(s)),
                s)
Mapper058(a) ==
    Latch(16, 8, Rom, {\h8000, \h8043, \h8087, \hFFFF},
          <<Hdr, P(0, 0), P(1, 1), C(0, 0)>>,
          (IF Bit(a, 6) = 1 THEN Both(Bits(a, 0, 3)) ELSE Pair(Bits(a, 0, 3)))
          \o <<C(0, Bits(a, 3, 3)), HV(Bit(a, 7))>>)
Mapper060 == Latch(16, 8, Rom, {}, <<Hdr, P(0, 0), P(1, 0), C(0, 0)>>, <<>>)
Mapper061(a) ==
    LET page == 2 * Bits(a, 0, 4) + Bit(a, 5)
    IN  Latch(16, 8, Rom, {\h8000, \h8033, \h8085, \hFFFF},
              <<Hdr, P(0, 0), P(1, 1), C(0, 0)>>,
              (IF Bit(a, 4) = 1 THEN Both(page) ELSE Pair(page))
              \o <<HV(Bit(a, 7))>>)
Mapper062(a, v) ==
    LET page == Bits(a, 8, 6) + 64 * Bit(a, 6)
    IN  Latch(16, 8, Rom, {\h8000, \h8325, \h85C1, \hFFFF},
              <<Hdr, P(0, 0), P(1, 1), C(0, 0)>>,
              (IF Bit(a, 5) = 1 THEN Both(page) ELSE Pair(page))
              \o <<C(0, 4 * Bits(a, 0, 5) + Bits(v, 0, 2)), HV(Bit(a, 7))>>)
Mapper070(info, r, v) ==
    LET s == r \/ Bit(v, 7) = 1
    IN  Keeping(Latch(16, 8, Rom, AnyRom,
                      <<M("vertical"), P(0, 0), P(1, last_bank(info)), C(0, 0)>>,
                      When(s, <<AB(Bit(v, 7))>>)
                      \o <<P(0, Bits(v, 4, 3)), C(0, Bits(v, 0, 4))>>),
                s)
Mapper71(r, a, v) ==
    LET s == r \/ a = \h9000
    IN  Keeping(Latch(16, 8, Rom, {\h8000, \h9000, \hC000},
                      <<Hdr, P(0, 0), P(1, -1), C(0, 0)>>,
                      IF a >= \hC000 \/ ~s THEN <<P(0, v)>>
                      ELSE <<AB(1 - Bit(v, 4))>>),
                s)
(* Boards 72 and 92 act on the rising edge of two bits.                    *)
Mapper072(r, v) ==
    Keeping(Conflicting(
              Latch(16, 8, Rom, AnyRom, <<Hdr, P(0, 0), P(1, -1), C(0, 0)>>,
                    When(~r.prg /\ Bit(v, 7) = 1, <<P(0, Bits(v, 0, 3))>>)
                    \o When(~r.chr /\ Bit(v, 6) = 1, <<C(0, Bits(v, 0, 4))>>))),
            [prg |-> Bit(v, 7) = 1, chr |-> Bit(v, 6) = 1])
Mapper078(info, v) ==
    Conflicting(Latch(16, 8, Rom, AnyRom,
        <<Hdr, P(0, 0), P(1, last_bank(info)), C(0, 0)>>,
        <<P(0, Bits(v, 0, 3)), C(0, Bits(v, 4, 4)),
          IF info.submapper = 3 THEN VH(Bit(v, 3)) ELSE AB(Bit(v, 3))>>))
Mapper089(info, v) ==
    Latch(16, 8, Rom, AnyRom, <<Hdr, P(1, last_bank(info)), C(0, 0)>>,
          <<P(0, Bits(v, 4, 3)), C(0, Bits(v, 0, 3) + 8 * Bit(v, 7)), AB(Bit(v, 3))>>)
Mapper092(r, v) ==
    Keeping(Conflicting(
              Latch(16, 8, Rom, AnyRom, <<Hdr, P(0, 0), P(1, -1), C(0, 0)>>,
                    When(~r.prg /\ Bit(v, 7) = 1, <<P(1, Bits(v, 0, 4))>>)
                    \o When(~r.chr /\ Bit(v, 6) = 1, <<C(0, Bits(v, 0, 4))>>))),
            [prg |-> Bit(v, 7) = 1, chr |-> Bit(v, 6) = 1])
Mapper093(info, v) ==
    Latch(16, 8, Rom, AnyRom, <<Hdr, P(1, last_bank(info)), C(0, 0)>>,
          <<P(0, Bits(v, 4, 3)), IF Bit(v, 0) = 1 THEN C(0, 0) ELSE ChrOff>>)
Mapper094(info, v) ==
    Latch(16, 8, Rom, AnyRom, <<Hdr, P(0, 0), P(1, last_bank(info)), C(0, 0)>>,
          <<P(0, Bits(v, 2, 3))>>)
Mapper143 == Latch(16, 8, {}, {}, <<Hdr, P(0, 0), P(1, 1), C(0, 0)>>, <<>>)
Mapper156(info, r, a, v) ==
    LET bank == Bits(a, 0, 2) + (IF a >= \hC008 THEN 4 ELSE 0)
        s == IF a > \hC00F THEN r
             ELSE IF Bit(a, 2) = 1 THEN [r EXCEPT !.high[bank] = v]
                                   ELSE [r EXCEPT !.low[bank] = v]
    IN  Keeping(
          Latch(16, 1, {<<\hC000, \hC014>>}, {\hC000, \hC00C, \hC010, \hC014},
                <<M("screen_a"), P(1, last_bank(info))>>,
                CASE a <= \hC00F -> [i \in 1 .. 8 |->
                                      C(i - 1, 256 * s.high[i - 1] + s.low[i - 1])]
                  [] a = \hC010 -> <<P(0, v)>>
                  [] a = \hC014 -> <<HV(Bit(v, 0))>>
                  [] OTHER -> <<>>),
          s)
Mapper174(a) ==
    LET w(x) == (IF Bit(x, 7) = 1 THEN Pair(Bits(x, 4, 3)) ELSE Both(Bits(x, 4, 3)))
                \o <<C(0, Bits(x, 1, 3)), HV(Bit(x, 0))>>
    IN  Latch(16, 8, Rom, {\h8000, \h80F3, \h8075, \hFFFF}, <<Hdr>> \o w(\h8000), w(a))
Mapper180(v) == Latch(16, 8, Rom, AnyRom, <<Hdr, P(0, 0), P(1, 0), C(0, 0)>>,
                      <<P(1, Bits(v, 0, 3))>>)
Mapper200(a) ==
    Latch(16, 8, Rom, AnyRom, <<Hdr, P(0, 0), P(1, 0), C(0, 0)>>,
          Both(Bits(a, 0, 3)) \o <<C(0, Bits(a, 0, 3)), VH(Bit(a, 3))>>)
Mapper202(a) ==
    LET mode1 == Bit(a, 0) = 1 /\ Bit(a, 3) = 1
        page == Bits(a, 1, 3)
    IN  Keeping(Latch(16, 8, Rom, {\h8000, \h8009, \h8006, \hFFFF},
                      <<Hdr, P(0, 0), P(1, 0), C(0, 0)>>,
                      <<C(0, page)>>
                      \o (IF mode1 THEN P2(0, page) ELSE Both(page))
                      \o <<HV(Bit(a, 0))>>),
                mode1)
Mapper203(v) == Latch(16, 8, Rom, AnyRom, <<Hdr, P(0, 0), P(1, 0), C(0, 0)>>,
                      Both(v \div 4) \o <<C(0, Bits(v, 0, 2))>>)
Mapper204(a) ==
    LET w(x) == LET mask == 2 * Bits(x, 1, 2)
                    page == mask + (IF mask = 6 THEN 0 ELSE Bit(x, 0))
                IN  <<P(0, page), P(1, mask + (IF mask = 6 THEN 1 ELSE Bit(x, 0))),
                      C(0, page), HV(Bit(x, 4))>>
    IN  Latch(16, 8, Rom, {\h8000, \h8003, \h8016, \hFFFF}, <<Hdr>> \o w(\h8000), w(a))
Mapper214(a) ==
    LET w(x) == <<C(0, Bits(x, 0, 2))>> \o Both(Bits(x, 2, 2))
    IN  Latch(16, 8, Rom, AnyRom, <<Hdr>> \o w(\h8000), w(a))
Mapper221(r, a) ==
    LET outer(t) == Bits(t.mode, 2, 6)
        update_state(t) ==
          (IF Bit(t.mode, 1) = 0 THEN Both(outer(t) | t.prg)
           ELSE IF Bit(t.mode, 8) = 1
                THEN <<P(0, outer(t) | t.prg), P(1, outer(t) | 7)>>
                ELSE P2(0, outer(t) | Even(t.prg)))
          \o <<HV(Bit(t.mode, 0))>>
        s == IF Bits(a, 14, 2) = 2 THEN [r EXCEPT !.mode = a]
                                   ELSE [r EXCEPT !.prg = Bits(a, 0, 3)]
        none == [mode |-> 0, prg |-> 0]
    IN  Keeping(Latch(16, 8, Rom, {\h8000, \h8002, \h8106, \hC000, \hC005},
                      <<Hdr, C(0, 0)>> \o update_state(none), update_state(s)),
                s)
Mapper225(a) ==
    LET page == Bits(a, 6, 6) + 64 * Bit(a, 14)
    IN  Latch(16, 8, Rom, {\h8000, \h90C1, \hE140, \hFFFF},
              <<Hdr, P(0, 0), P(1, 1), C(0, 0)>>,
              (IF Bit(a, 12) = 1 THEN Both(page) ELSE Pair(page))
              \o <<C(0, Bits(a, 0, 6) + 64 * Bit(a, 14)), HV(Bit(a, 13))>>)
(* Board 233 takes bit 5 of the page from a flag that only a reset of the  *)
(* board toggles, which the console never calls.                           *)
Mapper226(info, r, a, v) ==
    LET s == IF Bit(a, 0) = 0 THEN <<v, r[2]>> ELSE <<r[1], v>>
        get_prg_page_inner ==
          Bits(s[1], 0, 5) + 64 * Bit(s[2], 0)
          + (IF info.mapper = 233 THEN 0 ELSE 32 * Bit(s[1], 7))
    IN  Keeping(Latch(16, 8, Rom, {\h8000, \h8001},
                      <<Hdr, P(0, 0), P(1, 1), C(0, 0)>>,
                      (IF Bit(s[1], 5) = 1 THEN Both(get_prg_page_inner)
                                           ELSE Pair(get_prg_page_inner))
                      \o <<VH(Bit(s[1], 6))>>),
                s)
Mapper227(a) ==
    LET w(x) ==
          LET bank == Bits(x, 2, 5) + 32 * Bit(x, 8)
              s_flag == Bit(x, 0) = 1
              upper == IF Bit(x, 9) = 1 THEN bank | 7 ELSE (bank \div 8) * 8
          IN  (IF Bit(x, 7) = 1
               THEN IF s_flag THEN Pair(bank) ELSE Both(bank)
               ELSE <<P(0, IF s_flag THEN Even(bank) ELSE bank), P(1, upper)>>)
              \o <<HV(Bit(x, 1))>>
    IN  Latch(16, 8, Rom, {\h8000, \h8085, \h820D, \h8114, \hFFFF},
              <<Hdr>> \o w(\h8000), w(a))
Mapper229(a) ==
    LET w(x) == <<C(0, Bits(x, 0, 8))>>
                \o (IF Bits(x, 1, 4) = 0 THEN P2(0, 0) ELSE Both(Bits(x, 0, 5)))
                \o <<HV(Bit(x, 5))>>
    IN  Latch(16, 8, Rom, {\h8000, \h8001, \h8026, \hFFFF}, <<Hdr>> \o w(\h8000), w(a))
(* init calls the board's own reset once, which selects the Contra mode;   *)
(* nothing leaves it again.                                                *)
Mapper230(v) ==
    Latch(16, 8, Rom, AnyRom, <<Hdr, C(0, 0), P(0, 0), P(1, 7), M("vertical")>>,
          <<P(0, Bits(v, 0, 3))>>)
Mapper231(a) ==
    LET page == Bit(a, 5) + 2 * Bits(a, 1, 4)
    IN  Latch(16, 8, Rom, {\h8000, \h8026, \h809E, \hFFFF},
              <<Hdr, P(0, 0), P(1, 0), C(0, 0)>>,
              <<P(0, Even(page)), P(1, page), HV(Bit(a, 7))>>)

-----------------------------------------------------------------------------
(* Boards with four PRG windows of 8 KB.                                   *)
Four(a, b, c, d) == <<P(0, a), P(1, b), P(2, c), P(3, d)>>

Mapper015(a, v) ==
    LET w(x, y) ==
          LET sub_bank == Bit(y, 7)
              bank == 2 * Bits(y, 0, 7)
              odd == bank + sub_bank
              top == IF Bits(x, 0, 2) = 3 THEN odd ELSE odd | 14
          IN  <<HV(Bit(y, 6)), C(0, 0)>>
              \o CASE Bits(x, 0, 2) = 0 ->
                          Four(bank ^^ sub_bank, (bank + 1) ^^ sub_bank,
                               (bank + 2) ^^ sub_bank, (bank + 3) ^^ sub_bank)
                   [] Bits(x, 0, 2) \in {1, 3} -> Four(odd, odd + 1, top, top + 1)
                   [] OTHER -> Four(odd, odd, odd, odd)
    IN  Latch(8, 8, Rom, {\h8000, \h8001, \h8002, \h8003},
              <<C(0, 0)>> \o w(\h8000, 0), w(a, v))
Mapper032(info, r, a, v) ==
    LET reg == Bits(a, 12, 4)
        s == CASE reg = 8 -> [r EXCEPT !.prg[0] = Bits(v, 0, 5)]
               [] reg = 9 -> [r EXCEPT !.mode = IF info.submapper = 1 THEN 0
                                                ELSE Bit(v, 1)]
               [] reg = 10 -> [r EXCEPT !.prg[1] = Bits(v, 0, 5)]
               [] OTHER -> r
        update_prg_mode ==
          IF s.mode = 0 THEN Four(s.prg[0], s.prg[1], -2, -1)
                        ELSE Four(-2, s.prg[1], s.prg[0], -1)
    IN  Keeping(Latch(8, 1, Rom, {\h8000, \h9000, \hA000, \hB000, \hB007},
                      <<Hdr, P(2, -2), P(3, -1)>>
                      \o When(info.submapper = 1, <<M("screen_a")>>),
                      CASE reg = 8 -> <<P(2 * s.mode, s.prg[0])>>
                        [] reg = 9 -> update_prg_mode \o <<HV(Bit(v, 0))>>
                        [] reg = 10 -> <<P(1, s.prg[1])>>
                        [] reg = 11 -> <<C(Bits(a, 0, 3), v)>>
                        [] OTHER -> <<>>),
                s)
Mapper033(a, v) ==
    LET reg == 4 * Bit(a, 13) + Bits(a, 0, 2)
    IN  Latch(8, 1, Rom, {\h8000, \h8001, \h8002, \h8003, \hA000, \hA003},
              <<Hdr, P(2, -2), P(3, -1)>>,
              CASE reg = 0 -> <<P(0, Bits(v, 0, 6)), HV(Bit(v, 6))>>
                [] reg = 1 -> <<P(1, Bits(v, 0, 6))>>
                [] reg \in {2, 3} -> C2(2 * (reg - 2), 2 * v)
                [] OTHER -> <<C(reg, v)>>)
Mapper40(a, v) ==
    Latch(8, 8, Rom, {\h8000, \hA000, \hE000},
          <<Hdr, Window(6), P(0, 4), P(1, 5), P(3, 7), C(0, 0)>>,
          When(Bits(a, 13, 3) = 7, <<P(2, v)>>))
Mapper42(info, a, v) ==
    LET reg == <<Bits(a, 13, 3), Bits(a, 0, 2)>>
    IN  Latch(8, 8, Rom, {\h8000, \hE000, \hE001, \hE002},
              <<Hdr, P(0, -4), P(1, -3), P(2, -2), P(3, -1), C(0, 0), Window(0)>>,
              CASE reg = <<4, 0>> -> When(info.chr > 0, <<C(0, Bits(v, 0, 4))>>)
                [] reg = <<7, 0>> -> <<Window(Bits(v, 0, 4))>>
                [] reg = <<7, 1>> -> <<HV(Bit(v, 3))>>
                [] OTHER -> <<>>)
Mapper43(r, a, v) ==
    LET reg == <<Bits(a, 12, 4), Bits(a, 0, 9)>>
        s == CASE reg = <<4, \h022>> ->
                    [r EXCEPT !.reg = <<4, 3, 5, 3, 6, 3, 7, 3>>[Bits(v, 0, 3) + 1]]
               [] reg = <<4, \h120>> -> [r EXCEPT !.swap = Bit(v, 0)]
               [] OTHER -> r
        update_state(t) ==
          <<Window(IF t.swap = 1 THEN 0 ELSE 2), P(2, t.reg),
            P(3, IF t.swap = 1 THEN 8 ELSE 9)>>
    IN  Keeping(Latch(8, 8, {<<\h4020, \hFFFF>>}, {\h4022, \h4120, \h8122},
                      <<Hdr>> \o update_state(r) \o <<P(0, 1), P(1, 0), C(0, 0)>>,
                      When(reg \in {<<4, \h022>>, <<4, \h120>>}, update_state(s))),
                s)
Mapper50(a, v) ==
    Latch(8, 8, {<<\h4020, \h5FFF>>}, {\h4020, \h4120},
          <<Hdr, Window(15), P(0, 8), P(1, 9), P(3, 11), C(0, 0)>>,
          When(Bit(a, 14) = 1 /\ Bit(a, 8) = 0 /\ Bit(a, 5) = 1,
               <<P(2, 8 * Bit(v, 3) + 4 * Bit(v, 0) + Bits(v, 1, 2))>>))
Mapper065(a, v) ==
    Latch(8, 1, Rom, {\h8000, \h9001, \h9003, \h9004, \h9005, \h9006, \hA000,
                      \hB000, \hB007, \hC000},
          <<Hdr, P(0, 0), P(1, 1), P(2, \hFE), P(3, -1)>>,
          CASE a = \h8000 -> <<P(0, v)>>
            [] a = \h9001 -> <<HV(Bit(v, 7))>>
            [] a = \hA000 -> <<P(1, v)>>
            [] a \in \hB000 .. \hB007 -> <<C(Bits(a, 0, 3), v)>>
            [] a = \hC000 -> <<P(2, v)>>
            [] OTHER -> <<>>)
Mapper067(info, a, v) ==
    Latch(16, 2, Rom, {\h8800, \hB800, \hC800, \hD800, \hE800, \hF800},
          <<Hdr, P(1, last_bank(info))>>,
          CASE Bit(a, 11) = 0 -> <<>>
            [] Bits(a, 12, 4) \in 8 .. 11 -> <<C(Bits(a, 12, 2), v)>>
            [] Bits(a, 12, 4) = 14 ->
                 <<IF Bit(v, 1) = 0 THEN HV(Bit(v, 0)) ELSE AB(Bit(v, 0))>>
            [] Bits(a, 12, 4) = 15 -> <<P(0, v)>>
            [] OTHER -> <<>>)
Mapper075(r, a, v) ==
    LET reg == Bits(a, 12, 4)
        s == CASE reg = 9 -> <<(r[1] % 16) + 16 * Bit(v, 1), (r[2] % 16) + 16 * Bit(v, 2)>>
               [] reg = 14 -> <<16 * Bit(r[1], 4) + Bits(v, 0, 4), r[2]>>
               [] reg = 15 -> <<r[1], 16 * Bit(r[2], 4) + Bits(v, 0, 4)>>
               [] OTHER -> r
        update_chr_banks == <<C(0, s[1]), C(1, s[2])>>
    IN  Keeping(Latch(8, 4, Rom, {\h8000, \h9000, \hA000, \hC000, \hE000, \hF000},
                      <<Hdr, P(3, -1)>>,
                      CASE reg = 8 -> <<P(0, v)>>
                        [] reg = 9 -> <<UnlessFour(HV(Bit(v, 0)))>> \o update_chr_banks
                        [] reg = 10 -> <<P(1, v)>>
                        [] reg = 12 -> <<P(2, v)>>
                        [] reg \in {14, 15} -> update_chr_banks
                        [] OTHER -> <<>>),
                s)
(* The board of the VS. System: its bank is selected by a bit of $4016     *)
(* that the controllers hold (see ControlManager).                         *)
Mapper099 ==
    Latch(8, 8, {}, {}, <<Hdr>> \o Four(0, 1, 2, 3) \o <<C(0, 0)>>, <<>>)
Mapper112(r, a, v) ==
    LET reg == <<Bits(a, 13, 3), Bit(a, 0)>>
        s == CASE reg = <<4, 0>> -> [r EXCEPT !.current = Bits(v, 0, 3)]
               [] reg = <<5, 0>> -> [r EXCEPT !.registers[r.current] = v]
               [] reg = <<6, 0>> -> [r EXCEPT !.outer = v]
               [] OTHER -> r
        update_state(t) ==
          <<P(0, t.registers[0]), P(1, t.registers[1])>>
          \o C2(0, t.registers[2]) \o C2(1, t.registers[3])
          \o [i \in 1 .. 4 |-> C(3 + i, t.registers[3 + i] + 256 * Bit(t.outer, 3 + i))]
    IN  Keeping(Latch(8, 1, {<<\h4020, \h5FFF>>}, {\h8000, \hA000, \hC000, \hE000},
                      <<M("vertical"), P(2, -2), P(3, -1)>> \o update_state(r),
                      When(reg = <<7, 0>>, <<HV(Bit(v, 0))>>) \o update_state(s)),
                s)
Mapper246(a, v) ==
    Latch(8, 2, {<<\h6000, \h67FF>>}, {\h6000, \h6003, \h6004, \h6007},
          <<Hdr, P(3, \hFF)>>,
          IF Bit(a, 2) = 0 THEN <<P(Bits(a, 0, 2), v)>> ELSE <<C(Bits(a, 0, 2), v)>>)

-----------------------------------------------------------------------------
(* The members a board has after init, and the board of a number.          *)
members(info) ==
    LET none == [i \in 0 .. 7 |-> 0]
        n == info.mapper
    IN  CASE n = 41 -> [prg |-> 0, chr |-> 0]
          [] n \in {46, 57, 75, 151, 226, 233} -> <<0, 0>>
          [] n = 70 -> FALSE
          [] n = 71 -> info.submapper = 1
          [] n \in {72, 92} -> [prg |-> FALSE, chr |-> FALSE]
          [] n \in {150, 243} -> [current |-> 0, registers |-> none]
          [] n = 156 -> [high |-> none, low |-> none]
          [] n = 221 -> [mode |-> 0, prg |-> 0]
          [] n = 32 -> [prg |-> [i \in 0 .. 1 |-> 0], mode |-> 0]
          [] n = 43 -> [reg |-> 0, swap |-> 0]
          [] n = 112 -> [current |-> 0, outer |-> 0, registers |-> none]
          [] OTHER -> <<>>

(* b is the byte the ROM has at the address written to.                    *)
board(info, r, a, v, b) ==
    LET n == info.mapper
    IN  CASE n = 2 -> Mapper002(info, v)      [] n = 3 -> Mapper003(v)
          [] n = 7 -> Mapper007(v)            [] n = 11 -> Mapper011(v)
          [] n = 144 -> Mapper011(v | Bit(b, 0))
          [] n = 13 -> Mapper013(v)           [] n = 15 -> Mapper015(a, v)
          [] n = 32 -> Mapper032(info, r, a, v)
          [] n = 33 -> Mapper033(a, v)        [] n = 34 -> Mapper034(v)
          [] n = 38 -> Mapper038(v)           [] n = 39 -> Mapper039(v)
          [] n = 40 -> Mapper40(a, v)         [] n = 41 -> Mapper041(r, a, v)
          [] n = 42 -> Mapper42(info, a, v)   [] n = 43 -> Mapper43(r, a, v)
          [] n = 46 -> Mapper46(r, a, v)      [] n = 50 -> Mapper50(a, v)
          [] n = 57 -> Mapper57(r, a, v)      [] n = 58 -> Mapper058(a)
          [] n = 60 -> Mapper060              [] n = 61 -> Mapper061(a)
          [] n = 62 -> Mapper062(a, v)        [] n = 65 -> Mapper065(a, v)
          [] n = 66 -> Mapper066(v)           [] n = 67 -> Mapper067(info, a, v)
          [] n = 70 -> Mapper070(info, r, v)  [] n = 71 -> Mapper71(r, a, v)
          [] n = 72 -> Mapper072(r, v)        [] n \in {75, 151} -> Mapper075(r, a, v)
          [] n = 77 -> Mapper77(info, v)      [] n = 78 -> Mapper078(info, v)
          [] n \in {79, 113, 146} -> Mapper079(info, a, v)
          [] n = 86 -> Mapper086(a, v)        [] n \in {87, 101} -> Mapper087(info, v)
          [] n = 89 -> Mapper089(info, v)     [] n = 92 -> Mapper092(r, v)
          [] n = 93 -> Mapper093(info, v)     [] n = 94 -> Mapper094(info, v)
          [] n = 99 -> Mapper099              [] n = 107 -> Mapper107(v)
          [] n = 112 -> Mapper112(r, a, v)    [] n = 133 -> Mapper133(a, v)
          [] n = 140 -> Mapper140(v)          [] n = 143 -> Mapper143
          [] n = 145 -> Mapper145(a, v)       [] n = 148 -> Mapper148(v)
          [] n = 149 -> Mapper149(v)          [] n = 156 -> Mapper156(info, r, a, v)
          [] n = 170 -> Mapper170(v)          [] n = 174 -> Mapper174(a)
          [] n = 180 -> Mapper180(v)          [] n = 184 -> Mapper184(v)
          [] n = 185 -> Mapper185(info, v)    [] n = 200 -> Mapper200(a)
          [] n = 202 -> Mapper202(a)          [] n = 203 -> Mapper203(v)
          [] n = 204 -> Mapper204(a)          [] n = 213 -> Mapper213(a)
          [] n = 214 -> Mapper214(a)          [] n = 216 -> Mapper216(a)
          [] n = 221 -> Mapper221(r, a)       [] n = 225 -> Mapper225(a)
          [] n \in {226, 233} -> Mapper226(info, r, a, v)
          [] n = 227 -> Mapper227(a)          [] n = 229 -> Mapper229(a)
          [] n = 230 -> Mapper230(v)          [] n = 231 -> Mapper231(a)
          [] n = 240 -> Mapper240(v)          [] n = 241 -> Mapper241(v)
          [] n = 242 -> Mapper242(a)          [] n = 244 -> Mapper244(v)
          [] n \in {150, 243} -> MapperSachen74LS374N(info, r, a, v)
          [] n = 246 -> Mapper246(a, v)       [] OTHER -> Mapper000(info)

(* The numbers this module covers; the factory makes every number it does  *)
(* not know a Mapper000.                                                   *)
SimpleBoards ==
    {0, 2, 3, 7, 11, 13, 15, 32, 33, 34, 38, 39, 40, 41, 42, 43, 46, 50, 57, 58,
     60, 61, 62, 65, 66, 67, 70, 71, 72, 75, 77, 78, 79, 86, 87, 89, 92, 93, 94,
     99, 101, 107, 112, 113, 133, 140, 143, 144, 145, 146, 148, 149, 150, 151,
     156, 170, 174, 180, 184, 185, 200, 202, 203, 204, 213, 214, 216, 221, 225,
     226, 227, 229, 230, 231, 233, 240, 241, 242, 243, 244, 246}

=============================================================================
