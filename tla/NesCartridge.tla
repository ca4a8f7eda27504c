---------------------------- MODULE NesCartridge ----------------------------
(***************************************************************************)
(* From a ROM file to a board whose registers the program writes           *)
(* (ines_loader.cpp, NesConsole::load_rom, base_mapper.cpp).  The header,  *)
(* the ROM database and the board's init decide together which mapper is   *)
(* made and what its page tables show; afterwards the tables change by     *)
(* register writes.                                                        *)
(*                                                                         *)
(* The page tables have one entry for each 256 bytes; the boards modelled  *)
(* here never map less than 8 KB of PRG or 1 KB of CHR, so the model's     *)
(* windows have these sizes: prg[i] is the KB of PRG ROM seen at           *)
(* $8000 + i * 8 KB, chr[i] the memory and KB seen at i KB of the pattern  *)
(* tables, nt[i] the nametable RAM page, low what $6000-$7FFF shows.       *)
(***************************************************************************)
EXTENDS ChipBoards, SequencesExt

CONSTANTS
    Roms,        \* the ROM files, each a header and a database line
    Values,      \* values the program writes
    MaxWrites,   \* bound on the writes of a program
    MaxSerial,   \* the same for a board with a serial port
    SerialValues, \* values written to it: it reads the bits 0 and 7
    Unmapped     \* a table entry without access, a file the database lacks

ASSUME ValuesAssumption ==
    /\ MaxWrites \in Nat /\ MaxSerial \in Nat
    /\ Values \subseteq 0 .. 255 /\ SerialValues \subseteq 0 .. 255

VARIABLES
    rom,    \* the file loaded, or Unmapped
    info,   \* rom_info_
    cart,   \* the mapper's tables and members
    last,   \* what the latest write reached, and where
    writes  \* number of writes so far

vars == <<rom, info, cart, last, writes>>

-----------------------------------------------------------------------------
(* Reading the header.  Its mapper number has four bits in byte 6, four in *)
(* byte 7 and four in byte 8; old files have garbage in bytes 7 and 8.     *)
parse_header(h) ==
    [mapper |-> CASE h.kind = "nes20" -> h.mapper
                  [] h.kind = "old" -> h.mapper % 16
                  [] OTHER -> h.mapper % 256,
     submapper |-> IF h.kind = "nes20" THEN h.submapper ELSE 0,
     prg |-> 16 * h.prg_banks,
     chr |-> 8 * h.chr_banks,
     battery |-> h.battery,
     mirroring |-> h.mirroring,
     bus |-> "default",
     work_ram |-> IF h.kind = "ines" THEN 8 * h.byte8 ELSE 0,
     vs |-> FALSE]

(* A line of the database is text; an empty field (-1 for a number)        *)
(* gives the entry no such field, and atoi reads a word as zero.           *)
NesDbEntry(line) ==
    LET fields ==
          [mapper |-> line.mapper,
           battery |-> line.battery # 0,
           bus |-> CASE line.bus = "1" -> "yes"
                     [] line.bus \in {"0", "N", "Y"} -> "no"
                     [] OTHER -> "default",
           submapper |-> line.submapper,
           work_ram |-> line.work_ram,
           mirroring |-> CASE line.mirroring = "h" -> "horizontal"
                           [] line.mirroring = "v" -> "vertical"
                           [] OTHER -> "four",
           vs |-> line.system = "VsSystem"]
        has == [mapper |-> line.mapper \in 0 .. 1023,
                battery |-> line.battery >= 0,
                bus |-> line.bus # "",
                submapper |-> line.submapper >= 0,
                work_ram |-> line.work_ram > 0,
                mirroring |-> line.mirroring \in {"h", "v", "4"},
                vs |-> line.system = "VsSystem"]
    IN  [f \in {g \in DOMAIN fields : has[g]} |-> fields[f]]

apply_nesdb_overrides(i, line) ==
    IF line = Unmapped THEN i
    ELSE [f \in DOMAIN i |-> IF f \in DOMAIN NesDbEntry(line) THEN NesDbEntry(line)[f]
                                                              ELSE i[f]]

(* Boards of the factory whose bank switching is not modelled.             *)
OtherBoards ==
    {5, 6, 8, 16, 17, 19, 24, 26, 45, 64, 68, 69, 74, 90, 153, 157, 159, 210, 252}
is_supported(n) == n \in SimpleBoards \cup ChipNumbers \cup OtherBoards

rom_info_header_first(r) ==
    LET header == parse_header(r.header)
        i == apply_nesdb_overrides(header, r.line)
        number == IF is_supported(header.mapper) THEN header.mapper ELSE i.mapper
    IN  [i EXCEPT !.mapper = number, !.vs = @ \/ number = 99]
rom_info(r) ==
    LET header == parse_header(r.header)
        i == apply_nesdb_overrides(header, r.line)
        number == IF ~is_supported(i.mapper) /\ is_supported(header.mapper)
                  THEN header.mapper ELSE i.mapper
    IN  [i EXCEPT !.mapper = number, !.vs = @ \/ number = 99]

-----------------------------------------------------------------------------
(* The page tables.                                                        *)

(* A division by a page count of zero ends the program.                    *)
Crash(c) == [c EXCEPT !.trap = TRUE]

select_prg_page_unwrapped(i, b, c, slot, page) ==
    LET width == b.prg \div 8
    IN  [c EXCEPT !.prg =
            [w \in 0 .. 3 |-> IF w \div width = slot
                              THEN b.prg * page + 8 * (w % width) ELSE @[w]]]
select_prg_page(i, b, c, slot, page) ==
    LET max_page == i.prg \div b.prg
        width == b.prg \div 8
    IN  IF max_page = 0 THEN Crash(c)
        ELSE [c EXCEPT !.prg =
                [w \in 0 .. 3 |->
                    IF w \div width = slot
                    THEN b.prg * (page % max_page) + 8 * (w % width)
                    ELSE @[w]]]

get_chr_ram_size(i) == IF i.mapper = 13 THEN 16 ELSE 8

select_chr_page(i, b, c, slot, page, ram) ==
    LET first == IF i.chr > 0 THEN page % (i.chr \div b.chr) ELSE page
        size == IF ram THEN get_chr_ram_size(i) ELSE i.chr
        start == b.chr * (first % (size \div b.chr))
    IN  [c EXCEPT !.chr =
            [w \in 0 .. 7 |->
                IF w \div b.chr = slot
                THEN <<IF ram THEN "ram" ELSE "rom", start + (w % b.chr)>>
                ELSE @[w]]]

set_mirroring_type(c, type) ==
    [c EXCEPT !.mirroring = type,
              !.nt = CASE type = "vertical" -> <<0, 1, 0, 1>>
                       [] type = "horizontal" -> <<0, 0, 1, 1>>
                       [] type = "screen_a" -> <<0, 0, 0, 0>>
                       [] type = "screen_b" -> <<1, 1, 1, 1>>
                       [] type = "four" -> <<0, 1, 2, 3>>]

(* A page of PRG ROM at $6000, by the mapping function with a signed page. *)
set_cpu_memory_mapping(i, b, c, page) ==
    [c EXCEPT !.low = <<"prg", b.prg * (page % (i.prg \div b.prg))>>]

(* One call of a board.                                                    *)
Apply(i, b, c, call) ==
    CASE c.trap -> c
      [] call[1] = "prg" -> select_prg_page(i, b, c, call[2], call[3])
      [] call[1] = "chr" -> select_chr_page(i, b, c, call[2], call[3], i.chr = 0)
      [] call[1] = "chr_ram" -> select_chr_page(i, b, c, call[2], call[3], TRUE)
      [] call[1] = "chr_off" -> [c EXCEPT !.chr = [w \in 0 .. 7 |-> Unmapped]]
      [] call[1] = "mirror" ->
           set_mirroring_type(c, IF call[2] = "header" THEN i.mirroring ELSE call[2])
      [] call[1] = "mirror_unless_four" ->
           IF c.mirroring = "four" THEN c ELSE set_mirroring_type(c, call[2])
      [] call[1] = "nametable" -> [c EXCEPT !.nt[call[2] + 1] = call[3]]
      [] call[1] = "own" ->
           [c EXCEPT !.low = IF call[2] = "none" THEN Unmapped
                             ELSE <<IF call[2] = "rw" THEN "own" ELSE "own_read", 8>>]
      [] call[1] = "window" -> set_cpu_memory_mapping(i, b, c, call[2])

ApplyAll(i, b, c, calls) == FoldLeft(LAMBDA d, call : Apply(i, b, d, call), c, calls)

-----------------------------------------------------------------------------
(* Loading.                                                                *)

(* KB of save RAM and of work RAM.                                         *)
init_work_ram(i) ==
    LET default == IF i.mapper = 99 THEN 2 ELSE 8
    IN  [save |-> IF i.battery THEN 8 ELSE 0,
         work |-> IF i.work_ram > 0 THEN i.work_ram
                  ELSE IF i.battery THEN 0 ELSE default]

setup_default_work_ram(i, c) ==
    LET ram == init_work_ram(i)
    IN  CASE use_microwire(i) -> c
          [] i.battery /\ ram.save > 0 -> [c EXCEPT !.low = <<"save", ram.save>>]
          [] ram.work > 0 -> [c EXCEPT !.low = <<"work", ram.work>>]
          [] OTHER -> c

BaseMapper(i) ==
    [prg |-> [w \in 0 .. 3 |-> Unmapped], chr |-> [w \in 0 .. 7 |-> Unmapped],
     nt |-> <<Unmapped, Unmapped, Unmapped, Unmapped>>, low |-> Unmapped,
     mirroring |-> "horizontal", bus |-> i.bus = "yes",
     members |-> create_members(i), trap |-> FALSE]

(* The board as init makes it.                                             *)
declared(i) == create_mapper(i, create_members(i), \h8000, 0, 0, FALSE)

(* The database's bus conflicts are set before init, the default work RAM  *)
(* is mapped after it.                                                     *)
new_mapper(i) ==
    LET b == declared(i)
        made == [BaseMapper(i) EXCEPT !.bus = @ \/ b.bus]
        started == ApplyAll(i, b, made, b.start)
    IN  IF started.trap THEN started ELSE setup_default_work_ram(i, started)

load_rom(r) ==
    /\ rom = Unmapped
    /\ rom' = r
    /\ info' = rom_info(r)
    /\ cart' = new_mapper(info')
    /\ last' = <<"none">>
    /\ UNCHANGED writes

-----------------------------------------------------------------------------
(* The program writes to cartridge space.                                  *)

InRange_exclusive(b, a) == \E range \in b.range : a \in range[1] .. range[2] - 1
InRange(b, a) == \E range \in b.range : a \in range[1] .. range[2]

(* Register addresses the board tells apart, RAM and ROM.                  *)
Addresses(i) == declared(i).decodes \cup {\h6000, \h8000}

(* What a write that is no register reaches; ROM pages are mapped for      *)
(* writing as well.                                                        *)
Memory(c, a) ==
    CASE a >= \h8000 -> IF c.prg[(a - \h8000) \div \h2000] = Unmapped THEN "none" ELSE "rom"
      [] a >= \h6000 -> IF c.low = Unmapped THEN "none"
                        ELSE CASE c.low[1] = "prg" -> "rom"
                               [] c.low[1] = "own_read" -> "none"
                               [] OTHER -> "ram"
      [] OTHER -> "none"

(* The ROM's byte at an address counts only where it meets the value.      *)
RomBytes == IF cart.bus \/ info.mapper = 144 THEN {0, 255} ELSE {255}

Bound(i) == IF i.mapper = 1 THEN MaxSerial ELSE MaxWrites
Inputs(i) == IF i.mapper = 1 THEN SerialValues ELSE Values
Running == rom # Unmapped /\ ~cart.trap /\ writes < Bound(info)

(* byte is what the ROM has at the address.  A write in the cycle after    *)
(* another is the second write of one instruction, to the same address.    *)
write_ram(a, v, byte, soon) ==
    LET there == Memory(cart, a)
        value == IF cart.bus /\ byte = 0 THEN 0 ELSE v
    IN  /\ soon => info.mapper = 1 /\ last = <<"register", a>>
        /\ writes' = writes + 1
        /\ \E b \in {create_mapper(info, cart.members, a, value, byte, soon)} :
              IF InRange(b, a)
              THEN /\ cart' = IF cart.bus /\ there = "none" THEN Crash(cart)
                              ELSE [ApplyAll(info, b, cart, b.write) EXCEPT
                                       !.members = b.then]
                   /\ last' = <<"register", a>>
              ELSE /\ last' = <<there, a>>
                   /\ UNCHANGED cart
        /\ UNCHANGED <<rom, info>>

(* Board 99 follows a bit of the controller port, clock by clock.          *)
Mapper099_process_cpu_clock(bit) ==
    LET b == Mapper099
    IN  /\ rom # Unmapped
        /\ info.mapper = 99
        /\ writes < MaxWrites
        /\ writes' = writes + 1
        /\ cart' = ApplyAll(info, b, cart,
                     When(info.prg > 32, <<P(0, 4 * bit)>>) \o <<C(0, bit)>>)
        /\ last' = <<"clock">>
        /\ UNCHANGED <<rom, info>>

(* The PPU's fetches switch the pages of boards 9 and 10.                  *)
Mapper009_notify_vram_address_change(a) ==
    /\ rom # Unmapped
    /\ info.mapper \in {9, 10}
    /\ LET s == Mapper009_latches(info, cart.members, a)
       IN  cart' = [ApplyAll(info, declared(info), cart, Mapper009_update_chr_mapping(s))
                      EXCEPT !.members = s]
    /\ last' = <<"clock">>
    /\ UNCHANGED <<rom, info, writes>>

Init ==
    /\ rom = Unmapped
    /\ info = Unmapped
    /\ cart = Unmapped
    /\ last = <<"none">>
    /\ writes = 0

Next ==
    \/ \E r \in Roms : load_rom(r)
    \/ /\ Running
       /\ \E a \in Addresses(info), v \in Inputs(info), byte \in RomBytes, soon \in BOOLEAN :
              write_ram(a, v, byte, soon)
    \/ \E bit \in {0, 1} : Mapper099_process_cpu_clock(bit)
    \/ \E a \in {\h0FD8, \h0FDF, \h0FE8, \h0FEF, \h1FD8, \h1FE8} :
           Mapper009_notify_vram_address_change(a)

Spec == Init /\ [][Next]_vars

-----------------------------------------------------------------------------
Loaded == rom # Unmapped /\ ~cart.trap

(* The tables are usable in every state a program can bring the board to:  *)
(* the mapper never divides by an empty page count and never takes a bus   *)
(* conflict from an unmapped page, every mapped window lies inside its     *)
(* memory, the vectors are mapped, and so are the four nametables          *)
(* (select_prg_page, select_chr_page, write_ram, and the init of every     *)
(* board).                                                                 *)
TablesUsable ==
    rom # Unmapped =>
        /\ ~cart.trap
        /\ cart.prg[3] # Unmapped
        /\ \A w \in 0 .. 3 : cart.prg[w] = Unmapped \/ cart.prg[w] + 8 <= info.prg
        /\ \A w \in 0 .. 7 :
              \/ cart.chr[w] = Unmapped
              \/ cart.chr[w][2] < IF cart.chr[w][1] = "rom" THEN info.chr
                                  ELSE get_chr_ram_size(info)
        /\ \A i \in 1 .. 4 : cart.nt[i] \in 0 .. 3

(* Boards whose last window always shows the last page of the ROM.         *)
FixedLastBoards ==
    {2, 4, 9, 10, 18, 21, 22, 23, 25, 32, 33, 42, 65, 67, 70, 71, 72, 73, 75, 76, 78,
     88, 89, 93, 94, 95, 112, 118, 151, 154, 156, 206}

(* A fixed last bank stays the last bank of the ROM whatever is written,   *)
(* whichever way the board asks for it: by the bank count, by a negative   *)
(* page taken as an unsigned number, or by a literal.                      *)
LastBankFixed ==
    (Loaded /\ info.mapper \in FixedLastBoards) => cart.prg[3] = info.prg - 8

(* A write to an address the board's write_register decodes reaches it:    *)
(* the ranges declared by init agree with the cases of write_register.     *)
RegistersReached ==
    (Loaded /\ writes > 0 /\ last # <<"clock">>
       /\ last[2] \in declared(info).decodes)
    => last[1] = "register"

(* Boards whose init switches bus conflicts on, after load_rom has set     *)
(* what the database says.                                                 *)
ConflictBoards == {11, 72, 78, 92, 144, 148, 185}

(* What the database lists for a file decides over the header: the mapper  *)
(* (unless only the header's is supported), bus conflicts, and battery RAM *)
(* at $6000 from power on.  Over the board's defaults it decides with      *)
(* these boards excepted: a line without conflicts leaves them with theirs,*)
(* and every other board without.                                          *)
DatabaseWins ==
    (Loaded /\ rom.line # Unmapped) =>
        /\ is_supported(rom.line.mapper) => info.mapper = rom.line.mapper
        /\ rom.line.bus = "1" => cart.bus
        /\ rom.line.bus \in {"0", "N"} => (cart.bus <=> info.mapper \in ConflictBoards)
        /\ rom.line.battery >= 0 /\ writes = 0
             => (cart.low # Unmapped /\ cart.low[1] = "save") = (rom.line.battery = 1)

Tables(c) == <<c.prg, c.chr, c.nt, c.low>>

(* What the serial port of board 1 shows changes only with the fifth bit   *)
(* of a register or with a reset, and leaves the port empty.  A reset,     *)
(* whatever was being sent, brings the last bank of the ROM, or of its     *)
(* half of 256 KB, to $C000 (Mapper001::process_bit_write, write_register).*)
SerialPort ==
    [][(Loaded /\ info.mapper = 1 /\ Tables(cart') # Tables(cart)) =>
          /\ cart'.members.shift_count = 0
          /\ \/ cart.members.shift_count = 4
             \/ cart'.prg[3] + 8 \in {256, info.prg}]_vars

(* Five statements that do not hold (README, Disagreements).  A line of    *)
(* the database without bus conflicts leaves the board without them.       *)
DatabaseDecidesConflicts ==
    (Loaded /\ rom.line # Unmapped) => (rom.line.bus \in {"0", "N"} => ~cart.bus)

(* A page of ROM that init puts at $6000 is there when the program starts. *)
StartWindowKept ==
    (Loaded /\ writes = 0) =>
        \A k \in DOMAIN declared(info).start :
            LET call == declared(info).start[k]
            IN  call[1] = "window" => cart.low[1] = "prg"

(* ROM is read-only: no write of the program reaches a page of ROM.        *)
RomReadOnly == last[1] # "rom"

(* A board that leaves four-screen mirroring alone shows four nametables   *)
(* when the file has it (Mapper004::update_mirroring).                     *)
FourScreensKept ==
    (Loaded /\ info.mirroring = "four" /\ info.mapper \in {4, 75, 77, 151}) =>
        cart.nt = <<0, 1, 2, 3>>

(* The RAM of a file with a battery stays at $6000 while RAM is there.     *)
SaveRamKept ==
    (Loaded /\ info.battery /\ cart.low # Unmapped) => cart.low[1] \in {"save", "prg"}

=============================================================================
