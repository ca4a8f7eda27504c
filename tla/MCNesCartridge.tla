--------------------------- MODULE MCNesCartridge ---------------------------
(***************************************************************************)
(* ROMs of every board modelled: plain files of two sizes, files whose     *)
(* header has another mapper number or an old format, and files the        *)
(* database corrects.  The files on which a board breaks one of the        *)
(* properties are defined apart, at the end: the README lists them under   *)
(* Disagreements.                                                          *)
(***************************************************************************)
EXTENDS NesCartridge

Line(mapper, bus, battery, work_ram, submapper, mirroring) ==
    [mapper |-> mapper, bus |-> bus, battery |-> battery, work_ram |-> work_ram,
     submapper |-> submapper, mirroring |-> mirroring,
     system |-> IF mapper = 99 THEN "VsSystem" ELSE "NesNtsc"]

Header(kind, mapper, submapper, prg_banks, chr_banks, mirroring) ==
    [kind |-> kind, mapper |-> mapper, submapper |-> submapper,
     prg_banks |-> prg_banks, chr_banks |-> chr_banks, battery |-> FALSE,
     mirroring |-> mirroring, byte8 |-> 0]

File(mapper, prg_banks, chr_banks, line) ==
    [header |-> Header("ines", mapper, 0, prg_banks, chr_banks, "vertical"),
     line |-> line]

(* Boards 11 and 144 map no nametables, board 112 declares none of its     *)
(* registers.  Board 1 has the serial port and one file of its own.        *)
Sound == (SimpleBoards \cup ChipNumbers) \ {1, 11, 112, 144}

Variants ==
    {[header |-> Header("nes20", n, sub, 8, 16, "horizontal"), line |-> Unmapped] :
        n \in {32, 71, 78, 185}, sub \in {1, 3, 4, 5}}
    \cup {[header |-> Header("nes20", n, 2, 8, 16, "horizontal"), line |-> Unmapped] :
             n \in {21, 22, 23, 25}}
    \cup {File(1, 32, 4, Unmapped), File(245, 64, 0, Unmapped)}
    \cup {[header |-> Header("old", n + 64, 0, 8, 4, "four"), line |-> Unmapped] :
             n \in {2, 3, 15}}
    \cup {[header |-> [Header("ines", 33, 0, 8, 4, "vertical") EXCEPT !.byte8 = 1,
                                                        !.battery = TRUE],
           line |-> Line(n, "", battery, 0, 1, "4")] :
             n \in {2, 75, 99, 562}, battery \in {-1, 0, 1}}
    \cup {File(n, 8, 4, Line(n, bus, -1, 8, 1, "")) :
             n \in {2, 3, 7, 71, 72, 78, 92, 148, 185}, bus \in {"1", "0", "2"}}

(* The small file of every board has a line without bus conflicts, as      *)
(* nes-db.txt writes it: some boards' init switches them on again.         *)
SoundRoms ==
    {File(n, 8, 16, Unmapped) : n \in Sound}
    \cup {File(n, 2, 0, Line(n, "N", -1, 0, -1, "")) : n \in Sound}
    \cup {File(n, 6, 4, Unmapped) : n \in {2, 67, 70, 78, 89, 93, 94, 156}}
    \cup Variants

(* Files of 16 KB, which nes-db.txt lists for boards with 32 KB pages.     *)
SmallRoms == {File(n, 1, 2, Unmapped) : n \in {3, 79, 87, 145, 185}}
(* The 160 KB file of nes-db.txt for board 42.                             *)
OddRoms == {File(42, 10, 0, Unmapped)}
(* Lines without bus conflicts for the boards that switch them on; board   *)
(* 11 as nes-db.txt lists it.                                              *)
ConflictRoms == {File(n, 8, 16, Line(n, "N", 0, 0, 0, "h")) : n \in ConflictBoards}
Board11 == {File(11, 8, 16, Unmapped)}
Board112 == {File(112, 8, 16, Unmapped)}
WindowRoms == {File(n, 8, 0, Unmapped) : n \in {40, 42, 43, 50}}
TvRom == {File(4, 4, 8, Line(4, "", 0, 0, 0, "4"))}
BatteryRoms == {File(n, 8, 4, Line(n, "", 1, 0, 0, "h")) : n \in {1, 4}}
Nrom == {File(0, 2, 1, Unmapped)}

=============================================================================
