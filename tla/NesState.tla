------------------------------ MODULE NesState ------------------------------
(***************************************************************************)
(* Saving and restoring a NES machine (systems/nes/nes_state.cpp over      *)
(* core/state_stream.h).  One serialize function per class walks the       *)
(* members of the class and is used in both directions; the stream carries *)
(* no names, so a value goes back to whatever member has its position.     *)
(* Restoring happens in a machine newly made from the content: a member    *)
(* that no serialize function visits keeps the value it has after loading  *)
(* the content.                                                            *)
(*                                                                         *)
(* A cell is a group of members of one class that are declared and         *)
(* serialised together; what the program computes does not matter here,    *)
(* only whether a cell has been written since the machine was made.  The   *)
(* sets named ..._members are read off the class declarations (members     *)
(* that never change once the content is loaded are left out; the ROM is   *)
(* not one of these), the sequences named ..._serialize off the serialize  *)
(* functions.                                                              *)
(*                                                                         *)
(* The page tables are saved as offsets into memories.  Of the pages, the  *)
(* window $6000-$7FFF is followed: the memory it lies in, or "beyond" when *)
(* it reaches past the end of one, or "none".  NesCartridge!PagesInside is *)
(* about the pages of ROM and CHR.                                         *)
(***************************************************************************)
EXTENDS Integers, Sequences, SequencesExt

CONSTANTS
    Mappers,      \* the mapper numbers of the ROMs
    RamSizes,     \* work RAM sizes of the ROM database, in KB; 0 if it has none
    MaxRuns,      \* bound on the times the machine has run
    NoImage       \* nothing saved yet

ASSUME BoundsAssumption == MaxRuns \in Nat /\ RamSizes \subseteq Nat

In(part, names) == {<<part, n>> : n \in names}
Under(part, names) == [i \in DOMAIN names |-> <<part, names[i]>>]

-----------------------------------------------------------------------------
(* The parts every machine has.                                            *)

NesCpu_members == {"clocks", "operand_", "dma", "state_", "interrupts"}
NesCpu_serialize == <<"clocks", "operand_", "dma", "state_", "interrupts">>

NesPpu_members ==
    {"clock", "output_buffers_", "framebuffer_", "registers", "memory",
     "tile_", "sprites", "flags", "deferred", "oam_corruption",
     "visible_sprites", "emulator_enabled"}
NesPpu_serialize ==
    <<"clock", "framebuffer_", "output_buffers_", "registers", "memory",
      "tile_", "sprites", "flags", "deferred", "oam_corruption",
      "visible_sprites", "emulator_enabled">>

NesApu_members ==
    {"clock", "square1_", "square2_", "triangle_", "noise_", "dmc_",
     "frame_counter_", "audio_ring_", "ring_indices", "frame_accumulator_"}
ApuChannels_serialize == <<"square1_", "square2_", "triangle_", "noise_", "dmc_">>
NesApu_serialize_no_indices ==
    <<"clock">> \o ApuChannels_serialize
    \o <<"frame_counter_", "audio_ring_", "frame_accumulator_">>
NesApu_serialize ==
    <<"clock">> \o ApuChannels_serialize
    \o <<"frame_counter_", "audio_ring_", "ring_indices", "frame_accumulator_">>

NesSoundMixer_members ==
    {"previous_output_left_", "timestamps_", "channel_output_",
     "current_output_", "clock_rate_", "blip_buf_left_", "output_buffer_"}
NesSoundMixer_serialize ==
    <<"previous_output_left_", "timestamps_", "channel_output_",
      "current_output_", "clock_rate_", "blip_buf_left_", "output_buffer_">>

NesMemoryManager_members == {"internal_ram_", "open_bus_handler_"}
NesMemoryManager_serialize == <<"internal_ram_", "open_bus_handler_">>

NesControlManager_members ==
    {"pending_write", "controller_state_", "controller_read_pos_", "strobe_",
     "topology", "keyboard"}
NesControlManager_serialize ==
    <<"pending_write", "controller_state_", "controller_read_pos_", "strobe_",
      "topology", "keyboard">>

VsControlManager_members ==
    NesControlManager_members \cup {"dip_switches_", "protection_counter_",
                                    "prg_chr_select_bit_"}
VsControlManager_serialize ==
    NesControlManager_serialize \o <<"dip_switches_", "protection_counter_",
                                     "prg_chr_select_bit_">>

-----------------------------------------------------------------------------
(* The boards.  The table of register addresses, is_write_register_addr_,  *)
(* is not serialised; init fills it, and one board changes it later.  The  *)
(* vectors prg_rom_ and chr_rom_ are not serialised either, although most  *)
(* boards map their ROM with the default access, which is READ_WRITE, so   *)
(* that the program can write it.                                          *)

BaseMapper_members ==
    {"prg_rom_", "chr_rom_", "chr_ram_", "work_ram_", "save_ram_",
     "nametable_ram_", "mirroring_type_", "prg_pages_", "chr_pages_",
     "page_access"}
BaseMapper_serialize ==
    <<"chr_ram_", "work_ram_", "save_ram_", "nametable_ram_",
      "mirroring_type_", "prg_pages_", "chr_pages_", "page_access">>

(* Members of the boards themselves, by class.                             *)
Mapper001_members == {"own_ram", "serial", "registers", "last_write_cycle_"}
Mapper004_members == {"own_ram", "irq", "registers", "wram", "a12_low_clock_"}
Mapper005_members ==
    {"exram_", "wram_", "banks", "fill_mode", "split", "multiplier", "irq",
     "ppu_tracking", "ex_attributes", "audio", "chr_select"}
Mapper016_members == {"own_ram", "registers", "irq", "submapper_",
                      "standard_eeprom_", "extra_eeprom_"}
Mapper019_members == {"variant", "nametable_modes", "irq_counter_", "audio"}
Mapper064_members == {"registers", "irq", "a12_low_clock_"}
Mapper069_members == {"command_", "work_ram_value_", "irq", "audio"}
Mapper090_members == {"registers", "irq", "last_ppu_address_", "multiplier"}
MapperVRC6_members == {"banking", "irq_", "pulse_1_", "pulse_2_", "saw_",
                       "audio"}
OtherBoard_members ==
    [Mapper000 |-> {"chr_is_ram_"}, Mapper002 |-> {"own_ram"},
     Mapper006 |-> {"irq", "ffe_alt_mode_"},
     Mapper009 |-> {"latches", "pages"}, Mapper018 |-> {"banks", "irq"},
     Mapper032 |-> {"prg"}, Mapper035 |-> {"irq", "a12_low_clock_"},
     Mapper041 |-> {"banks"}, Mapper060 |-> {"reset_counter_"},
     Mapper065 |-> {"irq"}, Mapper067 |-> {"irq"},
     Mapper068 |-> {"nametables", "prg_ram_enabled_", "licensing"},
     Mapper070 |-> {"enable_mirroring_control_"}, Mapper072 |-> {"flags"},
     Mapper073 |-> {"irq"}, Mapper075 |-> {"chr_banks_"},
     Mapper092 |-> {"flags"}, Mapper099 |-> {"prg_chr_select_bit_"},
     Mapper112 |-> {"registers"}, Mapper117 |-> {"irq", "a12_low_clock_"},
     Mapper156 |-> {"chr"}, Mapper170 |-> {"reg_"},
     Mapper202 |-> {"prg_mode1_"}, Mapper221 |-> {"mode_", "prg_reg_"},
     Mapper226 |-> {"registers_"}, Mapper230 |-> {"contra_mode_"},
     Mapper233 |-> {"registers_", "reset_flag_"},
     Mapper252 |-> {"chr_registers_", "irq_"},
     Mapper40 |-> {"irq_counter_"}, Mapper42 |-> {"irq", "prg_reg_"},
     Mapper43 |-> {"reg_", "swap_", "irq"}, Mapper46 |-> {"regs_"},
     Mapper50 |-> {"irq"}, Mapper57 |-> {"registers_"},
     Mapper71 |-> {"bf9097_mode_"},
     MapperNamco108 |-> {"registers"}, MapperSachen74LS374N |-> {"registers"},
     MapperVRC2_4 |-> {"variant_", "prg", "chr", "latch_", "irq_"}]

(* Mapper045 takes its outer registers off the bus once they are locked.   *)
Mapper045_members ==
    Mapper004_members \cup {"outer_registers_", "is_write_register_addr_"}

board_members(class) ==
    CASE class = "Mapper001" -> Mapper001_members
      [] class \in {"Mapper004", "Mapper074", "Mapper118", "Mapper245"} ->
             Mapper004_members
      [] class = "Mapper045" -> Mapper045_members
      [] class = "Mapper005" -> Mapper005_members
      [] class = "Mapper016" -> Mapper016_members
      [] class = "Mapper019" -> Mapper019_members
      [] class = "Mapper064" -> Mapper064_members
      [] class = "Mapper069" -> Mapper069_members
      [] class = "Mapper090" -> Mapper090_members
      [] class = "MapperVRC6" -> MapperVRC6_members
      [] class \in DOMAIN OtherBoard_members -> OtherBoard_members[class]
      [] OTHER -> {}

(* The serialize functions of the boards, in the order of the file.  A     *)
(* board's own memories come before BaseMapper's part, whose page tables   *)
(* may point into them; the registers come after it.                       *)
Base(rest) == BaseMapper_serialize \o rest
Owned(memories, rest) == memories \o BaseMapper_serialize \o rest

Mapper001_serialize ==
    Owned(<<"own_ram">>, <<"serial", "registers", "last_write_cycle_">>)
Mapper004_serialize ==
    Owned(<<"own_ram">>, <<"irq", "registers", "wram", "a12_low_clock_">>)
Mapper005_serialize ==
    Owned(<<"exram_", "wram_">>,
          <<"banks", "fill_mode", "split", "multiplier", "irq", "ppu_tracking",
            "ex_attributes", "audio", "chr_select">>)
Mapper016_serialize ==
    Owned(<<"own_ram">>, <<"registers", "irq", "submapper_",
                           "standard_eeprom_", "extra_eeprom_">>)
boards_006_to_019 ==
    [Mapper006 |-> Base(<<"irq", "ffe_alt_mode_">>),
     Mapper009 |-> Base(<<"latches", "pages">>),
     Mapper018 |-> Base(<<"banks", "irq">>),
     Mapper019 |-> Base(<<"variant", "nametable_modes", "irq_counter_", "audio">>)]
boards_032_to_075 ==
    [Mapper032 |-> Base(<<"prg">>), Mapper035 |-> Base(<<"irq", "a12_low_clock_">>),
     Mapper041 |-> Base(<<"banks">>), Mapper060 |-> Base(<<"reset_counter_">>),
     Mapper064 |-> Base(<<"registers", "irq", "a12_low_clock_">>),
     Mapper065 |-> Base(<<"irq">>), Mapper067 |-> Base(<<"irq">>),
     Mapper068 |-> Base(<<"nametables", "prg_ram_enabled_", "licensing">>),
     Mapper069 |-> Base(<<"command_", "work_ram_value_", "irq", "audio">>),
     Mapper072 |-> Base(<<"flags">>), Mapper073 |-> Base(<<"irq">>),
     Mapper075 |-> Base(<<"chr_banks_">>)]
boards_090_to_233 ==
    [Mapper090 |-> Base(<<"registers", "irq", "last_ppu_address_", "multiplier">>),
     Mapper092 |-> Base(<<"flags">>), Mapper099 |-> Base(<<"prg_chr_select_bit_">>),
     Mapper112 |-> Base(<<"registers">>),
     Mapper117 |-> Base(<<"irq", "a12_low_clock_">>),
     Mapper156 |-> Base(<<"chr">>), Mapper170 |-> Base(<<"reg_">>),
     Mapper202 |-> Base(<<"prg_mode1_">>),
     Mapper221 |-> Base(<<"mode_", "prg_reg_">>),
     Mapper226 |-> Base(<<"registers_">>), Mapper230 |-> Base(<<"contra_mode_">>),
     Mapper233 |-> Base(<<"registers_", "reset_flag_">>)]
boards_40_to_252 ==
    [Mapper40 |-> Base(<<"irq_counter_">>), Mapper42 |-> Base(<<"irq", "prg_reg_">>),
     Mapper43 |-> Base(<<"reg_", "swap_", "irq">>), Mapper46 |-> Base(<<"regs_">>),
     Mapper50 |-> Base(<<"irq">>), Mapper57 |-> Base(<<"registers_">>),
     MapperNamco108 |-> Base(<<"registers">>),
     MapperSachen74LS374N |-> Base(<<"registers">>),
     MapperVRC2_4 |-> Base(<<"variant_", "prg", "chr", "latch_", "irq_">>),
     MapperVRC6 |-> Base(<<"banking", "irq_", "pulse_1_", "pulse_2_", "saw_",
                           "audio">>),
     Mapper252 |-> Base(<<"chr_registers_", "irq_">>)]

board_serialize(class) ==
    CASE class = "Mapper000" -> Base(<<"chr_is_ram_">>)
      [] class = "Mapper001" -> Mapper001_serialize
      [] class = "Mapper002" -> Owned(<<"own_ram">>, <<>>)
      [] class \in {"Mapper004", "Mapper074", "Mapper118", "Mapper245"} ->
             Mapper004_serialize
      [] class = "Mapper045" -> Mapper004_serialize \o <<"outer_registers_">>
      [] class = "Mapper005" -> Mapper005_serialize
      [] class = "Mapper016" -> Mapper016_serialize
      [] class \in DOMAIN boards_006_to_019 -> boards_006_to_019[class]
      [] class \in DOMAIN boards_032_to_075 -> boards_032_to_075[class]
      [] class \in DOMAIN boards_090_to_233 -> boards_090_to_233[class]
      [] class \in DOMAIN boards_40_to_252 -> boards_40_to_252[class]
      [] OTHER -> BaseMapper_serialize

-----------------------------------------------------------------------------
(* MapperFactory: the numbers it accepts and the classes it makes of them. *)
(* Boards without members of their own are one class here.                 *)

is_supported(n) ==
    n \in (0 .. 11) \cup {13} \cup (15 .. 19) \cup (21 .. 26) \cup (32 .. 35)
          \cup {38, 39, 40, 41, 42, 43, 45, 46, 50, 57, 58} \cup (60 .. 62)
          \cup (64 .. 79) \cup (86 .. 90) \cup (92 .. 95)
          \cup {99, 101, 107, 112, 113, 117, 118, 133, 140} \cup (143 .. 146)
          \cup (148 .. 151) \cup {153, 154, 156, 157, 159, 170, 174, 180, 184,
          185, 200} \cup (202 .. 204) \cup {206, 210, 213, 214, 216, 221}
          \cup (225 .. 227) \cup (229 .. 231) \cup {233} \cup (240 .. 246)
          \cup {252}

BoardNumbers ==
    [Mapper001 |-> {1}, Mapper002 |-> {2}, Mapper004 |-> {4},
     Mapper005 |-> {5}, Mapper006 |-> {6, 8, 17}, Mapper009 |-> {9, 10},
     Mapper016 |-> {16, 153, 157, 159}, Mapper018 |-> {18},
     Mapper019 |-> {19, 210}, MapperVRC2_4 |-> {21, 22, 23, 25},
     MapperVRC6 |-> {24, 26}, Mapper032 |-> {32}, Mapper035 |-> {35},
     Mapper041 |-> {41}, Mapper060 |-> {60}, Mapper064 |-> {64},
     Mapper065 |-> {65}, Mapper067 |-> {67}, Mapper068 |-> {68},
     Mapper069 |-> {69}, Mapper070 |-> {70}, Mapper072 |-> {72},
     Mapper073 |-> {73}, Mapper074 |-> {74}, Mapper075 |-> {75, 151},
     MapperNamco108 |-> {76, 88, 95, 154, 206}, Mapper090 |-> {90},
     Mapper092 |-> {92}, Mapper099 |-> {99}, Mapper112 |-> {112},
     Mapper117 |-> {117}, Mapper118 |-> {118}, Mapper156 |-> {156},
     Mapper170 |-> {170}, Mapper202 |-> {202}, Mapper221 |-> {221},
     Mapper226 |-> {226}, Mapper230 |-> {230}, Mapper233 |-> {233},
     Mapper245 |-> {245}, Mapper252 |-> {252}, Mapper40 |-> {40},
     Mapper42 |-> {42}, Mapper43 |-> {43}, Mapper045 |-> {45},
     Mapper46 |-> {46}, Mapper50 |-> {50}, Mapper57 |-> {57},
     Mapper71 |-> {71}, MapperSachen74LS374N |-> {150, 243},
     MapperWithoutMembers |-> {3, 7, 11, 144, 13, 15, 34, 38, 39, 33, 58, 61,
        62, 66, 78, 79, 113, 146, 86, 87, 101, 89, 93, 94, 133, 140, 143, 145,
        148, 149, 180, 184, 107, 185, 200, 203, 204, 213, 214, 240, 241, 242,
        225, 229, 77, 174, 216, 227, 231, 244, 246}]

create(n) ==
    IF \E c \in DOMAIN BoardNumbers : n \in BoardNumbers[c]
    THEN CHOOSE c \in DOMAIN BoardNumbers : n \in BoardNumbers[c]
    ELSE "Mapper000"

-----------------------------------------------------------------------------
(* A machine.                                                              *)

VARIABLES
    rom,       \* what load_rom knows of the content
    live,      \* the machine's cells, each with the run that wrote it last
    window,    \* the memory that the pages of $6000-$7FFF lie in
    chr_ram,   \* CHR RAM has been allocated
    image,     \* the last state that was saved, or NoImage
    saved,     \* history: the machine as it was when image was made
    last       \* the last operation and what it returned

vars == <<rom, live, window, chr_ram, image, saved, last>>

control_members(r) == IF r.vs THEN VsControlManager_members
                              ELSE NesControlManager_members
control_serialize(r) == IF r.vs THEN VsControlManager_serialize
                                ELSE NesControlManager_serialize

Members(r) ==
    {<<"system", "palette_">>, <<"console", "last_completed_ppu_frame_">>}
    \cup In("cpu", NesCpu_members) \cup In("ppu", NesPpu_members)
    \cup In("memory", NesMemoryManager_members)
    \cup In("mixer", NesSoundMixer_members) \cup In("apu", NesApu_members)
    \cup In("mapper", BaseMapper_members \cup board_members(create(r.mapper)))
    \cup In("control", control_members(r))

NesConsole_serialize(r) ==
    << <<"console", "last_completed_ppu_frame_">> >>
    \o Under("cpu", NesCpu_serialize) \o Under("ppu", NesPpu_serialize)
    \o Under("memory", NesMemoryManager_serialize)
    \o Under("mixer", NesSoundMixer_serialize) \o Under("apu", NesApu_serialize)
    \o Under("mapper", board_serialize(create(r.mapper)))
    \o Under("control", control_serialize(r))

Layout(r) == << <<"system", "palette_">> >> \o NesConsole_serialize(r)

-----------------------------------------------------------------------------
(* The window $6000-$7FFF.                                                 *)

(* load_rom gives mapper 99 the VS. controllers whatever the header says.  *)
LoadedRoms == {r \in [mapper : Mappers, vs : BOOLEAN, battery : BOOLEAN,
                      ram : RamSizes, chr_rom : BOOLEAN] :
                  r.mapper = 99 => r.vs}

(* init_work_ram: the size of work_ram_ in a machine without a battery.    *)
work_ram_size(r) ==
    IF r.ram > 0 THEN r.ram
    ELSE CASE create(r.mapper) = "Mapper069" -> 32
           [] create(r.mapper) = "Mapper099" -> 2
           [] OTHER -> 8

Ram(r) == IF r.battery THEN "save_ram_" ELSE "work_ram_"

(* The window is always 8 KB, whatever the size of the memory below it.    *)
RamWindow(r) ==
    IF ~r.battery /\ work_ram_size(r) < 8 THEN "beyond" ELSE Ram(r)

(* Where the window is once the content is loaded.  Mapper019 enlarges its *)
(* RAM to 8 KB, Mapper099 lays 2 KB four times into the window, and VRC2   *)
(* boards with a microwire latch have no RAM there (which of them do is    *)
(* left open here).                                                        *)
setup_default_work_ram(r) ==
    LET class == create(r.mapper)
    IN  CASE class \in {"Mapper019", "Mapper099"} -> {Ram(r)}
          [] class = "Mapper069" -> {"prg_rom_"}
          [] class = "Mapper090" -> {"none"}
          [] class = "MapperVRC2_4" /\ ~r.battery /\ r.ram = 0 ->
                 {RamWindow(r), "none"}
          [] OTHER -> {RamWindow(r)}

(* Where the registers of a board can lay the window later.  Mapper005 has *)
(* 64 KB of RAM and a bank number of four bits.                            *)
bank_window(r) ==
    LET class == create(r.mapper)
    IN  CASE class = "Mapper001" -> {"own_ram", "none"}
          [] class \in {"Mapper004", "Mapper045", "Mapper074", "Mapper118",
                        "Mapper245"} -> {"own_ram"}
          [] class = "Mapper005" -> {"prg_rom_", "wram_", "beyond"}
          [] r.mapper = 153 -> {"own_ram"}
          [] class = "Mapper019" -> {Ram(r)}
          [] class \in {"Mapper068", "MapperVRC6"} -> {RamWindow(r)}
          [] class = "Mapper069" -> {"prg_rom_", RamWindow(r)}
          [] class = "Mapper090" -> {"prg_rom_", "none"}
          [] class \in {"Mapper42", "Mapper43"} -> {"prg_rom_"}
          [] OTHER -> {}

(* The memories a page may lie in when it is saved: BaseMapper's own, then *)
(* what locate_state_memory of the board adds.                             *)
BaseMapper_memories ==
    {"prg_rom_", "chr_rom_", "chr_ram_", "work_ram_", "save_ram_",
     "nametable_ram_"}
OwnRamBoards == {"Mapper001", "Mapper002", "Mapper004", "Mapper045",
                 "Mapper074", "Mapper118", "Mapper245", "Mapper016"}
locate_state_memory_without_016(class) ==
    CASE class \in OwnRamBoards \ {"Mapper016"} -> {"own_ram"}
      [] class = "Mapper005" -> {"exram_", "wram_"}
      [] OTHER -> {}
locate_state_memory(class) ==
    CASE class \in OwnRamBoards -> {"own_ram"}
      [] class = "Mapper005" -> {"exram_", "wram_"}
      [] OTHER -> {}

StateMemories(r) == BaseMapper_memories \cup locate_state_memory(create(r.mapper))

(* CHR RAM after loading the content: without CHR ROM there is some, and   *)
(* Mapper77 has both.                                                      *)
HasChrRam(r) == ~r.chr_rom \/ r.mapper = 77

-----------------------------------------------------------------------------
PoweredOn(r) == [m \in Members(r) |-> <<m, 0>>]

Init ==
    /\ rom \in LoadedRoms
    /\ live = PoweredOn(rom)
    /\ window \in setup_default_work_ram(rom)
    /\ chr_ram = HasChrRam(rom)
    /\ image = NoImage
    /\ saved = live
    /\ last = "loaded_rom"

(* Running the machine may change every member.  Only the run's number is  *)
(* of interest; it stands for whatever the program computed.               *)
Runs == live[<<"system", "palette_">>][2]

run ==
    /\ Runs < MaxRuns
    /\ live' = [m \in DOMAIN live |-> <<m, Runs + 1>>]
    /\ window' \in {window} \cup bank_window(rom)
    /\ chr_ram' \in {chr_ram, chr_ram \/ create(rom.mapper) = "Mapper074"}
    /\ last' = "run"
    /\ UNCHANGED <<rom, image, saved>>

(* sync_page: the memory that a page is saved as.  An address beyond the   *)
(* end of a memory lies in none or, as the heap has it, in another one,    *)
(* for which prg_rom_, the first one tried, stands here.                   *)
sync_page(r, page) ==
    CASE page = "beyond" -> {"unknown", "prg_rom_"}
      [] page \in StateMemories(r) \cup {"none"} -> {page}
      [] OTHER -> {"unknown"}

(* NesSystem::save_state.  A page of an unknown memory fails the stream.   *)
save_state ==
    \E region \in sync_page(rom, window) :
        LET L == Layout(rom)
            ok == is_supported(rom.mapper) /\ region # "unknown"
        IN  /\ last' = IF ok THEN "saved" ELSE "save_failed"
            /\ image' = IF ok THEN [cells |-> [i \in DOMAIN L |-> live[L[i]]],
                                    chr_ram |-> chr_ram, window |-> region]
                              ELSE image
            /\ saved' = IF ok THEN live ELSE saved
            /\ UNCHANGED <<rom, live, window, chr_ram>>

(* What the loading direction makes of a stream, in a machine newly made   *)
(* from the content: cells go back by position, and a page that lies in a  *)
(* memory the machine does not know, or whose size it does not have yet,   *)
(* is refused.                                                             *)
PagesRestorable(r, img) ==
    LET L == Layout(r)
        at(name) == CHOOSE i \in DOMAIN L : L[i] = <<"mapper", name>>
    IN  /\ img.window \in StateMemories(r) \cup {"none"}
        /\ \/ HasChrRam(r) \/ ~img.chr_ram
           \/ at("chr_ram_") < at("chr_pages_")

Restores(r, img) ==
    /\ Len(img.cells) = Len(Layout(r))
    /\ PagesRestorable(r, img)
    /\ img.cells[1] # "bad"

restored_cells(r, cells) ==
    LET L == Layout(r)
        visited == ToSet(L)
    IN  [m \in Members(r) |->
            IF m \in visited
            THEN cells[CHOOSE i \in DOMAIN cells : L[i] = m]
            ELSE PoweredOn(r)[m]]

(* ear6_load_state_from_memory restores into a candidate and throws it     *)
(* away if the stream does not fit.                                        *)
load_state(img, verdict) ==
    LET ok == Restores(rom, img)
    IN  /\ live' = IF ok THEN restored_cells(rom, img.cells) ELSE live
        /\ window' = IF ok THEN img.window ELSE window
        /\ chr_ram' = IF ok THEN img.chr_ram ELSE chr_ram
        /\ last' = IF ok THEN "loaded" ELSE verdict
        /\ UNCHANGED <<rom, image, saved>>

load_saved == image # NoImage /\ load_state(image, "load_failed")

(* A stream of another version or build: some cells are missing, there are *)
(* more than expected, or a value fails one of the range checks.           *)
load_damaged ==
    /\ image # NoImage
    /\ \E cells \in {SubSeq(image.cells, 1, Len(image.cells) - 1),
                     Append(image.cells, "surplus"),
                     [image.cells EXCEPT ![1] = "bad"]} :
           load_state([image EXCEPT !.cells = cells], "refused")

Next == run \/ save_state \/ load_saved \/ load_damaged

Spec == Init /\ [][Next]_vars

-----------------------------------------------------------------------------
(* Restoring a state gives the machine that was saved, in every member of  *)
(* every class that running can change (nes_state.cpp; api-reference.md    *)
(* promises the complete round trip for every supported mapper).  The one  *)
(* difference is the ROM: what the program wrote there is gone, and the    *)
(* machine has the ROM of the content file again.                          *)
RomCells == In("mapper", {"prg_rom_", "chr_rom_"})

RoundTripExact ==
    last = "loaded" =>
        \A m \in DOMAIN live :
            live[m] = IF m \in RomCells THEN PoweredOn(rom)[m] ELSE saved[m]

(* The ROMs whose window can reach beyond the end of its RAM: boards with  *)
(* the common window over less than 8 KB (BaseMapper::setup_default_work_ram *)
(* and the registers that lay it again), and the RAM banks of Mapper005.   *)
Overreaching(r) ==
    \/ create(r.mapper) = "Mapper005"
    \/ /\ ~r.battery /\ r.ram \in 1 .. 7
       /\ create(r.mapper) \notin {"Mapper019", "Mapper090", "Mapper099"}

(* A machine with a supported mapper can be saved at any moment, however   *)
(* its registers have laid the window, unless its window can reach beyond  *)
(* its RAM; and what was saved can be restored.  For this every memory a   *)
(* board maps must be known to its locate_state_memory, and a memory that  *)
(* running allocates must be visited before the pages (sync_page).         *)
StateUsable ==
    /\ last = "save_failed" => ~is_supported(rom.mapper) \/ Overreaching(rom)
    /\ last # "load_failed"

-----------------------------------------------------------------------------
(* Two statements that do not hold (README, Disagreements): a restored     *)
(* machine is the one that was saved, its ROM included; and a machine with *)
(* a supported mapper can always be saved.                                 *)
RoundTripComplete == last = "loaded" => live = saved
AlwaysSavable == last = "save_failed" => ~is_supported(rom.mapper)

=============================================================================
