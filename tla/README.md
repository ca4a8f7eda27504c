# A TLA+ verification of ear6

ear6 is a C++ library that emulates several systems behind one C API, with a
NES core that follows the hardware cycle by cycle, and hosts for macOS, Qt, the
web and the command line. This directory holds TLA+ models of the parts whose
correctness depends on the order of things: threads, cycles, callbacks, register
writes that take effect later, files replaced while the program may die.
TLC checks the models on small instances; TLAPS proves most of their safety
properties for every size.

Paths below are relative to the repository's root.

## 1. Inventory

| Part | Code | State | Operations | What is hard |
|---|---|---|---|---|
| Public API | `src/core/ear6.cpp` | one `Ear6` context: system, content, callbacks | create, load, step, save and load state, callbacks, buttons, palette | a failed load or restore must leave the running game alone |
| State container | `src/core/ear6.cpp`, `src/core/state_stream.h`, `src/systems/nes/nes_state.cpp` | none | parse, build, serialise every component in a fixed order | truncated, damaged or foreign data |
| NES console | `src/systems/nes/nes_console.cpp`, `nes_system.cpp` | the components, ROM information | load_rom, reset, run_frame, process_cpu_clock | components are replaced in place; order of resets |
| CPU | `src/systems/nes/nes_cpu.cpp` | registers, interrupt samples, DMA flags | exec, irq, memory_read, memory_write, process_pending_dma | interrupts are sampled one cycle before they are acted on; DMA starts only at reads |
| PPU | `src/systems/nes/nes_ppu.cpp` | raster position, registers, shifters, OAM | exec (one dot), register reads and writes | races of the program with the raster |
| APU | `src/systems/nes/audio/` | frame counter, five channels, packet ring | process_cpu_clock, run, register access, end_frame, push_frame | runs late and catches up; queue at its limit |
| DMC | `audio/delta_modulation_channel.cpp` | sample position, buffer, delays | run, process_clock, set_enabled, register writes | switched off and on while its DMA is pending |
| Controllers | `nes_control_manager.cpp`, `vs_control_manager.cpp` | strobe, shift registers, pending write | read, write, process_writes | a write takes effect one or two cycles later |
| Memory manager | `nes_memory_manager.cpp` | handler tables, open bus | register_io_device, read, write | who answers for an address |
| Mappers | `mappers/` | page tables, bank registers, IRQ counters | write_register, process_cpu_clock, notify_vram_address_change | counters that reload, fire and acknowledge |
| Desktop session | `apps/desktop/common/desktop_session.cpp` | current context, its source, the last frame, the sample ring | load_test, load_file, load_state, reset, step, save_state | replacing the context under the audio thread |
| Sample ring | `apps/desktop/common/audio_ring_buffer.cpp` | samples, read position, size | push, pop, clear | two threads; overflow |
| Save store | `apps/desktop/common/save_store.cpp`, `apps/desktop/qt/save_store.cpp` | one file per system and content | save, list, load | a crash between the steps of a save |
| macOS and Qt hosts | `apps/desktop/macos/main.mm`, `apps/desktop/qt/` | running flag, current path | open, start, stop, reset, save, load | flags that must agree with the session |
| Web host | `apps/web/ui/src/` | refs and React state, local storage | open (asynchronous), run, pause, reset, save, load, draw loop | what was decided before an `await` is applied after it |
| CLI | `apps/cli/main.cpp` | none beyond a run | batch | nothing concurrent |

How they interact: the host calls `ear6_step`, which runs the CPU until the PPU
has completed a picture. Each CPU cycle runs the PPU for three dots and clocks
mapper, APU and controllers (`NesCpu::start_cpu_cycle`, `end_cpu_cycle`). PPU,
APU and mapper talk back through flags the CPU samples (`set_nmi_flag`,
`set_irq_source`) and through the DMA requests (`run_dma_transfer`,
`start_dmc_transfer`, `stop_dmc_transfer`). At the end of the picture the sound
becomes a packet of the core's ring; `ear6_step` hands the oldest packet to the
audio callback, which on the desktop pushes it into the sample ring that the
audio device's own thread empties.

What makes each part correct:

* sound: no sample is lost, repeated or reordered except by forgetting the oldest
  ones when a queue is full; left and right are never swapped;
* DMA: every transfer asked for happens once and completely, one called off does
  not come back, and the CPU always goes on;
* interrupts: each NMI and IRQ has a cause, none is lost, none is taken twice;
* lazily run hardware cannot be told from hardware run on every cycle;
* hosts: what the window shows, what the session runs and what is on disk agree
  whatever fails and in whatever order the user acts.

## 2. Modules

| Module | Models | State and actions |
|---|---|---|
| `LossyStream` | what both audio queues promise | the interval `lo .. hi - 1` of stored items; `Put`, `Take`, `Clear` |
| `AudioRingBuffer` | `audio_ring_buffer.cpp` | `samples_`, `read_position_`, `size_`; `push` in its three cases, `pop`, `clear`, each atomic because each method holds `mutex_` for its whole body |
| `NesAudioRing` | the packet ring of `nes_apu.cpp` and its delivery by `ear6_step` | ring, indices, accumulator, callback; `step`, `end_frame`, `run_frame_end`, `deliver`, `no_delivery`, `poll`, `ear6_set_audio_callback` |
| `CpuDma` | the DMA of `nes_cpu.cpp` and the DMC's side of it | one action per CPU cycle: a read, the halt cycle, the four kinds of DMA cycle, the register writes |
| `NmiTiming` | raster and vertical blank of `nes_ppu.cpp`, interrupts of `nes_cpu.cpp` | `exec` chooses an instruction, `cpu_cycle` is two dots, an access, a dot, and the sampling |
| `ApuFrameCounter` | `apu_frame_counter.cpp`, `apu_length_counter.*`, the scheduling of `nes_apu.cpp` | the state as the code runs it, beside the same state run on every cycle |
| `Ear6Context` | the public API of `ear6.cpp`, with `NesSystem`, `TestSystem` and `NesConsole::load_rom` behind it | no state of its own: operators from a context to the context after the call |
| `WebHost` | `apps/web/ui/src/App.tsx`, `saveStore.ts`, over `Ear6Context` | context, refs, React state, local storage, file reads under way, keyboard; one action per handler, with those that `await` split where they do |
| `DesktopHost` | `desktop_session.cpp` and `macos/main.mm`, over `Ear6Context` | the session (context, frame, ring, reset source), run flag, window, save slots, keyboard; one action per handler |
| `SaveStore` | `apps/desktop/common/save_store.cpp` | directory, inodes, what each running copy is saving, its menu; one action per system call, plus failures and crashes |
| `NesState` | `nes_state.cpp` over `state_stream.h`, `NesSystem::save_state` and `load_state` | the cells (groups of members) of a machine, its page pointers, the last image; `run`, `save_state`, `load_saved`, `load_damaged` |
| `Boards` | about eighty simple boards of `mappers/` | no state: each board is a record of its page sizes, register ranges, `init` and `write_register` |
| `ChipBoards` | the boards of MMC1, MMC2, MMC3 (4, 118, 245), MMC4, Namco 108, VRC2 and VRC4, and 18, 35, 73, 117 | records as in `Boards`; MMC1's serial port, MMC2's latches |
| `NesCartridge` | `ines_loader.cpp`, `apply_nesdb_overrides`, `NesConsole::load_rom`, `base_mapper.cpp`, over `Boards` and `ChipBoards` | file, `rom_info_`, page tables; `load_rom`, `write_ram`, `Mapper099_process_cpu_clock`, `Mapper009_notify_vram_address_change` |
| `IrqTimer` | what a cartridge's timer promises | the time left, the period, the line; `Tick`, `Write`, `Idle` |
| `MapperIrq` | the interrupt counters of eighteen board variants | no state: per board a clock and the set of results its register writes can have |
| `NesClock` | `NesConsole::process_cpu_clock`, `nes_control_manager.cpp`, `vs_control_manager.cpp`, over `MapperIrq` | timer, controllers, cycle parity, bus access; `process_cpu_clock`, register writes, `$4016` and `$4017` accesses, PPU addresses, host input |
| `MC...` | | the instances for TLC |
| `..._proofs` | | the theorems about a module: `AudioRingBuffer`, `NesAudioRing`, `CpuDma`, `NmiTiming`, `NesClock`, `DesktopHost`, `SaveStore`, `WebHost` |

Definitions keep the names of the functions they translate. Operators whose name
continues that of another (`CopyOut_no_wrap`, `stop_dmc_transfer_keeps_halt`)
are deliberately wrong variants: each belongs to one property, which TLC must
find violated when the variant replaces the right definition. They are not part
of any specification.

### Abstractions

* Samples, chunks and packets are their numbers in production order, so that
  loss, repetition and reordering are visible in the values themselves.
* The CPU's program is arbitrary. In `CpuDma` an instruction is the shape of its
  bus accesses (reads, then writes to one address, then reads); in `NmiTiming` it
  is its length and what it does to the interrupt flag. A DMA, whose cycles sample
  the interrupt lines like all others, is part of the plain instruction whose read it delays
  (`OpCycles`); one that delays BRK, RTI, CLI, SEI or an interrupt sequence is left out.
* The DMC's output unit is the number of cycles until it asks for a byte.
  `NesApu::run` may run it late only while no byte is left to fetch
  (the `need_to_run` part of `FetchMatchesBuffer` is the reason it cannot be late
  otherwise), so it is clocked on every cycle.
* The raster and the frame counter's step table are scaled down; the relations
  that matter are kept (three dots to a CPU cycle, every alignment of cycle and
  raster reached, the last three steps of the four-step table adjacent).
* The IRQ sources of APU and mapper are one arbitrary level.
* For the hosts, content is a model value: a ROM whose mapper is implemented, one
  whose mapper is not (`load_rom` falls back to NROM, saving is refused), or a file
  that is no ROM. A machine is its content, the frames it has run and the buttons
  down in it. The identity hash has no collisions and damage to a container is one
  Boolean, which is what the CRC tells. Files are named after their content.
* In `NesState` a cell is a group of members that are declared and serialised
  together, and its value is the number of the run that wrote it last. The
  `..._members` sets are read off the class declarations and the `..._serialize`
  sequences off the serialize functions, so that a member without a counterpart
  shows as a cell that is not restored. The ROM is a cell too, because the program
  can write it; `run` lets every board write it, `NesCartridge!RomReadOnly` tells which do. Of the page
  tables `NesState` follows the window `$6000-$7FFF`, by the memory it lies in: where
  loading lays it, where each board's registers can lay it, and whether `sync_page`
  finds it there. An address past the end of a memory belongs to no memory or to
  another one, as the heap has it.
* In `NesCartridge` a window of the page tables is 8 KB of PRG or 1 KB of CHR,
  which is the least any board modelled maps. A bus conflict meets a byte of 0
  or of 255. MMC1 compares cycle numbers; the model says whether a write comes in
  the cycle after another, which only the second write of one instruction does. Files are whole: trainers and truncated files are left out. The CRC
  that finds a line of the database is the choice of that line. The boards' own
  `reset` functions are left out because the console never calls them.
* `MapperIrq` scales the radix of a nibble (`Nibble`, 16 in the code), from which
  the widths of bytes and words, the constants 0x1000, 0x6000 and 0x8000 and the
  masks of board 18 follow; `ScanlineDots` is 341 and `PrescalerLimit` 2^15. Time
  since A12 fell is counted up to the filter's three cycles.
* `NesClock` lets a program access the bus once a cycle and write in two
  consecutive cycles only to one address, as read-modify-write instructions do
  (no instruction writes to two I/O addresses in a row). Buttons, keyboard rows
  and the values written are scaled down; reads are judged by their serial bit. The
  real controller (`wire`) counts the reads of its port and, apart from them, the
  strays: reads of `$4020-$5FFF`, which on a Vs. System reach a port as well.
* `DesktopHost` saves in one step, which `SaveStore` takes apart. A process that
  dies keeps what it has written; power failures are not modelled (the store does
  not sync before it renames, so what they leave depends on the file system).

## 3. Runs

| Run | Instance | Shows |
|---|---|---|
| `audio_ring` | capacity 6, packets of 2, 4 and 8 samples, pops of 2 and 4, 24 samples in all | the ring holds the newest samples in order (`Contiguous`), keeps the channels apart (`StereoAligned`) and implements `LossyStream` |
| `nes_audio_ring` | three packets, nine chunks | nothing is lost but whole oldest packets, under any mixture of polling and callback; implements `LossyStream` |
| `cpu_dma` | two bytes per sprite DMA, samples of one and two bytes, output period 9 | no DMA forgotten, aborted too late or doubled; OAM in order; bounded cost; every halt ends, every sprite DMA completes, every byte is fetched or called off |
| `nmi_timing` | thirteen scanlines of seven dots, an arbitrary IRQ level; plain instructions of two to four cycles, BRK, RTI, CLI | the NMI line follows flag and enable bit, each vertical blank is seen at most once, NMIs are neither lost nor invented, no handler starts without a cause or is interrupted by its own request, frames keep their length |
| `apu_frame_counter` | steps four cycles apart, loads of 1 and 2 | running late is never noticed; no double clock |
| `web_host` | four files, one button, two file reads under way | the page describes what the context runs whatever finishes first (`UiMatchesContext`), the loop agrees with the Run button (`RunningAgrees`), nothing is stepped without content, saves are filed under their own content |
| `desktop_host` | three files under four names, one button, two frames | window, sound, reset source and input belong to the context that runs |
| `save_store` | one copy, two contents, states of one and two writes, four saves | a slot always holds the last save reported, whole, and listed entries stay loadable, across failures and crashes |
| `nes_state` | every board of the mapper factory but three, with and without battery, CHR ROM and Vs. System, no work RAM in the database or 2 or 8 KB, two runs of the program | a restored machine has every member as it was saved, and the ROM of its file (`RoundTripExact`); wherever the registers lay the window the machine can be saved, unless the window can reach beyond its RAM, and what was saved can be restored, also when memory was allocated while running (`StateUsable`) |
| `nes_state_members` | the three boards | expected to fail, see Findings |
| `cartridge` | about 260 files of 97 board numbers, every board with a line that switches bus conflicts off, three writes of three values, ten through the serial port | page tables never point outside their memories (`TablesUsable`), fixed banks stay fixed (`LastBankFixed`), every register a board decodes can be written (`RegistersReached`), the database overrules header and board defaults, but for the seven boards whose `init` switches bus conflicts on again (`DatabaseWins`), MMC1 changes what it shows only with a whole register or a reset (`SerialPort`) |
| `cpu_clock` | eighteen timers with nibbles of one bit and scanlines of eight dots; three kinds of controllers with two buttons, two values for `$4016` | every timer is the countdown of `IrqTimer` (`ImplementsTimer`); the strobe follows the last write at even cycles (`StrobeLatched`); a read returns the button whose turn it is, as the host has it (`PadReadsMatch`) |

Why the bounds are enough. The sample ring's instance has packets that fit, wrap,
overflow and exceed the ring, and produces four rings' worth. The packet ring
wraps and overflows twice. In `CpuDma` the period is long enough for a fetch to
end before the next starts, as in the hardware (432 cycles and more), and odd, so
that fetches start on get and on put cycles and meet a sprite DMA at every point.
In `NmiTiming` a frame is not a whole number of CPU cycles, as in the real raster,
so every access falls on every dot; the blank and the picture are each longer than
the longest instruction plus the interrupt sequence. SEI is left out of the instance because
it only delays what CLI allows, and HLT because a halted CPU takes no NMI
(`NmiNotLost` is not meant for it). `MaxProduced`, `MaxMixed`, `MaxStolen`
and `MaxSaves` bound histories, not the code's state, which is finite by itself; four
saves let a crashed save of two writes be followed by a shorter one in its leftover
file and by another content's. `MaxTicks` only makes a picture distinguishable from
the one before. Two reads under way are what it takes for the older one to finish last.
In `NesState` two runs let a restored machine go on and be saved again. `MaxWrites`
bounds a program of `NesCartridge`: two writes set a latch and the register it
selects, or two registers in either order, and a third meets what they left.
Board 1 takes five writes for a register, so `MaxSerial` allows two registers or
resets and stray bits between them; the port reads bits 0 and 7 of a value only, so
`SerialValues` has one value of each kind. In `MapperIrq` a
counter of 16 values wraps, reloads and is rewritten at every value; a scanline of
eight dots leaves, like one of 341, a remainder of two, so that all three
alignments of cycle and scanline occur, and the prescaler wraps after three cycles of cycle mode.

Fairness. Only `cpu_dma` assumes any: `WF_vars(exec)` and `WF_vars(Cycle)`
say that a host which started a step lets it finish and takes another, which is
what every host's frame loop does. There is no fairness on the DMC, on the program
or on the end of frames.

Deadlock is checked in every run but `cartridge`, whose programs end after
`MaxWrites` (`MaxSerial`) writes or with the crash of a board. Where a bounded history stops the producer
(`MaxProduced`, `MaxMixed`) the consumer's actions remain enabled.

### Findings

* `nes_state_members` (`RoundTripExact`). `docs/api-reference.md:278` says that
  every mapper the factory accepts supports the complete state round trip. Three
  boards keep a member that running changes and no serialize function visits:
  `bf9097_mode_` of board 71, `enable_mirroring_control_` of board 70, and the
  register range that board 45 removes when its outer registers are locked.
  Restoring starts from a newly loaded machine, so they come back as after power on.

### Disagreements

Found while modelling, each with the instance that reproduces it. The definitions
are in the modules named; to see a counterexample, change the constant in the
module's `.cfg`.

* `docs/api-reference.md:493` asks hosts to call `ear6_nes_clear_input` when the
  window loses focus, on pause and when the ROM changes. `App.tsx:248` listens to
  `keydown` and `keyup` only: a key held when the page loses the focus and released
  elsewhere stays pressed (`WebHost!NoStuckKeys` as the invariant). The macOS host
  makes the calls, and `KeysAreHeld` holds.
* `docs/state-format.md:146` says that saves are replaced atomically. They are for
  one running copy; two copies that save the same content share one temporary file
  (`save_store.cpp:101`), which the second empties before the first renames it
  (`SlotIsWhole` with `Instances <- MCTwo`, `Contents <- MCOneContent`).
* The same sentence of `docs/api-reference.md:278` that the finding quotes is wrong
  in three more ways. A program can write ROM on the boards that map it with the default
  access (board 0 for one), no serialize function visits `prg_rom_` and `chr_rom_`, and
  a restored machine has the file's bytes (`NesState!RoundTripComplete` with
  `Mappers = {0}`).
* A cartridge the database lists with 2 KB of work RAM and no battery cannot be
  saved: the 8 KB window is laid over a smaller memory (`base_mapper.cpp:150`) and
  `sync_page` finds pages in none of the machine's memories
  (`NesState!AlwaysSavable` with `Mappers <- SmallRamMappers`, `RamSizes = {2}`).
* MMC5 takes a RAM bank number of four bits for 64 KB of `wram_`
  (`mapper_005.cpp:121`): banks 8 to 15 lie beyond it, and the machine cannot be saved
  while one is mapped (`AlwaysSavable` with `Mappers = {5}`).
* A PRG ROM of 16 KB on a board with 32 KB pages has no page:
  `page %= max_page` divides by zero in `select_prg_page` (`base_mapper.cpp:121`).
  `data/nes/nes-db.txt` lists such files for boards 3, 79, 87, 145 and 185
  (`TablesUsable` with `Roms <- SmallRoms`).
* `docs/mapper_checklist.md:38` requires `init` to set the mirroring. Board 11 (and
  144) never does: its nametable pages stay null (`TablesUsable`, `Roms <- Board11`).
* The checklist (`:31`, `:59`) asks for the fixed last bank. Board 42 passes -1 as a
  page number, and 65535 % 20 is page 15 of the 160 KB file that the database lists
  (`LastBankFixed`, `Roms <- OddRoms`).
* Board 112 declares `$4020-$5FFF` and decodes `$8000`, `$A000`, `$C000` and `$E000`
  (`mapper_112.cpp:12`): none of its registers can be written (`RegistersReached`,
  `Roms <- Board112`).
* `docs/mapper_checklist.md:36` names the database and the board's default as the
  two sources of bus conflicts. Boards 11, 72, 78, 92, 144, 148 and 185
  switch them on in `init`, after the database has switched them off
  (`mapper_011.cpp:14`, `mapper_185.cpp:14`; `DatabaseDecidesConflicts`,
  `Roms <- ConflictRoms`).
* Boards 40, 42, 43 and 50 map ROM at `$6000` in `init`, and `load_rom` then covers
  it with work RAM (`nes_console.cpp:307`; `StartWindowKept`, `Roms <- WindowRoms`).
* PRG ROM is mapped for writing when no access is given (`base_mapper.cpp:88`): a
  write that is no register changes the ROM (`RomReadOnly`, `Roms <- Nrom`).
* `Mapper004::update_mirroring` leaves four-screen mirroring alone, but nothing ever
  sets it: `init` does not look at the file's mirroring, so the four-screen boards
  that `data/nes/nes-db.txt` lists for mapper 4 (such as 404B2E8B, NES-TVROM) run with
  two nametables (`mapper_004.cpp:143`; `FourScreensKept`, `Roms <- TvRom`).
* MMC1 and MMC3 have a `work_ram_` of their own that hides the base class's
  (`mapper_001.h:28`). `load_rom` maps the battery's RAM at `$6000`, and the first
  register write replaces it by the board's own: what the program had stored is
  gone (`SaveRamKept`, `Roms <- BatteryRoms`).
* MMC1 keeps the address of the last CHR register write and compares it with
  `$C000` (`mapper_001.cpp:94`), while the register answers in the whole of
  `$C000-$DFFF`: on a 512 KB board a write to `$C001` takes the PRG half from the
  other register. The model does the same; no document says which is meant.
* When the database's board is not supported but the header's is, the mapper number
  falls back to the header while submapper, mirroring and bus conflicts stay those
  of the other board (`nes_console.cpp:271`). Nothing says what the mixture should be.
* `docs/migration_guide.md:226` gives `$4020-$5FFF` to the mapper and expansion
  devices. On a Vs. System a read there falls through to the controllers and shifts
  the one its lowest bit names (`vs_control_manager.cpp:16`, `:38`): the next read of
  `$4016` or `$4017` skips a button (`NesClock!PadReadsPlain` as the invariant).
* Buttons are read live (`nes_control_manager.cpp:60`), while a real controller
  sends what it latched: input between two steps can mix two states in one sequence
  of reads (`NesClock!PadReadsExact` as the invariant).
* The comment in `apply_write` says that a rising edge of bit 1 advances the
  keyboard's row; the code advances it on the falling edge
  (`nes_control_manager.cpp:103`, `:107`). No key is ever down, so it cannot be seen.
* `VrcIrq`'s prescaler gains 338 a cycle in cycle mode and wraps its `int16_t` after
  96 cycles. A program that then switches to scanline mode without the enable bit
  and re-enables by an acknowledge starts from that value. `ImplementsTimer` leaves
  the timer unspecified from there until the next control write.

## 4. Proofs

Each `..._proofs` module defines an inductive invariant (`Inv`), shows that `Init`
implies it and that every action keeps it, one lemma per action, and derives the
theorems from it. All hold for every value of the constants that satisfies the named
`ASSUME`s of the module; the assumptions are types and non-emptiness, and what else is
needed is said below. `NmiTiming_proofs` and `NesClock_proofs` have a second invariant
each, for the theorems listed last. TLC checked every `Inv` on the instances of section 3 first.

`AudioRingBuffer_proofs`, for every even capacity and every set of even packet and
device buffer sizes:

* `RingCorrect` (`TypeOK`, `Contiguous`). The conjunction is inductive:
  `Contiguous` alone is not, because it needs the read position in range and no
  more samples stored than were produced. The arithmetic of going around the ring is
  in `Wrap` and `DistanceRange`.
* `ChannelsNeverSwap` (`StereoAligned`), from the invariant and the evenness of the
  counts (`StereoAssumption`: the callback pushes `num_samples * 2`, the device asks
  for whole frames).
* `RingImplementsStream`: the ring refines `LossyStream` under
  `lo <- produced - size, hi <- produced`. `PopOutput` shows that a pop delivers
  the oldest samples in order, across the wrap.

`NesAudioRing_proofs`, for any number of packets:

* `QueueHasNoGap` (`NoGapInQueue`). Inductive with three additions: the write index is
  the read index plus the count around the ring, packets are linked by their chunk
  numbers (each starts where the one before it ends), and what was heard lies before
  the oldest packet.
* `PacketRingImplementsStream`: the ring refines `LossyStream`. `push_frame` is the
  abstract `Put` also when it drops the oldest packet, and a delivery is the `Take`.

`CpuDma_proofs`, for sprite pages and samples of any length, any set of output
periods (also shorter than the hardware's) and any program:

* `HaltsMatchTransfers`, `FetchesMatchBuffer`, `OamWrittenInOrder`. The invariant says of
  the hardware alone (`HwOK`) what `FetchMatchesBuffer` says, that an abort is for a
  transfer past its halt, and that a transfer about to start is not under way; every
  helper of the clock is shown to keep it. Around it: outside the loop every fetch
  still has its halt to come; inside, only a fetch has one. The point at which
  `stop_dmc_transfer` could take a sprite DMA's halt away is closed by `SwitchedOff`: an
  instruction reads at least three times before it writes `$4014`, and by then a
  channel switched off earlier has stopped. The copy is in `Copying`: the counter is twice the bytes
  written, plus one between a read and its write.
* `DmaCostBounded` (`DmaCost`), by a second invariant (`Costs`) above the first: how
  many cycles beyond the copy's own the loop has taken in each of its phases. It needs that no
  fetch is called off during a sprite DMA, which is `SwitchedOff` again.

`NmiTiming_proofs`, for every raster, set of instructions, length of the plain ones and
IRQ level:

* `LineFollowsFlag`, `FramesKeepLength`. The invariant counts dots: a frame's dots so far
  are its place in the raster, less one if this odd frame has skipped one.
* `IrqHasReason`, `HandlersAreEntered`. Between them stands what the two sampling stages
  (`need_nmi`, `prev_need_nmi`, `run_irq`, `prev_run_irq`) hold in each
  cycle of an interrupt sequence.
* `NmiIsTaken` (`NmiNotLost`), `NmisAreCaused` (`NmiHasCause`). Both are false on a raster whose blank is
  shorter than the time the CPU may need, so they rest on `BlankAssumption`, which
  bounds that time by the longest instruction: the real raster satisfies it for instructions of up to
  2266 cycles, a sprite DMA with its DMC fetches included. And they are for programs without HLT
  (`"hlt" \notin Opcodes`), which takes no interrupts. The invariant `Served` counts both sides. `Wait` is
  the number of CPU cycles until a sampled NMI's vector is chosen, at most; `Age` is the number
  of dots since the picture ended, which goes on counting through the picture until the next vertical blank
  starts. A waiting NMI has `Age + 3 * Wait` below a deadline (`Deadline`), because a
  cycle adds at most three to the one and takes one from the other; so none waits when
  the next vertical blank starts, and each NMI taken or waiting has a cause of its own (`Caused`).
  The NMI of the vertical blank itself is taken, or waits with a deadline within it (`Taken`).

`NesClock_proofs`, for any number of buttons and keyboard rows, every board:

* `StrobeStaysLatched`, `ReadsStayMatched`. The controller's shift position is the
  number of reads the real one has seen, the strays of a Vs. System included, up to the number of
  buttons (`Turn`); a waiting `$4016` write is displaced by none but the
  second write of the same instruction, which is where the bus discipline of `NesClock` enters.
* `TimersImplementCountdown` (`ImplementsTimer`), for every even radix of a nibble, length of a scanline and
  limit of the prescaler: the eighteen timers refine `IrqTimer` under
  `left <- TimeLeft(cart), period <- TimePeriod(cart), line <- cart.irq`. The invariant `CartInv` says what
  some boards keep out of their counters: the byte counters stay below a byte, board 42's
  line is the level of its counter, board 43 has not reached its count while it is enabled.
  For each board one lemma shows that a clock is a tick of the countdown (`TickStep`), across
  the wrap of its counter, and one that its register writes keep the invariant and raise no
  line; the arithmetic they share (counting up and down modulo a width, replacing the low part of a
  word) comes first. VrcIrq's scanline mode is counted in thirds of a cycle, as `IrqTimer` does.

`DesktopHost_proofs` and `WebHost_proofs`, for any files, buttons, frames and (web) any
number of file reads under way:

* `WindowStaysCurrent`, `SoundStaysCurrent`, `ResetStaysCurrent`, `KeysStayHeld`. The
  invariant says that the window is what `updateFrame` makes of the session, that a session's
  name, source and context belong together, and that every slot holds a state
  that can be restored.
* `UiStaysCurrent`, `RunningStaysAgreed`, `SlotsStayMatched`. What a read under way may
  assume when it resumes is part of the invariant (`Reads`): the handlers that run
  meanwhile keep it.

`SaveStore_proofs`, for finitely many contents and states of any size:

* `SlotsStayWhole` (`SlotIsWhole`), `ReportedSaveStays` (`LastSaveStays`). Both are stated for one running
  copy (`Instances = {p}`); for two copies they are false (see Disagreements). The
  invariant follows the temporary file: while it is open no other name has its inode, and its parts are
  the first parts of the state being saved. That a free inode exists for the next file is a pigeonhole
  argument over the finite set of names, hence `ContentsAssumption`.

Only model-checked:

* `SpriteDmaCompletes` and `SampleFetched`: liveness is outside this prover's reach.
* `LazyIsExact` and `TicksApart` of `ApuFrameCounter`: catching up is a fold over the
  cycles missed, and what it computes needs induction.
* `RoundTripExact` and `StateUsable` of `NesState`: facts about the tables of members
  of each class, which are data; TLC evaluates them.
* `TablesUsable`, `LastBankFixed`, `RegistersReached`, `DatabaseWins` and `SerialPort`:
  `Boards`, `ChipBoards` and `NesCartridge` use bit operations that the prover does not support.

## 5. What is not modelled

* Pixels, sound synthesis (`nes_sound_mixer.cpp`, blip_buf, the sound chips of
  VRC6, FME-7 and Namco 163), the encoding of protobuf (upb), the user interface's
  layout: numeric or formatting work without an order of events.
* The arithmetic of instructions, scrolling, sprite evaluation, envelopes and
  sweeps: sequential computations that instruction and picture tests cover.
* The banking of the largest boards (MMC5, VRC6, FME-7, Namco 163, Bandai, JY),
  the timers of boards 5, 64 and 90, serial EEPROMs and the barcode reader.
* The Qt host, which drives the same C API through the same operations as the
  macOS host, the sound player of the web host, and the command line host, a
  sequential batch program.
* A zapper on port 2: no caller enables it.

## 6. Plan

Modules, if the project grows further: the remaining boards in `ChipBoards`; the
scroll registers shared by program and raster; the timers
of boards 5, 64 and 90 in `MapperIrq` (board 64 adds a delay after the count that a
disabling write does not cancel).

Proofs: DMA stalls of BRK, RTI and the interrupt sequence in `NmiTiming`, as intervals
of lengths like those of the plain instructions; `NesCartridge` once the bit operations of
`Boards` are written as arithmetic on powers of two.
