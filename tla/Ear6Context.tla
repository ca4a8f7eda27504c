----------------------------- MODULE Ear6Context -----------------------------
(***************************************************************************)
(* The public API of ear6 (core/ear6.cpp) as operators on contexts, for    *)
(* the hosts that call it.  A context is the system it was created for,    *)
(* the content loaded into it and the machine the system emulates; calls   *)
(* that fail return the context as it was, except where the code does not. *)
(*                                                                         *)
(* Content is a model value: a ROM image, or a file that is not one.  The  *)
(* identity hash of a content is the content itself (no collisions), and   *)
(* damage to a state container is one Boolean (its CRC does not match).    *)
(* Exceptions such as a failed allocation are not modelled.                *)
(***************************************************************************)
EXTENDS Integers

CONSTANTS
    Roms,          \* iNES images
    Unsupported,   \* those of them whose mapper is not implemented
    Junk,          \* files that are no iNES images
    Buttons,       \* the buttons of the controller
    MaxTicks,      \* bound on the frames a machine has run
    NoContent      \* a context before its first load

Contents == Roms \cup Junk

ASSUME ContentAssumption == /\ Unsupported \subseteq Roms
                            /\ NoContent \notin Contents
                            /\ Roms \cap Junk = {}
ASSUME MaxTicksAssumption == MaxTicks \in Nat

(* EAR6_SYSTEM_FLASH is declared but cannot be created.                    *)
Systems == {"test", "nes"}

Machines == [content : Contents \cup {NoContent}, ticks : 0 .. MaxTicks,
             pressed : SUBSET Buttons]
Contexts == [system : Systems, content : Contents \cup {NoContent},
             has_content : BOOLEAN, machine : Machines]
States == [system : Systems, content : Contents \cup {NoContent},
           machine : Machines, intact : BOOLEAN]

PoweredOn(content) == [content |-> content, ticks |-> 0, pressed |-> {}]

ear6_create(system) ==
    [system |-> system, content |-> NoContent, has_content |-> FALSE,
     machine |-> PoweredOn(NoContent)]

(* What the systems' load functions accept: TestSystem anything, NesSystem *)
(* an iNES image, whether or not its mapper is supported.                  *)
Accepts(system, content) == system = "test" \/ content \in Roms

(* NesConsole::load_rom builds a new machine; TestSystem::load does        *)
(* nothing at all.                                                         *)
LoadedMachine(ctx, content) ==
    IF ctx.system = "nes" THEN PoweredOn(content) ELSE ctx.machine

load_content(ctx, content) ==
    IF ~Accepts(ctx.system, content) THEN ctx
    ELSE [ctx EXCEPT !.machine = LoadedMachine(ctx, content),
                     !.content = content,
                     !.has_content = TRUE]

(* ear6_step does not ask whether there is content; a NES without content  *)
(* has no PPU to run.                                                      *)
ear6_step(ctx) ==
    [ctx EXCEPT !.machine.ticks = IF @ < MaxTicks THEN @ + 1 ELSE @]

(* NesSystem::save_state and load_state refuse without content and with a  *)
(* mapper that load_rom has replaced by NROM; TestSystem's never refuse.   *)
CanSave(loaded) ==
    \/ loaded.system = "test"
    \/ loaded.content \in Roms \ Unsupported

build_state(ctx) ==
    [system |-> ctx.system, content |-> ctx.content, machine |-> ctx.machine,
     intact |-> TRUE]

(* parse_state: the container is whole and its content has the identity it *)
(* claims.                                                                 *)
parse_state(state) == state.intact

(* ear6_load_state_from_memory restores into a new system and replaces the *)
(* old one only when everything has succeeded.                             *)
Restorable(ctx, state) ==
    /\ parse_state(state)
    /\ state.system = ctx.system
    /\ Accepts(state.system, state.content)
    /\ CanSave(state)

ear6_load_state_from_memory_keeps_content(ctx, state) ==
    IF ~Restorable(ctx, state) THEN ctx
    ELSE [ctx EXCEPT !.machine = state.machine, !.has_content = TRUE]

ear6_load_state_from_memory(ctx, state) ==
    IF ~Restorable(ctx, state) THEN ctx
    ELSE [ctx EXCEPT !.machine = state.machine,
                     !.content = state.content,
                     !.has_content = TRUE]

(* Input reaches the controllers only once content is loaded.              *)
ear6_nes_set_button_state(ctx, button, pressed) ==
    IF ctx.system # "nes" \/ ~ctx.has_content THEN ctx
    ELSE [ctx EXCEPT !.machine.pressed = IF pressed THEN @ \cup {button}
                                                    ELSE @ \ {button}]

ear6_nes_clear_input(ctx) ==
    IF ctx.system # "nes" THEN ctx ELSE [ctx EXCEPT !.machine.pressed = {}]

=============================================================================
