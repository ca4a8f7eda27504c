----------------------------- MODULE DesktopHost -----------------------------
(***************************************************************************)
(* The native macOS host (apps/desktop/macos/main.mm) and the session it   *)
(* drives (apps/desktop/common/desktop_session.cpp).  The session owns one *)
(* context, a copy of its last frame and the ring the audio device's       *)
(* thread empties; whatever is loaded comes in a new context that replaces *)
(* the old one.  The host adds the run flag, the picture and title of the  *)
(* window, the keyboard and the save slots.                                *)
(*                                                                         *)
(* Sound is what the ring holds: nothing, sound of the current context, or *)
(* sound of an earlier one.  A file bears the name of its content.         *)
(***************************************************************************)
EXTENDS Ear6Context

CONSTANT Paths    \* the files to open: [nes : BOOLEAN, content : Contents]

ASSUME PathsAssumption == Paths \subseteq [nes : BOOLEAN, content : Contents]

VARIABLES
    session,          \* DesktopSession
    running,          \* _running
    view,             \* the window: picture and title
    saves,            \* the save store: one slot per system and content
    held,             \* keys held down
    focused,          \* is the window the key window?
    restored          \* buttons that came with a restored state

vars == <<session, running, view, saves, held, focused, restored>>
input == <<held, focused>>

NoContext == [system |-> "none"]
NoPath == [nes |-> FALSE, content |-> NoContent]
NoFrame == [system |-> "none", content |-> NoContent, ticks |-> 0]

-----------------------------------------------------------------------------
(* DesktopSession.                                                         *)

(* copy_frame: which machine's picture, after how many frames.             *)
copy_frame(context) ==
    [system |-> context.system, content |-> context.content,
     ticks |-> context.machine.ticks]

replace_context_keeps_audio(s, candidate, source, path, name) ==
    [context |-> candidate, system |-> candidate.system, source |-> source,
     source_path |-> path, name |-> name,
     audio |-> IF s.audio = "empty" THEN "empty" ELSE "earlier",
     frame |-> copy_frame(candidate)]

replace_context_keeps_path(s, candidate, source, path, name) ==
    [context |-> candidate, system |-> candidate.system, source |-> source,
     source_path |-> IF s.source = "file" THEN s.source_path ELSE path,
     name |-> name, audio |-> "empty", frame |-> copy_frame(candidate)]

replace_context(s, candidate, source, path, name) ==
    [context |-> candidate, system |-> candidate.system, source |-> source,
     source_path |-> path, name |-> name, audio |-> "empty",
     frame |-> copy_frame(candidate)]

has_content(s) == s.context # NoContext

can_reset(s) == s.source \in {"test", "file"}

load_test(s) ==
    replace_context(s, load_content(ear6_create("test"), NoContent), "test",
                    NoPath, "test")

SystemOf(path) == IF path.nes THEN "nes" ELSE "test"

Loadable(path) == Accepts(SystemOf(path), path.content)

load_file(s, path) ==
    replace_context(s, load_content(ear6_create(SystemOf(path)), path.content),
                    "file", path, path.content)

load_state(s, state) ==
    replace_context(s, ear6_load_state_from_memory(ear6_create(state.system), state),
                    "state", NoPath, state.content)

reset(s) == IF s.source = "test" THEN load_test(s) ELSE load_file(s, s.source_path)

(* ear6_step hands the sound to audio_callback; the Test system has none.  *)
step(s) ==
    LET context == ear6_step(s.context)
    IN  [s EXCEPT !.context = context,
                  !.frame = copy_frame(context),
                  !.audio = IF context.system = "nes" /\ @ = "empty"
                            THEN "current" ELSE @]

set_nes_button(s, button, pressed) ==
    IF ~has_content(s) \/ s.system # "nes" THEN s
    ELSE [s EXCEPT !.context = ear6_nes_set_button_state(@, button, pressed)]

clear_input_keeps(s) == s

clear_input(s) ==
    IF ~has_content(s) \/ s.system # "nes" THEN s
    ELSE [s EXCEPT !.context = ear6_nes_clear_input(@)]

clear_audio(s) == [s EXCEPT !.audio = "empty"]

-----------------------------------------------------------------------------
(* The application.                                                        *)

EmptySession == [context |-> NoContext, system |-> "test", source |-> "none",
                 source_path |-> NoPath, name |-> "none", audio |-> "empty",
                 frame |-> NoFrame]

updateFrame(s) == [frame |-> s.frame, title |-> s.name]

Slots == Systems \X (Contents \cup {NoContent})
NoState == [system |-> "test", content |-> NoContent,
            machine |-> PoweredOn(NoContent), intact |-> FALSE]

(* Launched without a file, or with one that could not be loaded.          *)
Init ==
    /\ \/ session = load_test(EmptySession) /\ running = TRUE
       \/ session = EmptySession /\ running = FALSE
    /\ view = updateFrame(session)
    /\ saves = [slot \in Slots |-> NoState]
    /\ held = {} /\ focused = TRUE /\ restored = {}

(* A failed load, restore or reset shows an error and changes nothing.     *)
loadPath ==
    /\ \E path \in Paths : Loadable(path) /\ session' = load_file(session, path)
    /\ running' = TRUE
    /\ view' = updateFrame(session')
    /\ restored' = {}
    /\ UNCHANGED <<saves, input>>

restoreState(state) ==
    /\ Restorable(ear6_create(state.system), state)
    /\ session' = load_state(session, state)
    /\ running' = FALSE
    /\ view' = updateFrame(session')
    /\ restored' = state.machine.pressed
    /\ UNCHANGED <<saves, input>>

(* A state file opened by the user: exported earlier, perhaps damaged.     *)
StateFiles ==
    {[system |-> SystemOf(path), content |-> path.content,
      machine |-> LoadedMachine(ear6_create(SystemOf(path)), path.content),
      intact |-> i] : path \in Paths, i \in BOOLEAN}

loadPath_state == \E state \in StateFiles : restoreState(state)

loadStateItem == \E slot \in Slots : saves[slot] # NoState /\ restoreState(saves[slot])

saveState ==
    /\ has_content(session)
    /\ CanSave(session.context)
    /\ saves' = [saves EXCEPT ![<<session.context.system, session.context.content>>] =
                                build_state(session.context)]
    /\ UNCHANGED <<session, running, view, input, restored>>

toggleRunPause ==
    /\ has_content(session)
    /\ running' = ~running
    /\ session' = IF running' THEN session ELSE clear_audio(clear_input(session))
    /\ restored' = IF running' THEN restored ELSE {}
    /\ UNCHANGED <<view, saves, input>>

resetEmulation_keeps_view ==
    /\ can_reset(session)
    /\ session' = reset(session)
    /\ running' = FALSE
    /\ restored' = {}
    /\ UNCHANGED <<view, saves, input>>

resetEmulation ==
    /\ can_reset(session)
    /\ session' = reset(session)
    /\ running' = FALSE
    /\ view' = updateFrame(session')
    /\ restored' = {}
    /\ UNCHANGED <<saves, input>>

stepEmulation ==
    /\ running
    /\ has_content(session)
    /\ session' = step(session)
    /\ view' = updateFrame(session')
    /\ UNCHANGED <<running, saves, input, restored>>

(* The audio device's thread has played what the ring held.                *)
fill_and_enqueue ==
    /\ session' = [session EXCEPT !.audio = "empty"]
    /\ UNCHANGED <<running, view, saves, input, restored>>

keyDown ==
    /\ focused
    /\ \E b \in Buttons \ held : /\ held' = held \cup {b}
                                 /\ session' = set_nes_button(session, b, TRUE)
    /\ UNCHANGED <<running, view, saves, focused, restored>>

(* A key released over another window is not reported.                     *)
keyUp ==
    /\ \E b \in held :
          /\ held' = held \ {b}
          /\ session' = IF focused THEN set_nes_button(session, b, FALSE) ELSE session
          /\ restored' = IF focused THEN restored \ {b} ELSE restored
    /\ UNCHANGED <<running, view, saves, focused>>

windowDidResignKey ==
    /\ focused
    /\ focused' = FALSE
    /\ session' = clear_input(session)
    /\ restored' = {}
    /\ UNCHANGED <<running, view, saves, held>>

windowDidBecomeKey ==
    /\ ~focused
    /\ focused' = TRUE
    /\ UNCHANGED <<session, running, view, saves, held, restored>>

Next ==
    \/ loadPath \/ loadPath_state \/ loadStateItem \/ saveState
    \/ toggleRunPause \/ resetEmulation \/ stepEmulation \/ fill_and_enqueue
    \/ keyDown \/ keyUp \/ windowDidResignKey \/ windowDidBecomeKey

Spec == Init /\ [][Next]_vars

-----------------------------------------------------------------------------
Frames == [system : Systems \cup {"none"}, content : Contents \cup {NoContent},
           ticks : 0 .. MaxTicks]

TypeOK ==
    /\ session.context \in Contexts \cup {NoContext}
    /\ session.system \in Systems
    /\ session.source \in {"none", "test", "file", "state"}
    /\ session.source_path \in Paths \cup {NoPath}
    /\ session.audio \in {"empty", "current", "earlier"}
    /\ {session.frame, view.frame} \subseteq Frames
    /\ {running, focused} \subseteq BOOLEAN
    /\ saves \in [Slots -> States]
    /\ held \subseteq Buttons /\ restored \subseteq Buttons

(* Picture and title are those of the context that runs, as it is now,     *)
(* whatever was loaded, restored, reset or saved before.                   *)
WindowIsCurrent ==
    /\ TypeOK
    /\ has_content(session) =>
        view = [frame |-> copy_frame(session.context), title |-> session.name]

(* Nothing is played of a game that has been replaced, and nothing at all  *)
(* while the emulation is paused.                                          *)
SoundIsCurrent ==
    /\ session.audio # "earlier"
    /\ ~running => session.audio = "empty"

(* What Reset would load is what runs: the same content for the same kind  *)
(* of system.                                                              *)
ResetRestartsCurrent ==
    can_reset(session) =>
        LET s == reset(session)
        IN  /\ s.context.system = session.context.system
            /\ s.context.content = session.context.content
            /\ s.name = session.name

(* A button is down in the core only while its key is held, or if it was   *)
(* down in the state restored last and has not been released since.        *)
KeysAreHeld ==
    has_content(session) => session.context.machine.pressed \subseteq held \cup restored

=============================================================================
