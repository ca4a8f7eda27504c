------------------------- MODULE DesktopHost_proofs -------------------------
(***************************************************************************)
(* The four invariants of the desktop session, for any set of files, any   *)
(* set of buttons and any bound on the frames.  The operators of the       *)
(* session are total functions on session records, so each gets one lemma  *)
(* that says what it returns; the inductive step of an action cites it.    *)
(***************************************************************************)
EXTENDS DesktopHost, TLAPS

Sources == {"none", "test", "file", "state"}
Sounds == {"empty", "current", "earlier"}
Names == Contents \cup {NoContent, "none", "test"}

Sessions ==
    [context : Contexts \cup {NoContext}, system : Systems, source : Sources,
     source_path : Paths \cup {NoPath}, name : Names, audio : Sounds,
     frame : Frames]

(* A context the session holds has been loaded, and no button of a Test    *)
(* system is ever down: ear6_nes_set_button_state refuses one.             *)
ContextOK(c) ==
    /\ c \in Contexts
    /\ c.has_content
    /\ c.system = "test" => c.machine.pressed = {}

StateOK(s) ==
    /\ s \in States
    /\ s.system = "test" => s.machine.pressed = {}

(* What the session remembers for Reset is what its context was made from. *)
SourceOK(s) ==
    /\ s.source = "test" => /\ s.context.system = "test"
                            /\ s.context.content = NoContent
                            /\ s.name = "test"
    /\ s.source = "file" => /\ s.source_path \in Paths
                            /\ Loadable(s.source_path)
                            /\ s.context.system = SystemOf(s.source_path)
                            /\ s.context.content = s.source_path.content
                            /\ s.name = s.source_path.content

(* Context, kind of system and copied frame are replaced together.         *)
SessionOK(s) ==
    /\ s \in Sessions
    /\ has_content(s) => /\ ContextOK(s.context)
                         /\ s.system = s.context.system
                         /\ s.frame = copy_frame(s.context)
    /\ SourceOK(s)

(* While the window is not the key window releases are not reported, so    *)
(* nothing may be down then but what a restored state brought.             *)
UnseenReleases ==
    has_content(session) /\ ~focused => session.context.machine.pressed \subseteq restored

Inv ==
    /\ SessionOK(session)
    /\ view = updateFrame(session)
    /\ running \in BOOLEAN /\ focused \in BOOLEAN
    /\ saves \in [Slots -> States]
    /\ \A slot \in Slots : StateOK(saves[slot])
    /\ held \subseteq Buttons /\ restored \subseteq Buttons
    /\ SoundIsCurrent
    /\ KeysAreHeld
    /\ UnseenReleases

-----------------------------------------------------------------------------
(* The API's operators on contexts.                                        *)

(* ear6_create followed by a load that the system accepts.                 *)
LEMMA LoadedContext ==
    ASSUME NEW system \in Systems, NEW content \in Contents \cup {NoContent},
           Accepts(system, content)
    PROVE  /\ ContextOK(load_content(ear6_create(system), content))
           /\ load_content(ear6_create(system), content).system = system
           /\ load_content(ear6_create(system), content).content = content
           /\ load_content(ear6_create(system), content).machine.pressed = {}
  <1> DEFINE m == LoadedMachine(ear6_create(system), content)
             c == load_content(ear6_create(system), content)
  <1>1. m \in Machines /\ m.pressed = {}
    BY MaxTicksAssumption DEF LoadedMachine, ear6_create, PoweredOn, Machines
  <1>2. c = [system |-> system, content |-> content, has_content |-> TRUE, machine |-> m]
    BY DEF load_content, ear6_create
  <1> QED
    BY <1>1, <1>2 DEF ContextOK, Contexts

(* A restored context is the state's: its system, its content, its machine. *)
LEMMA RestoredContext ==
    ASSUME NEW state, StateOK(state),
           Restorable(ear6_create(state.system), state)
    PROVE  LET c == ear6_load_state_from_memory(ear6_create(state.system), state)
           IN  /\ ContextOK(c)
               /\ c.system = state.system
               /\ c.content = state.content
               /\ c.machine = state.machine
  <1> DEFINE c == ear6_load_state_from_memory(ear6_create(state.system), state)
  <1>1. c = [system |-> state.system, content |-> state.content, has_content |-> TRUE,
             machine |-> state.machine]
    BY DEF ear6_load_state_from_memory, ear6_create
  <1> QED
    BY <1>1 DEF ContextOK, StateOK, States, Contexts

(* One frame more: nothing but the ticks changes.                          *)
LEMMA SteppedContext ==
    ASSUME NEW c, ContextOK(c)
    PROVE  /\ ContextOK(ear6_step(c))
           /\ ear6_step(c).system = c.system
           /\ ear6_step(c).content = c.content
           /\ ear6_step(c).machine.pressed = c.machine.pressed
  <1> DEFINE t == IF c.machine.ticks < MaxTicks THEN c.machine.ticks + 1 ELSE c.machine.ticks
             m == [c.machine EXCEPT !.ticks = t]
  <1>1. m \in Machines /\ m.pressed = c.machine.pressed
    BY MaxTicksAssumption DEF ContextOK, Contexts, Machines
  <1>2. ear6_step(c) = [c EXCEPT !.machine = m]
    BY DEF ear6_step, ContextOK, Contexts, Machines
  <1> QED
    BY <1>1, <1>2 DEF ContextOK, Contexts

(* A button set or the controller cleared: only what is pressed changes.   *)
LEMMA PressedContext ==
    ASSUME NEW c, ContextOK(c), c.system = "nes", NEW p \in SUBSET Buttons
    PROVE  LET d == [c EXCEPT !.machine.pressed = p]
           IN  /\ ContextOK(d)
               /\ d.system = c.system
               /\ d.machine.pressed = p
               /\ copy_frame(d) = copy_frame(c)
  <1> DEFINE m == [c.machine EXCEPT !.pressed = p]
             d == [c EXCEPT !.machine.pressed = p]
  <1>1. m \in Machines /\ m.pressed = p /\ m.ticks = c.machine.ticks
    BY DEF ContextOK, Contexts, Machines
  <1>2. d = [c EXCEPT !.machine = m]
    BY DEF ContextOK, Contexts, Machines
  <1>3. d \in Contexts /\ d.machine = m /\ d.system = c.system /\ d.content = c.content
        /\ d.has_content = c.has_content
    BY <1>1, <1>2 DEF ContextOK, Contexts
  <1> QED
    BY <1>1, <1>3 DEF ContextOK, copy_frame

LEMMA FrameType ==
    ASSUME NEW c \in Contexts
    PROVE  copy_frame(c) \in Frames
  BY DEF copy_frame, Frames, Contexts, Machines

LEMMA ContextIsContent ==
    ASSUME NEW c \in Contexts
    PROVE  c # NoContext
  BY DEF NoContext, Contexts, Systems

-----------------------------------------------------------------------------
(* The session's operators.                                                *)

(* Whatever replaces the context replaces picture and sound with it.       *)
LEMMA ReplacedSession ==
    ASSUME NEW s, NEW c, ContextOK(c), NEW source \in Sources,
           NEW path \in Paths \cup {NoPath}, NEW name \in Names
    PROVE  LET r == replace_context(s, c, source, path, name)
           IN  /\ SourceOK(r) => SessionOK(r)
               /\ r.context = c
               /\ r.source = source
               /\ r.source_path = path
               /\ r.name = name
               /\ r.audio = "empty"
  <1> DEFINE r == replace_context(s, c, source, path, name)
  <1>1. c \in Contexts /\ c.system \in Systems
    BY DEF ContextOK, Contexts
  <1>2. copy_frame(c) \in Frames
    BY <1>1, FrameType
  <1>3. r = [context |-> c, system |-> c.system, source |-> source,
             source_path |-> path, name |-> name, audio |-> "empty",
             frame |-> copy_frame(c)]
    BY DEF replace_context
  <1>4. r \in Sessions
    BY <1>1, <1>2, <1>3 DEF Sessions, Sounds
  <1> QED
    BY <1>3, <1>4 DEF SessionOK

LEMMA TestSession ==
    ASSUME NEW s
    PROVE  /\ SessionOK(load_test(s))
           /\ load_test(s).context.system = "test"
           /\ load_test(s).context.content = NoContent
           /\ load_test(s).context.machine.pressed = {}
           /\ load_test(s).name = "test"
           /\ load_test(s).audio = "empty"
  <1> DEFINE c == load_content(ear6_create("test"), NoContent)
             r == load_test(s)
  <1>1. Accepts("test", NoContent) /\ "test" \in Systems /\ "test" \in Names
        /\ "test" \in Sources
    BY DEF Accepts, Systems, Names, Sources
  <1>2. ContextOK(c) /\ c.system = "test" /\ c.content = NoContent /\ c.machine.pressed = {}
    BY <1>1, LoadedContext
  <1>3. /\ SourceOK(r) => SessionOK(r)
        /\ r.context = c /\ r.source = "test" /\ r.name = "test" /\ r.audio = "empty"
    BY <1>1, <1>2, ReplacedSession DEF load_test
  <1> QED
    BY <1>2, <1>3 DEF SourceOK

LEMMA FileSession ==
    ASSUME NEW s, NEW path \in Paths, Loadable(path)
    PROVE  /\ SessionOK(load_file(s, path))
           /\ load_file(s, path).context.system = SystemOf(path)
           /\ load_file(s, path).context.content = path.content
           /\ load_file(s, path).context.machine.pressed = {}
           /\ load_file(s, path).name = path.content
           /\ load_file(s, path).audio = "empty"
  <1> DEFINE c == load_content(ear6_create(SystemOf(path)), path.content)
             r == load_file(s, path)
  <1>1. SystemOf(path) \in Systems /\ path.content \in Contents
    BY PathsAssumption DEF SystemOf, Systems
  <1>2. /\ ContextOK(c) /\ c.system = SystemOf(path) /\ c.content = path.content
        /\ c.machine.pressed = {}
    BY <1>1, LoadedContext DEF Loadable
  <1>3. path.content \in Names /\ "file" \in Sources
    BY <1>1 DEF Names, Sources
  <1>4. /\ SourceOK(r) => SessionOK(r)
        /\ r.context = c /\ r.source = "file" /\ r.source_path = path
        /\ r.name = path.content /\ r.audio = "empty"
    BY <1>2, <1>3, ReplacedSession DEF load_file
  <1> QED
    BY <1>2, <1>4 DEF SourceOK

LEMMA StateSession ==
    ASSUME NEW s, NEW st, StateOK(st), Restorable(ear6_create(st.system), st)
    PROVE  /\ SessionOK(load_state(s, st))
           /\ load_state(s, st).context.machine.pressed = st.machine.pressed
           /\ load_state(s, st).audio = "empty"
  <1> DEFINE c == ear6_load_state_from_memory(ear6_create(st.system), st)
             r == load_state(s, st)
  <1>1. ContextOK(c) /\ c.machine = st.machine
    BY RestoredContext
  <1>2. st.content \in Names /\ "state" \in Sources
    BY DEF StateOK, States, Names, Sources
  <1>3. /\ SourceOK(r) => SessionOK(r)
        /\ r.context = c /\ r.source = "state" /\ r.audio = "empty"
    BY <1>1, <1>2, ReplacedSession DEF load_state
  <1> QED
    BY <1>1, <1>3 DEF SourceOK

(* Reset loads what runs.                                                  *)
LEMMA ResetSession ==
    ASSUME NEW s, SessionOK(s), can_reset(s)
    PROVE  /\ SessionOK(reset(s))
           /\ reset(s).context.system = s.context.system
           /\ reset(s).context.content = s.context.content
           /\ reset(s).context.machine.pressed = {}
           /\ reset(s).name = s.name
           /\ reset(s).audio = "empty"
  <1>1. CASE s.source = "test"
    BY <1>1, TestSession DEF reset, SessionOK, SourceOK
  <1>2. CASE s.source = "file"
    BY <1>2, FileSession DEF reset, SessionOK, SourceOK
  <1> QED
    BY <1>1, <1>2 DEF can_reset

WithContext(s, c, a) == [s EXCEPT !.context = c, !.frame = copy_frame(c), !.audio = a]
WithPressed(s, p) == [s EXCEPT !.context = [@ EXCEPT !.machine.pressed = p]]

(* A session whose context changes in nothing but the frames it has run    *)
(* and the buttons that are down.                                          *)
LEMMA ChangedSession ==
    ASSUME NEW s, SessionOK(s), has_content(s), NEW c, ContextOK(c),
           c.system = s.context.system, c.content = s.context.content,
           NEW a \in Sounds
    PROVE  SessionOK(WithContext(s, c, a))
  <1> DEFINE r == WithContext(s, c, a)
  <1>1. c \in Contexts /\ copy_frame(c) \in Frames /\ s \in Sessions
    BY FrameType DEF ContextOK, SessionOK
  <1>2. r \in Sessions
    BY <1>1 DEF Sessions, WithContext
  <1>3. /\ r.context = c /\ r.frame = copy_frame(c) /\ r.system = s.system
        /\ r.source = s.source /\ r.source_path = s.source_path /\ r.name = s.name
    BY <1>1 DEF Sessions, WithContext
  <1> QED
    BY <1>2, <1>3 DEF SessionOK, SourceOK

LEMMA SteppedSession ==
    ASSUME NEW s, SessionOK(s), has_content(s)
    PROVE  /\ SessionOK(step(s))
           /\ has_content(step(s))
           /\ step(s).context.machine.pressed = s.context.machine.pressed
           /\ step(s).audio = "earlier" => s.audio = "earlier"
  <1> DEFINE c == ear6_step(s.context)
             a == IF c.system = "nes" /\ s.audio = "empty" THEN "current" ELSE s.audio
  <1>1. s \in Sessions /\ ContextOK(s.context)
    BY DEF SessionOK
  <1>2. /\ ContextOK(c) /\ c.system = s.context.system /\ c.content = s.context.content
        /\ c.machine.pressed = s.context.machine.pressed
    BY <1>1, SteppedContext
  <1>3. a \in Sounds /\ (a = "earlier" => s.audio = "earlier")
    BY <1>1 DEF Sessions, Sounds
  <1>4. step(s) = WithContext(s, c, a)
    BY <1>1 DEF step, Sessions, WithContext
  <1>5. step(s).context = c /\ step(s).audio = a
    BY <1>1, <1>4 DEF Sessions, WithContext
  <1> HIDE DEF c, a
  <1>6. SessionOK(step(s))
    BY <1>2, <1>3, <1>4, ChangedSession
  <1> QED
    BY <1>2, <1>3, <1>5, <1>6, ContextIsContent DEF has_content, ContextOK

(* Input changes what is pressed on a NES, and nothing else.               *)
LEMMA PressedSession ==
    ASSUME NEW s, SessionOK(s), has_content(s), s.system = "nes", NEW p \in SUBSET Buttons
    PROVE  LET r == WithPressed(s, p)
           IN  /\ SessionOK(r)
               /\ has_content(r)
               /\ r.context.machine.pressed = p
               /\ r.audio = s.audio
               /\ updateFrame(r) = updateFrame(s)
  <1> DEFINE c == [s.context EXCEPT !.machine.pressed = p]
             r == WithPressed(s, p)
  <1>1. /\ s \in Sessions /\ ContextOK(s.context) /\ s.context.system = "nes"
        /\ s.frame = copy_frame(s.context)
    BY DEF SessionOK
  <1>2. /\ ContextOK(c) /\ c.system = s.context.system /\ c.machine.pressed = p
        /\ copy_frame(c) = copy_frame(s.context)
    BY <1>1, PressedContext
  <1>3. c.content = s.context.content
    BY <1>1 DEF ContextOK, Contexts
  <1>4. r = [s EXCEPT !.context = c]
    BY <1>1 DEF Sessions, WithPressed
  <1> HIDE DEF c
  <1>5. r = WithContext(s, c, s.audio)
    BY <1>1, <1>2, <1>4 DEF Sessions, WithContext
  <1>6. s.audio \in Sounds
    BY <1>1 DEF Sessions
  <1>7. SessionOK(r)
    BY <1>2, <1>3, <1>5, <1>6, ChangedSession
  <1>8. r.context = c /\ r.audio = s.audio /\ r.frame = s.frame /\ r.name = s.name
    BY <1>1, <1>4 DEF Sessions
  <1> QED
    BY <1>2, <1>7, <1>8, ContextIsContent DEF has_content, ContextOK, updateFrame

LEMMA ButtonSession ==
    ASSUME NEW s, SessionOK(s), NEW b \in Buttons, NEW down \in BOOLEAN
    PROVE  LET r == set_nes_button(s, b, down)
           IN  /\ SessionOK(r)
               /\ has_content(r) <=> has_content(s)
               /\ has_content(s) =>
                    r.context.machine.pressed \subseteq
                      IF down THEN s.context.machine.pressed \cup {b}
                              ELSE s.context.machine.pressed \ {b}
               /\ r.audio = s.audio
               /\ updateFrame(r) = updateFrame(s)
  <1>1. CASE ~has_content(s)
    BY <1>1 DEF set_nes_button
  <1>2. CASE has_content(s) /\ s.system # "nes"
    <2>1. s.context.machine.pressed = {}
      BY <1>2 DEF SessionOK, ContextOK, Contexts, Systems
    <2> QED
      BY <1>2, <2>1 DEF set_nes_button
  <1>3. CASE has_content(s) /\ s.system = "nes"
    <2> DEFINE p == IF down THEN s.context.machine.pressed \cup {b}
                            ELSE s.context.machine.pressed \ {b}
    <2>1. p \in SUBSET Buttons
      BY <1>3 DEF SessionOK, ContextOK, Contexts, Machines
    <2>2. set_nes_button(s, b, down) = WithPressed(s, p)
      BY <1>3 DEF WithPressed, set_nes_button, ear6_nes_set_button_state, SessionOK, ContextOK, Sessions,
                  Contexts, Machines
    <2> QED
      BY <1>3, <2>1, <2>2, PressedSession
  <1> QED
    BY <1>1, <1>2, <1>3

LEMMA ClearedSession ==
    ASSUME NEW s, SessionOK(s)
    PROVE  LET r == clear_input(s)
           IN  /\ SessionOK(r)
               /\ has_content(r) <=> has_content(s)
               /\ has_content(s) => r.context.machine.pressed = {}
               /\ r.audio = s.audio
               /\ updateFrame(r) = updateFrame(s)
  <1>1. CASE ~has_content(s)
    BY <1>1 DEF clear_input
  <1>2. CASE has_content(s) /\ s.system # "nes"
    BY <1>2 DEF clear_input, SessionOK, ContextOK, Contexts, Systems
  <1>3. CASE has_content(s) /\ s.system = "nes"
    <2>1. clear_input(s) = WithPressed(s, {})
      BY <1>3 DEF WithPressed, clear_input, ear6_nes_clear_input, SessionOK, Sessions
    <2> QED
      BY <1>3, <2>1, PressedSession
  <1> QED
    BY <1>1, <1>2, <1>3

LEMMA SilentSession ==
    ASSUME NEW s, SessionOK(s)
    PROVE  LET r == clear_audio(s)
           IN  /\ SessionOK(r)
               /\ has_content(r) <=> has_content(s)
               /\ r.context = s.context
               /\ r.audio = "empty"
               /\ updateFrame(r) = updateFrame(s)
  <1>1. s \in Sessions
    BY DEF SessionOK
  <1>2. clear_audio(s) \in Sessions
    BY <1>1 DEF clear_audio, Sessions, Sounds
  <1> QED
    BY <1>1, <1>2 DEF clear_audio, SessionOK, SourceOK, Sessions, has_content, updateFrame

-----------------------------------------------------------------------------
(* The inductive invariant.                                                *)

LEMMA InitInv == Init => Inv
  <1> SUFFICES ASSUME Init PROVE Inv
    OBVIOUS
  <1>1. SessionOK(EmptySession) /\ ~has_content(EmptySession) /\ EmptySession.audio = "empty"
    <2>1. EmptySession \in Sessions
      BY MaxTicksAssumption DEF EmptySession, Sessions, Systems, Sources, Names, Sounds, Frames, NoFrame
    <2> QED
      BY <2>1 DEF EmptySession, SessionOK, SourceOK, has_content
  <1>2. /\ SessionOK(session) /\ session.audio = "empty"
        /\ has_content(session) => session.context.machine.pressed = {}
    BY <1>1, TestSession DEF Init
  <1>3. StateOK(NoState) /\ NoState \in States
    BY MaxTicksAssumption DEF NoState, StateOK, States, Machines, PoweredOn, Systems
  <1>4. saves \in [Slots -> States] /\ \A slot \in Slots : StateOK(saves[slot])
    BY <1>3 DEF Init
  <1>5. SoundIsCurrent /\ KeysAreHeld /\ UnseenReleases
    BY <1>2 DEF SoundIsCurrent, KeysAreHeld, UnseenReleases
  <1>6. view = updateFrame(session) /\ running \in BOOLEAN /\ focused \in BOOLEAN
        /\ held \subseteq Buttons /\ restored \subseteq Buttons
    BY DEF Init
  <1> QED
    BY <1>2, <1>4, <1>5, <1>6 DEF Inv

(* A load or a reset: a silent session in which nothing is pressed.        *)
LEMMA LoadInv ==
    ASSUME Inv, NEW s, SessionOK(s), s.audio = "empty", s.context.machine.pressed = {},
           session' = s, running' \in BOOLEAN, view' = updateFrame(s), restored' = {},
           UNCHANGED <<saves, input>>
    PROVE  Inv'
  <1>1. KeysAreHeld' /\ UnseenReleases' /\ SoundIsCurrent'
    BY DEF KeysAreHeld, UnseenReleases, SoundIsCurrent
  <1>2. SessionOK(session)' /\ (view = updateFrame(session))'
    OBVIOUS
  <1> QED
    BY <1>1, <1>2 DEF Inv, input

(* A restore: the buttons of the state are down, and that is remembered.   *)
LEMMA RestoreInv ==
    ASSUME Inv, NEW st, StateOK(st), restoreState(st)
    PROVE  Inv'
  <1> DEFINE s == load_state(session, st)
  <1>1. SessionOK(s) /\ s.context.machine.pressed = st.machine.pressed /\ s.audio = "empty"
    BY StateSession DEF restoreState
  <1>2. session' = s /\ restored' = st.machine.pressed /\ running' = FALSE
        /\ view' = updateFrame(s) /\ saves' = saves /\ held' = held /\ focused' = focused
    BY DEF restoreState, input
  <1>3. restored' \subseteq Buttons
    BY <1>2 DEF StateOK, States, Machines
  <1> HIDE DEF s
  <1>4. KeysAreHeld' /\ UnseenReleases' /\ SoundIsCurrent'
    BY <1>1, <1>2 DEF KeysAreHeld, UnseenReleases, SoundIsCurrent
  <1>5. SessionOK(session)' /\ (view = updateFrame(session))'
    BY <1>1, <1>2
  <1> QED
    BY <1>2, <1>3, <1>4, <1>5 DEF Inv

LEMMA StateFilesOK ==
    ASSUME NEW st \in StateFiles
    PROVE  StateOK(st)
  <1>1. PICK path \in Paths, i \in BOOLEAN :
            st = [system |-> SystemOf(path), content |-> path.content,
                  machine |-> LoadedMachine(ear6_create(SystemOf(path)), path.content),
                  intact |-> i]
    BY DEF StateFiles
  <1>2. SystemOf(path) \in Systems /\ path.content \in Contents
    BY PathsAssumption DEF SystemOf, Systems
  <1>3. /\ LoadedMachine(ear6_create(SystemOf(path)), path.content) \in Machines
        /\ LoadedMachine(ear6_create(SystemOf(path)), path.content).pressed = {}
    BY <1>2, MaxTicksAssumption DEF LoadedMachine, ear6_create, PoweredOn, Machines
  <1> QED
    BY <1>1, <1>2, <1>3 DEF StateOK, States

LEMMA SaveInv ==
    ASSUME Inv, saveState
    PROVE  Inv'
  <1> DEFINE st == build_state(session.context)
             slot == <<session.context.system, session.context.content>>
  <1>1. ContextOK(session.context)
    BY DEF Inv, SessionOK, saveState
  <1>2. StateOK(st) /\ st \in States /\ slot \in Slots
    BY <1>1 DEF ContextOK, Contexts, build_state, StateOK, States, Slots
  <1>3. saves' = [saves EXCEPT ![slot] = st]
    BY DEF saveState
  <1> HIDE DEF st, slot
  <1>4. saves' \in [Slots -> States] /\ \A x \in Slots : StateOK(saves'[x])
    BY <1>2, <1>3 DEF Inv
  <1>5. UNCHANGED <<session, running, view, held, focused, restored>>
    BY DEF saveState, input
  <1>6. KeysAreHeld' /\ UnseenReleases' /\ SoundIsCurrent' /\ (view = updateFrame(session))'
    BY <1>5 DEF Inv, KeysAreHeld, UnseenReleases, SoundIsCurrent
  <1>7. SessionOK(session)'
    BY <1>5 DEF Inv
  <1> QED
    BY <1>4, <1>5, <1>6, <1>7 DEF Inv

(* Any other step replaces the session by one with the same picture and    *)
(* leaves the save store alone; what is said of sound and buttons is left  *)
(* to the action.                                                          *)
LEMMA QuietInv ==
    ASSUME Inv, NEW s, SessionOK(s), session' = s, view' = updateFrame(s),
           running' \in BOOLEAN, focused' \in BOOLEAN,
           held' \subseteq Buttons, restored' \subseteq Buttons, saves' = saves,
           s.audio # "earlier", ~running' => s.audio = "empty",
           has_content(s) => s.context.machine.pressed \subseteq held' \cup restored',
           has_content(s) /\ ~focused' => s.context.machine.pressed \subseteq restored'
    PROVE  Inv'
  <1>1. SoundIsCurrent' /\ KeysAreHeld' /\ UnseenReleases'
    BY DEF SoundIsCurrent, KeysAreHeld, UnseenReleases
  <1>2. SessionOK(session)' /\ (view = updateFrame(session))'
    OBVIOUS
  <1> QED
    BY <1>1, <1>2 DEF Inv

LEMMA NextInv == Inv /\ [Next]_vars => Inv'
  <1> SUFFICES ASSUME Inv, [Next]_vars PROVE Inv'
    OBVIOUS
  <1>0. /\ SessionOK(session) /\ view = updateFrame(session)
        /\ running \in BOOLEAN /\ focused \in BOOLEAN
        /\ held \subseteq Buttons /\ restored \subseteq Buttons
        /\ session.audio # "earlier" /\ (~running => session.audio = "empty")
        /\ has_content(session) =>
              session.context.machine.pressed \subseteq held \cup restored
        /\ has_content(session) /\ ~focused =>
              session.context.machine.pressed \subseteq restored
    BY DEF Inv, SoundIsCurrent, KeysAreHeld, UnseenReleases
  <1>1. CASE loadPath
    <2>1. PICK path \in Paths : Loadable(path) /\ session' = load_file(session, path)
      BY <1>1 DEF loadPath
    <2> QED
      BY <1>1, <2>1, FileSession, LoadInv DEF loadPath
  <1>2. CASE loadPath_state
    BY <1>2, StateFilesOK, RestoreInv DEF loadPath_state
  <1>3. CASE loadStateItem
    <2>1. PICK slot \in Slots : restoreState(saves[slot])
      BY <1>3 DEF loadStateItem
    <2>2. StateOK(saves[slot])
      BY DEF Inv
    <2> QED
      BY <2>1, <2>2, RestoreInv
  <1>4. CASE saveState
    BY <1>4, SaveInv
  <1>5. CASE toggleRunPause
    <2>0. /\ has_content(session) /\ running' = ~running /\ view' = view
          /\ saves' = saves /\ held' = held /\ focused' = focused
      BY <1>5 DEF toggleRunPause, input
    <2>1. CASE running'
      <3>1. session' = session /\ restored' = restored
        BY <1>5, <2>1 DEF toggleRunPause
      <3> QED
        BY <1>0, <2>0, <2>1, <3>1, QuietInv
    <2>2. CASE ~running'
      <3> DEFINE r == clear_input(session)
                 s == clear_audio(r)
      <3>1. session' = s /\ restored' = {}
        BY <1>5, <2>2 DEF toggleRunPause
      <3>2. /\ SessionOK(r) /\ has_content(r) /\ r.context.machine.pressed = {}
            /\ updateFrame(r) = updateFrame(session)
        BY <1>0, <2>0, ClearedSession
      <3>3. /\ SessionOK(s) /\ s.context = r.context /\ s.audio = "empty"
            /\ updateFrame(s) = updateFrame(r)
        BY <3>2, SilentSession
      <3> HIDE DEF r, s
      <3> QED
        BY <1>0, <2>0, <2>2, <3>1, <3>2, <3>3, QuietInv
    <2> QED
      BY <2>1, <2>2
  <1>6. CASE resetEmulation
    BY <1>0, <1>6, ResetSession, LoadInv DEF resetEmulation
  <1>7. CASE stepEmulation
    <2> DEFINE s == step(session)
    <2>0. /\ has_content(session) /\ running /\ session' = s /\ view' = updateFrame(s)
          /\ running' = running /\ saves' = saves /\ held' = held /\ focused' = focused
          /\ restored' = restored
      BY <1>7 DEF stepEmulation, input
    <2>1. /\ SessionOK(s) /\ has_content(s) /\ s.audio # "earlier"
          /\ s.context.machine.pressed = session.context.machine.pressed
      BY <1>0, <2>0, SteppedSession
    <2> HIDE DEF s
    <2> QED
      BY <1>0, <2>0, <2>1, QuietInv
  <1>8. CASE fill_and_enqueue
    <2> DEFINE s == clear_audio(session)
    <2>0. /\ session' = s /\ view' = view /\ running' = running /\ saves' = saves
          /\ held' = held /\ focused' = focused /\ restored' = restored
      BY <1>8 DEF fill_and_enqueue, clear_audio, input
    <2>1. /\ SessionOK(s) /\ (has_content(s) <=> has_content(session))
          /\ s.context = session.context /\ s.audio = "empty"
          /\ updateFrame(s) = updateFrame(session)
      BY <1>0, SilentSession
    <2> HIDE DEF s
    <2> QED
      BY <1>0, <2>0, <2>1, QuietInv
  <1>9. CASE keyDown
    <2>1. PICK b \in Buttons \ held : /\ held' = held \cup {b}
                                      /\ session' = set_nes_button(session, b, TRUE)
      BY <1>9 DEF keyDown
    <2> DEFINE s == set_nes_button(session, b, TRUE)
    <2>2. /\ focused /\ session' = s /\ view' = view /\ running' = running /\ saves' = saves
          /\ focused' = focused /\ restored' = restored
      BY <1>9, <2>1 DEF keyDown
    <2>3. /\ SessionOK(s) /\ (has_content(s) <=> has_content(session))
          /\ has_content(session) =>
                s.context.machine.pressed \subseteq session.context.machine.pressed \cup {b}
          /\ s.audio = session.audio /\ updateFrame(s) = updateFrame(session)
      BY <1>0, ButtonSession
    <2> HIDE DEF s
    <2>4. has_content(s) => s.context.machine.pressed \subseteq held' \cup restored'
      BY <1>0, <2>1, <2>2, <2>3
    <2>5. held' \subseteq Buttons
      BY <1>0, <2>1
    <2> QED
      BY <1>0, <2>2, <2>3, <2>4, <2>5, QuietInv
  <1>10. CASE keyUp
    <2>1. PICK b \in held :
            /\ held' = held \ {b}
            /\ session' = IF focused THEN set_nes_button(session, b, FALSE) ELSE session
            /\ restored' = IF focused THEN restored \ {b} ELSE restored
      BY <1>10 DEF keyUp
    <2>2. /\ view' = view /\ running' = running /\ saves' = saves /\ focused' = focused
      BY <1>10 DEF keyUp
    <2>3. CASE focused
      <3> DEFINE s == set_nes_button(session, b, FALSE)
      <3>1. b \in Buttons
        BY <1>0
      <3>2. /\ SessionOK(s) /\ (has_content(s) <=> has_content(session))
            /\ has_content(session) =>
                  s.context.machine.pressed \subseteq session.context.machine.pressed \ {b}
            /\ s.audio = session.audio /\ updateFrame(s) = updateFrame(session)
        BY <1>0, <3>1, ButtonSession
      <3>3. session' = s /\ restored' = restored \ {b}
        BY <2>1, <2>3
      <3> HIDE DEF s
      <3>4. has_content(s) => s.context.machine.pressed \subseteq held' \cup restored'
        BY <1>0, <2>1, <3>2, <3>3
      <3>5. held' \subseteq Buttons /\ restored' \subseteq Buttons
        BY <1>0, <2>1, <3>3
      <3> QED
        BY <1>0, <2>2, <2>3, <3>2, <3>3, <3>4, <3>5, QuietInv
    <2>4. CASE ~focused
      <3>1. session' = session /\ restored' = restored /\ held' \subseteq Buttons
        BY <1>0, <2>1, <2>4
      <3>2. has_content(session) =>
               session.context.machine.pressed \subseteq held' \cup restored'
        BY <1>0, <2>4, <3>1
      <3> QED
        BY <1>0, <2>2, <2>4, <3>1, <3>2, QuietInv
    <2> QED
      BY <2>3, <2>4
  <1>11. CASE windowDidResignKey
    <2> DEFINE s == clear_input(session)
    <2>0. /\ session' = s /\ view' = view /\ running' = running /\ saves' = saves
          /\ held' = held /\ focused' = FALSE /\ restored' = {}
      BY <1>11 DEF windowDidResignKey
    <2>1. /\ SessionOK(s) /\ (has_content(s) <=> has_content(session))
          /\ has_content(session) => s.context.machine.pressed = {}
          /\ s.audio = session.audio /\ updateFrame(s) = updateFrame(session)
      BY <1>0, ClearedSession
    <2> HIDE DEF s
    <2> QED
      BY <1>0, <2>0, <2>1, QuietInv
  <1>12. CASE windowDidBecomeKey
    BY <1>0, <1>12, QuietInv DEF windowDidBecomeKey
  <1>13. CASE UNCHANGED vars
    BY <1>0, <1>13, QuietInv DEF vars
  <1> QED
    BY <1>1, <1>2, <1>3, <1>4, <1>5, <1>6, <1>7, <1>8, <1>9, <1>10, <1>11, <1>12, <1>13
       DEF Next

-----------------------------------------------------------------------------
(* The invariants the run checks follow from the inductive one.            *)

LEMMA InvWindow == Inv => WindowIsCurrent
  <1> SUFFICES ASSUME Inv PROVE WindowIsCurrent
    OBVIOUS
  <1>1. session \in Sessions /\ view = updateFrame(session)
    BY DEF Inv, SessionOK
  <1>2. view.frame = session.frame /\ session.frame \in Frames
    BY <1>1 DEF updateFrame, Sessions
  <1>3. TypeOK
    BY <1>1, <1>2 DEF Inv, TypeOK, Sessions, Sources, Sounds
  <1>4. has_content(session) =>
           view = [frame |-> copy_frame(session.context), title |-> session.name]
    BY <1>1 DEF Inv, SessionOK, updateFrame
  <1> QED
    BY <1>3, <1>4 DEF WindowIsCurrent

LEMMA InvReset == Inv => ResetRestartsCurrent
  BY ResetSession DEF Inv, ResetRestartsCurrent

LEMMA Invariance == Spec => []Inv
  BY InitInv, NextInv, PTL DEF Spec

(* The state is well typed, and picture and title are those of the context *)
(* that runs: loadPath, restoreState, resetEmulation and stepEmulation     *)
(* leave no step after which the window shows an earlier session.          *)
THEOREM WindowStaysCurrent == Spec => []WindowIsCurrent
  BY Invariance, InvWindow, PTL

(* replace_context empties the ring whatever replaced the context, so      *)
(* nothing of an earlier one is played, and a paused session is silent.    *)
THEOREM SoundStaysCurrent == Spec => []SoundIsCurrent
  <1>1. Inv => SoundIsCurrent
    BY DEF Inv
  <1> QED
    BY Invariance, <1>1, PTL

(* What reset would load, from the source the session remembers, is the    *)
(* content and the kind of system that runs.                               *)
THEOREM ResetStaysCurrent == Spec => []ResetRestartsCurrent
  BY Invariance, InvReset, PTL

(* No button is stuck: one that is down in the core has its key held, or   *)
(* was down in the state restored last.                                    *)
THEOREM KeysStayHeld == Spec => []KeysAreHeld
  <1>1. Inv => KeysAreHeld
    BY DEF Inv
  <1> QED
    BY Invariance, <1>1, PTL

=============================================================================
