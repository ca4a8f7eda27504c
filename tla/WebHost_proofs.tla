--------------------------- MODULE WebHost_proofs ---------------------------
(***************************************************************************)
(* The three invariants of the browser host, for any number of file reads  *)
(* under way that finish in any order, and any contents and buttons.       *)
(***************************************************************************)
EXTENDS WebHost, FiniteSetTheorems, TLAPS

(* The context is a NES whose machine runs the content the context names,  *)
(* and once it has content that content is a ROM image.                    *)
ContextOK(c) ==
    /\ c \in Contexts
    /\ c.system = "nes"
    /\ c.machine.content = c.content
    /\ c.has_content => c.content \in Roms

(* A state of the storage or of a file is about one content.               *)
StateOK(s) == s \in States /\ s.machine.content = s.content

Types ==
    /\ ContextOK(ctx)
    /\ runningRef \in BOOLEAN /\ isRunning \in BOOLEAN
    /\ hasRom \in BOOLEAN /\ canReset \in BOOLEAN /\ focused \in BOOLEAN
    /\ romDataRef \in Contents \cup {NoContent}
    /\ romName \in Contents \cup {NoContent}
    /\ held \subseteq Buttons

Reads ==
    /\ pending \subseteq Pending
    /\ IsFiniteSet(pending) /\ Cardinality(pending) <= MaxPending

Page ==
    /\ runningRef \/ isRunning \/ hasRom => ctx.has_content
    /\ hasRom => romName = ctx.content
    /\ canReset => hasRom /\ romDataRef = ctx.content

Stored == storage \in [Contents -> States] /\ SlotMatchesContent

Inv == Types /\ Reads /\ Page /\ RunningAgrees /\ Stored

-----------------------------------------------------------------------------
(* The API's operators on the page's context.                              *)

LEMMA LoadedContext ==
    ASSUME NEW c, ContextOK(c), NEW content \in Roms
    PROVE  LET d == load_content(c, content)
           IN  ContextOK(d) /\ d.content = content /\ d.has_content
  <1>1. PoweredOn(content) \in Machines /\ PoweredOn(content).content = content
    BY MaxTicksAssumption DEF PoweredOn, Machines, Contents
  <1>2. load_content(c, content) =
            [c EXCEPT !.machine = PoweredOn(content), !.content = content,
                      !.has_content = TRUE]
    BY DEF load_content, Accepts, LoadedMachine, ContextOK
  <1>3. content \in Contents
    BY DEF Contents
  <1> QED
    BY <1>1, <1>2, <1>3 DEF ContextOK, Contexts

LEMMA SteppedContext ==
    ASSUME NEW c, ContextOK(c)
    PROVE  LET d == ear6_step(c)
           IN  ContextOK(d) /\ d.content = c.content /\ d.has_content = c.has_content
  <1> DEFINE t == IF c.machine.ticks < MaxTicks THEN c.machine.ticks + 1 ELSE c.machine.ticks
             m == [c.machine EXCEPT !.ticks = t]
  <1>1. m \in Machines /\ m.content = c.machine.content
    BY MaxTicksAssumption DEF ContextOK, Contexts, Machines
  <1>2. ear6_step(c) = [c EXCEPT !.machine = m]
    BY DEF ear6_step, ContextOK, Contexts, Machines
  <1> HIDE DEF m
  <1> QED
    BY <1>1, <1>2 DEF ContextOK, Contexts

LEMMA RestoredContext ==
    ASSUME NEW c, ContextOK(c), NEW s, StateOK(s), Restorable(c, s)
    PROVE  LET d == ear6_load_state_from_memory(c, s)
           IN  ContextOK(d) /\ d.content = s.content /\ d.has_content
  <1>1. ear6_load_state_from_memory(c, s) =
            [c EXCEPT !.machine = s.machine, !.content = s.content, !.has_content = TRUE]
    BY DEF ear6_load_state_from_memory
  <1>2. s.content \in Roms
    BY DEF Restorable, Accepts, ContextOK
  <1> QED
    BY <1>1, <1>2 DEF ContextOK, Contexts, StateOK, States

LEMMA PressedContext ==
    ASSUME NEW c, ContextOK(c), NEW b \in Buttons, NEW down \in BOOLEAN
    PROVE  LET d == ear6_nes_set_button_state(c, b, down)
           IN  ContextOK(d) /\ d.content = c.content /\ d.has_content = c.has_content
  <1>1. CASE ~c.has_content
    BY <1>1 DEF ear6_nes_set_button_state
  <1>2. CASE c.has_content
    <2> DEFINE q == IF down THEN c.machine.pressed \cup {b} ELSE c.machine.pressed \ {b}
               m == [c.machine EXCEPT !.pressed = q]
    <2>1. m \in Machines /\ m.content = c.machine.content
      BY DEF ContextOK, Contexts, Machines
    <2>2. ear6_nes_set_button_state(c, b, down) = [c EXCEPT !.machine = m]
      BY <1>2 DEF ear6_nes_set_button_state, ContextOK, Contexts, Machines
    <2> HIDE DEF m
    <2> QED
      BY <2>1, <2>2 DEF ContextOK, Contexts
  <1> QED
    BY <1>1, <1>2

LEMMA StateFilesOK ==
    ASSUME NEW s \in StateFiles
    PROVE  StateOK(s)
  <1>1. PICK sys \in Systems, c \in Roms, i \in BOOLEAN :
            s = [system |-> sys, content |-> c, machine |-> PoweredOn(c), intact |-> i]
    BY DEF StateFiles
  <1>2. PoweredOn(c) \in Machines /\ PoweredOn(c).content = c
    BY MaxTicksAssumption DEF PoweredOn, Machines, Contents
  <1> QED
    BY <1>1, <1>2 DEF StateOK, States, Contents

LEMMA StoredOK ==
    ASSUME Inv, NEW c \in Contents, storage[c] # NoState
    PROVE  StateOK(storage[c])
  BY DEF Inv, Stored, SlotMatchesContent, StateOK

-----------------------------------------------------------------------------
(* The reads under way.                                                    *)

LEMMA ReadStarted ==
    ASSUME Reads, NEW r \in Pending, Cardinality(pending) < MaxPending,
           pending' = pending \cup {r}
    PROVE  Reads'
  <1>1. IsFiniteSet(pending) /\ Cardinality(pending) \in Nat
    BY FS_CardinalityType DEF Reads
  <1>2. IsFiniteSet(pending') /\ (Cardinality(pending') = Cardinality(pending)
                                     \/ Cardinality(pending') = Cardinality(pending) + 1)
    BY <1>1, FS_AddElement
  <1>3. Cardinality(pending') <= MaxPending
    BY <1>1, <1>2, MaxPendingAssumption
  <1> QED
    BY <1>2, <1>3 DEF Reads

LEMMA ReadEnded ==
    ASSUME Reads, NEW r \in pending, pending' = pending \ {r}
    PROVE  Reads'
  <1>1. IsFiniteSet(pending) /\ Cardinality(pending) \in Nat /\ Cardinality(pending) <= MaxPending
    BY FS_CardinalityType DEF Reads
  <1>2. IsFiniteSet(pending') /\ Cardinality(pending') = Cardinality(pending) - 1
    BY <1>1, FS_RemoveElement
  <1>3. Cardinality(pending') <= MaxPending
    BY <1>1, <1>2, MaxPendingAssumption
  <1> QED
    BY <1>2, <1>3 DEF Reads

-----------------------------------------------------------------------------
(* The inductive invariant.                                                *)

LEMMA InitInv == Init => Inv
  <1> SUFFICES ASSUME Init PROVE Inv
    OBVIOUS
  <1>1. ContextOK(ctx)
    BY MaxTicksAssumption DEF Init, ContextOK, Contexts, ear6_create, PoweredOn, Machines, Systems
  <1>2. Types
    BY <1>1 DEF Init, Types
  <1>3. Reads
    BY FS_EmptySet, MaxPendingAssumption DEF Init, Reads
  <1>4. Page /\ RunningAgrees
    BY DEF Init, Page, RunningAgrees
  <1>5. NoState \in States
    BY MaxTicksAssumption DEF NoState, States, PoweredOn, Machines, Systems
  <1>6. Stored
    BY <1>5 DEF Init, Stored, SlotMatchesContent
  <1> QED
    BY <1>2, <1>3, <1>4, <1>6 DEF Inv

(* openRom stops the loop and leaves the button: while a ROM is read the   *)
(* two may differ, and the read that is under way says so.                 *)
LEMMA OpenRomInv ==
    ASSUME Inv, openRom
    PROVE  Inv'
  <1>1. PICK c \in Contents : pending' = pending \cup {[kind |-> "rom", file |-> c]}
    BY DEF openRom
  <1>2. [kind |-> "rom", file |-> c] \in Pending
    BY DEF Pending
  <1>3. Reads'
    BY <1>1, <1>2, ReadStarted DEF openRom, Inv
  <1>4. /\ runningRef' = FALSE
        /\ UNCHANGED <<ctx, romDataRef, isRunning, hasRom, canReset, romName, storage,
                       held, focused>>
    BY DEF openRom, ui, input
  <1>5. Types' /\ Page' /\ Stored'
    BY <1>4 DEF Inv, Types, Page, Stored, SlotMatchesContent
  <1>6. \E q \in pending' : q.kind = "rom"
    <2> DEFINE r == [kind |-> "rom", file |-> c]
    <2>1. r.kind = "rom"
      OBVIOUS
    <2>2. r \in pending'
      BY <1>1
    <2> HIDE DEF r
    <2> QED
      BY <2>1, <2>2
  <1>7. ~ \A q \in pending' : q.kind # "rom"
    BY <1>6, Zenon
  <1>8. RunningAgrees'
    BY <1>4, <1>7 DEF RunningAgrees
  <1> QED
    BY <1>3, <1>5, <1>8 DEF Inv

(* What is loaded or has failed to load sets loop and button together.     *)
LEMMA OpenRomResumedInv ==
    ASSUME Inv, openRom_resumed
    PROVE  Inv'
  <1>1. PICK q \in pending : /\ q.kind = "rom"
                             /\ pending' = pending \ {q}
                             /\ openRom_loaded(q) \/ openRom_failed(q)
    BY DEF openRom_resumed
  <1>2. Reads'
    BY <1>1, ReadEnded DEF Inv
  <1>3. storage' = storage /\ held' = held /\ focused' = focused
    BY DEF openRom_resumed, input
  <1>4. Stored'
    BY <1>3 DEF Inv, Stored, SlotMatchesContent
  <1>5. CASE openRom_failed(q)
    <2>1. /\ hasRom' = FALSE /\ canReset' = FALSE /\ runningRef' = FALSE /\ isRunning' = FALSE
          /\ ctx' = ctx /\ romDataRef' = romDataRef /\ romName' = romName
      BY <1>5 DEF openRom_failed
    <2>2. Types' /\ Page' /\ RunningAgrees'
      BY <1>3, <2>1 DEF Inv, Types, Page, RunningAgrees
    <2> QED
      BY <1>2, <1>4, <2>2 DEF Inv
  <1>6. CASE openRom_loaded(q)
    <2> DEFINE c == load_content(ctx, q.file)
               d == ear6_step(c)
    <2>1. /\ ctx' = d /\ romDataRef' = q.file /\ hasRom' = TRUE /\ canReset' = TRUE
          /\ romName' = q.file /\ runningRef' = TRUE /\ isRunning' = TRUE
          /\ Accepts(ctx.system, q.file)
      BY <1>6 DEF openRom_loaded
    <2>2. q.file \in Roms
      BY <2>1 DEF Accepts, Inv, Types, ContextOK
    <2>3. ContextOK(c) /\ c.content = q.file /\ c.has_content
      BY <2>2, LoadedContext DEF Inv, Types
    <2>4. ContextOK(d) /\ d.content = q.file /\ d.has_content
      BY <2>3, SteppedContext
    <2>5. q.file \in Contents
      BY <2>2 DEF Contents
    <2> HIDE DEF d
    <2>6. Types'
      BY <1>3, <2>1, <2>4, <2>5 DEF Inv, Types
    <2>7. Page' /\ RunningAgrees'
      BY <2>1, <2>4 DEF Page, RunningAgrees
    <2> QED
      BY <1>2, <1>4, <2>6, <2>7 DEF Inv
  <1> QED
    BY <1>1, <1>5, <1>6

LEMMA OpenStateInv ==
    ASSUME Inv, openState
    PROVE  Inv'
  <1>1. PICK s \in StateFiles : pending' = pending \cup {[kind |-> "state", file |-> s]}
    BY DEF openState
  <1>2. [kind |-> "state", file |-> s] \in Pending
    BY DEF Pending
  <1>3. Reads'
    BY <1>1, <1>2, ReadStarted DEF openState, Inv
  <1>4. UNCHANGED <<ctx, runningRef, romDataRef, isRunning, hasRom, canReset, romName,
                    storage, held, focused>>
    BY DEF openState, ui, input
  <1>5. Types' /\ Page' /\ Stored'
    BY <1>4 DEF Inv, Types, Page, Stored, SlotMatchesContent
  <1>6. pending \subseteq pending'
    BY <1>1
  <1>7. RunningAgrees'
    BY <1>4, <1>6 DEF Inv, RunningAgrees
  <1> QED
    BY <1>3, <1>5, <1>7 DEF Inv

(* loadStateBytes, whichever way it was reached: all of it or nothing.     *)
LEMMA LoadStateBytes ==
    ASSUME Inv, NEW s, StateOK(s), loadStateBytes(s) \/ loadStateBytes_failed(s),
           UNCHANGED <<storage, input>>,
           pending' \subseteq pending,
           \A q \in pending : q.kind = "rom" => q \in pending'
    PROVE  Types' /\ Page' /\ RunningAgrees' /\ Stored'
  <1>1. storage' = storage /\ held' = held /\ focused' = focused
    BY DEF input
  <1>2. Stored'
    BY <1>1 DEF Inv, Stored, SlotMatchesContent
  <1>3. CASE loadStateBytes_failed(s)
    <2>1. UNCHANGED <<ctx, runningRef, romDataRef, isRunning, hasRom, canReset, romName>>
      BY <1>3 DEF loadStateBytes_failed, ui
    <2>2. Types' /\ Page'
      BY <1>1, <2>1 DEF Inv, Types, Page
    <2>3. (\A q \in pending' : q.kind # "rom") => \A q \in pending : q.kind # "rom"
      OBVIOUS
    <2>4. RunningAgrees'
      BY <2>1, <2>3 DEF Inv, RunningAgrees
    <2> QED
      BY <1>2, <2>2, <2>4
  <1>4. CASE loadStateBytes(s)
    <2> DEFINE d == ear6_load_state_from_memory(ctx, s)
    <2>1. /\ Restorable(ctx, s) /\ ctx' = d /\ romDataRef' = NoContent /\ hasRom' = TRUE
          /\ canReset' = FALSE /\ romName' = s.content /\ runningRef' = FALSE
          /\ isRunning' = FALSE
      BY <1>4 DEF loadStateBytes
    <2>2. ContextOK(d) /\ d.content = s.content /\ d.has_content
      BY <2>1, RestoredContext DEF Inv, Types
    <2>3. s.content \in Contents \cup {NoContent}
      BY DEF StateOK, States
    <2> HIDE DEF d
    <2>4. Types'
      BY <1>1, <2>1, <2>2, <2>3 DEF Inv, Types
    <2>5. Page' /\ RunningAgrees'
      BY <2>1, <2>2 DEF Page, RunningAgrees
    <2> QED
      BY <1>2, <2>4, <2>5
  <1> QED
    BY <1>3, <1>4

LEMMA OpenStateResumedInv ==
    ASSUME Inv, openState_resumed
    PROVE  Inv'
  <1>1. PICK q \in pending : /\ q.kind = "state"
                             /\ pending' = pending \ {q}
                             /\ loadStateBytes(q.file) \/ loadStateBytes_failed(q.file)
    BY DEF openState_resumed
  <1>2. Reads'
    BY <1>1, ReadEnded DEF Inv
  <1>3. q.file \in StateFiles
    BY <1>1 DEF Inv, Reads, Pending
  <1>4. StateOK(q.file)
    BY <1>3, StateFilesOK
  <1>5. pending' \subseteq pending /\ \A r \in pending : r.kind = "rom" => r \in pending'
    BY <1>1
  <1>6. UNCHANGED <<storage, input>>
    BY DEF openState_resumed
  <1> QED
    BY <1>1, <1>2, <1>4, <1>5, <1>6, LoadStateBytes DEF Inv

LEMMA LoadStoredInv ==
    ASSUME Inv, loadStoredState
    PROVE  Inv'
  <1>1. PICK c \in Contents :
            /\ storage[c] # NoState
            /\ loadStateBytes(storage[c]) \/ loadStateBytes_failed(storage[c])
    BY DEF loadStoredState
  <1>2. StateOK(storage[c])
    BY <1>1, StoredOK
  <1>3. pending' = pending /\ UNCHANGED <<storage, input>>
    BY DEF loadStoredState, input
  <1>4. Reads'
    BY <1>3 DEF Inv, Reads
  <1> QED
    BY <1>1, <1>2, <1>3, <1>4, LoadStateBytes DEF Inv

LEMMA SaveInv ==
    ASSUME Inv, saveLocalState
    PROVE  Inv'
  <1> DEFINE s == build_state(ctx)
  <1>1. /\ hasRom /\ CanSave(ctx) /\ storage' = [storage EXCEPT ![ctx.content] = s]
        /\ UNCHANGED <<ctx, runningRef, romDataRef, isRunning, hasRom, canReset, romName,
                       pending, held, focused>>
    BY DEF saveLocalState, ui, input
  <1>2. ctx.content \in Contents
    BY <1>1 DEF Inv, Types, Page, ContextOK, Contents
  <1>3. s \in States /\ s.content = ctx.content /\ s.machine.content = ctx.content /\ s.intact
    BY DEF build_state, States, Inv, Types, ContextOK, Contexts
  <1> HIDE DEF s
  <1>4. Stored'
    <2>1. storage' \in [Contents -> States]
      BY <1>1, <1>3 DEF Inv, Stored
    <2>2. \A c \in Contents : storage'[c] = IF c = ctx.content THEN s ELSE storage[c]
      BY <1>1, <1>2 DEF Inv, Stored
    <2> QED
      BY <1>3, <2>1, <2>2 DEF Inv, Stored, SlotMatchesContent
  <1>5. Types' /\ Reads' /\ Page' /\ RunningAgrees'
    BY <1>1 DEF Inv, Types, Reads, Page, RunningAgrees
  <1> QED
    BY <1>4, <1>5 DEF Inv

LEMMA DeleteInv ==
    ASSUME Inv, deleteStoredState
    PROVE  Inv'
  <1>1. PICK c \in Contents : storage' = [storage EXCEPT ![c] = NoState]
    BY DEF deleteStoredState
  <1>2. UNCHANGED <<ctx, runningRef, romDataRef, isRunning, hasRom, canReset, romName,
                    pending, held, focused>>
    BY DEF deleteStoredState, ui, input
  <1>3. NoState \in States
    BY MaxTicksAssumption DEF NoState, States, PoweredOn, Machines, Systems
  <1>4. Stored'
    <2>1. storage' \in [Contents -> States]
      BY <1>1, <1>3 DEF Inv, Stored
    <2>2. \A d \in Contents : storage'[d] # NoState => storage'[d] = storage[d]
      BY <1>1 DEF Inv, Stored
    <2> QED
      BY <2>1, <2>2 DEF Inv, Stored, SlotMatchesContent
  <1>5. Types' /\ Reads' /\ Page' /\ RunningAgrees'
    BY <1>2 DEF Inv, Types, Reads, Page, RunningAgrees
  <1> QED
    BY <1>4, <1>5 DEF Inv

LEMMA ToggleInv ==
    ASSUME Inv, toggleRun
    PROVE  Inv'
  <1>1. /\ hasRom /\ isRunning' = ~isRunning /\ runningRef' = isRunning'
        /\ UNCHANGED <<ctx, romDataRef, hasRom, canReset, romName, storage, pending, held,
                       focused>>
    BY DEF toggleRun, input
  <1>2. Types' /\ Reads' /\ Stored'
    BY <1>1 DEF Inv, Types, Reads, Stored, SlotMatchesContent
  <1>3. Page' /\ RunningAgrees'
    BY <1>1 DEF Inv, Page, RunningAgrees
  <1> QED
    BY <1>2, <1>3 DEF Inv

LEMMA ResetInv ==
    ASSUME Inv, resetRom
    PROVE  Inv'
  <1> DEFINE c == load_content(ctx, romDataRef)
             d == ear6_step(c)
  <1>1. /\ canReset /\ ctx' = d /\ runningRef' = FALSE /\ isRunning' = FALSE
        /\ UNCHANGED <<romDataRef, hasRom, canReset, romName, storage, pending, held, focused>>
    BY DEF resetRom, input
  <1>2. romDataRef \in Roms /\ romDataRef = ctx.content /\ ContextOK(ctx)
    BY <1>1 DEF Inv, Types, Page, ContextOK
  <1>3. ContextOK(c) /\ c.content = romDataRef /\ c.has_content
    BY <1>2, LoadedContext
  <1>4. ContextOK(d) /\ d.content = ctx.content /\ d.has_content
    BY <1>2, <1>3, SteppedContext
  <1> HIDE DEF d
  <1>5. Types' /\ Reads' /\ Stored'
    BY <1>1, <1>4 DEF Inv, Types, Reads, Stored, SlotMatchesContent
  <1>6. Page' /\ RunningAgrees'
    BY <1>1, <1>4 DEF Inv, Page, RunningAgrees
  <1> QED
    BY <1>5, <1>6 DEF Inv

(* A frame or a key: the machine changes, the content does not.            *)
LEMMA RunsOnInv ==
    ASSUME Inv, NEW d, ContextOK(d), d.content = ctx.content, d.has_content = ctx.has_content,
           ctx' = d, held' \subseteq Buttons, focused' \in BOOLEAN,
           UNCHANGED <<runningRef, romDataRef, ui, storage, pending>>
    PROVE  Inv'
  <1>1. UNCHANGED <<runningRef, romDataRef, isRunning, hasRom, canReset, romName, storage,
                    pending>>
    BY DEF ui
  <1>2. Types' /\ Reads' /\ Stored'
    BY <1>1 DEF Inv, Types, Reads, Stored, SlotMatchesContent
  <1>3. Page' /\ RunningAgrees'
    BY <1>1 DEF Inv, Page, RunningAgrees
  <1> QED
    BY <1>2, <1>3 DEF Inv

LEMMA NextInv == Inv /\ [Next]_vars => Inv'
  <1> SUFFICES ASSUME Inv, [Next]_vars PROVE Inv'
    OBVIOUS
  <1>0. ContextOK(ctx) /\ held \subseteq Buttons /\ focused \in BOOLEAN
    BY DEF Inv, Types
  <1>1. CASE draw
    BY <1>0, <1>1, SteppedContext, RunsOnInv DEF draw, input
  <1>2. CASE key_down
    <2>1. PICK b \in Buttons : held' = held \cup {b}
                                 /\ ctx' = ear6_nes_set_button_state(ctx, b, TRUE)
      BY <1>2 DEF key_down
    <2>2. held' \subseteq Buttons /\ focused' = focused
      BY <1>0, <1>2, <2>1 DEF key_down
    <2> QED
      BY <1>0, <1>2, <2>1, <2>2, PressedContext, RunsOnInv DEF key_down
  <1>3. CASE key_up
    <2>1. PICK b \in held :
            /\ held' = held \ {b}
            /\ ctx' = IF focused THEN ear6_nes_set_button_state(ctx, b, FALSE) ELSE ctx
      BY <1>3 DEF key_up
    <2>2. held' \subseteq Buttons /\ b \in Buttons /\ focused' = focused
      BY <1>0, <1>3, <2>1 DEF key_up
    <2> QED
      BY <1>0, <1>3, <2>1, <2>2, PressedContext, RunsOnInv DEF key_up
  <1>4. CASE change_focus
    BY <1>0, <1>4, RunsOnInv DEF change_focus
  <1>5. CASE UNCHANGED vars
    BY <1>0, <1>5, RunsOnInv DEF vars, ui
  <1> QED
    BY <1>1, <1>2, <1>3, <1>4, <1>5, OpenRomInv, OpenRomResumedInv, OpenStateInv,
       OpenStateResumedInv, LoadStoredInv, SaveInv, DeleteInv, ToggleInv, ResetInv
       DEF Next

LEMMA Invariance == Spec => []Inv
  BY InitInv, NextInv, PTL DEF Spec

(* Whatever reads finish in whatever order, the page names what the        *)
(* context runs, Reset has its very bytes, and the animation loop never    *)
(* steps a context without content.                                        *)
THEOREM UiStaysCurrent == Spec => []UiMatchesContext
  <1>1. Inv => UiMatchesContext
    BY DEF Inv, Types, ContextOK, Reads, Page, Stored, UiMatchesContext, TypeOK
  <1> QED
    BY Invariance, <1>1, PTL

(* The loop reads runningRef and the button shows isRunning: they agree    *)
(* unless a ROM is being read, and the loop never runs behind a button     *)
(* that says paused.                                                       *)
THEOREM RunningStaysAgreed == Spec => []RunningAgrees
  <1>1. Inv => RunningAgrees
    BY DEF Inv
  <1> QED
    BY Invariance, <1>1, PTL

(* A slot of the storage holds a whole state of the content it is filed    *)
(* under.                                                                  *)
THEOREM SlotsStayMatched == Spec => []SlotMatchesContent
  <1>1. Inv => SlotMatchesContent
    BY DEF Inv, Stored
  <1> QED
    BY Invariance, <1>1, PTL

=============================================================================
