------------------------------- MODULE WebHost -------------------------------
(***************************************************************************)
(* The browser host (apps/web/ui/src/App.tsx): one NES context, the React  *)
(* state the buttons are drawn from, the refs the animation loop reads,    *)
(* and the browser's storage.  Opening a file is asynchronous: the handler *)
(* stops the emulation, awaits the file's bytes and goes on when they      *)
(* arrive; meanwhile the other buttons and the animation loop work, and a  *)
(* second file may be opened, so that the two finish in any order.         *)
(*                                                                         *)
(* React's state is committed at the end of the handler that set it; the   *)
(* effect that copies isRunning to runningRef is part of that commit.      *)
(* A file bears the name of the content in it, so that romName says which  *)
(* content the page believes to run.                                       *)
(***************************************************************************)
EXTENDS Ear6Context, Sequences, FiniteSets

CONSTANT MaxPending    \* bound on the file reads under way at one time

ASSUME MaxPendingAssumption == MaxPending \in Nat

VARIABLES
    ctx,                       \* the context behind ctxRef
    runningRef, romDataRef,    \* refs; romDataRef is a content
    isRunning, hasRom, canReset, romName,    \* React state
    storage,                   \* localStorage: content to saved state
    pending,                   \* the file reads under way
    held,                      \* the keys the user holds down
    focused                    \* does the page get key events?

vars == <<ctx, runningRef, romDataRef, isRunning, hasRom, canReset, romName,
          storage, pending, held, focused>>

ui == <<isRunning, hasRom, canReset, romName>>
input == <<held, focused>>

NoState == [system |-> "nes", content |-> NoContent,
            machine |-> PoweredOn(NoContent), intact |-> FALSE]

(* The page has loaded the module and created the context.                 *)
Init ==
    /\ ctx = ear6_create("nes")
    /\ runningRef = FALSE /\ romDataRef = NoContent
    /\ isRunning = FALSE /\ hasRom = FALSE /\ canReset = FALSE
    /\ romName = NoContent
    /\ storage = [c \in Contents |-> NoState]
    /\ pending = {}
    /\ held = {} /\ focused = TRUE

(* The states a file picked by the user may hold: one the application has  *)
(* downloaded, possibly damaged since, or one of another system.           *)
StateFiles ==
    {[system |-> s, content |-> c, machine |-> PoweredOn(c), intact |-> i] :
        s \in Systems, c \in Roms, i \in BOOLEAN}

(* openRom up to its await.                                                *)
openRom ==
    /\ Cardinality(pending) < MaxPending
    /\ \E c \in Contents : pending' = pending \cup {[kind |-> "rom", file |-> c]}
    /\ pending' # pending
    /\ runningRef' = FALSE
    /\ UNCHANGED <<ctx, romDataRef, ui, storage, input>>

(* The catch branch, for a file that cannot be read or is no ROM.          *)
openRom_failed(p) ==
    /\ hasRom' = FALSE
    /\ canReset' = FALSE
    /\ runningRef' = FALSE
    /\ isRunning' = FALSE
    /\ UNCHANGED <<ctx, romDataRef, romName>>

(* The rest of openRom when the load succeeds; it runs the first frame.    *)
openRom_loaded(p) ==
    /\ Accepts(ctx.system, p.file)
    /\ ctx' = ear6_step(load_content(ctx, p.file))
    /\ romDataRef' = p.file
    /\ hasRom' = TRUE
    /\ canReset' = TRUE
    /\ romName' = p.file
    /\ runningRef' = TRUE
    /\ isRunning' = TRUE

openRom_resumed ==
    /\ \E p \in pending :
          /\ p.kind = "rom"
          /\ pending' = pending \ {p}
          /\ openRom_loaded(p) \/ openRom_failed(p)
    /\ UNCHANGED <<storage, input>>

loadStateBytes_keeps_reset(state) ==
    /\ Restorable(ctx, state)
    /\ ctx' = ear6_load_state_from_memory(ctx, state)
    /\ romDataRef' = NoContent
    /\ hasRom' = TRUE
    /\ romName' = state.content
    /\ runningRef' = FALSE
    /\ isRunning' = FALSE
    /\ UNCHANGED canReset

(* The restored session is paused, and has no ROM file to be reset from.   *)
loadStateBytes(state) ==
    /\ Restorable(ctx, state)
    /\ ctx' = ear6_load_state_from_memory(ctx, state)
    /\ romDataRef' = NoContent
    /\ hasRom' = TRUE
    /\ canReset' = FALSE
    /\ romName' = state.content
    /\ runningRef' = FALSE
    /\ isRunning' = FALSE

loadStateBytes_failed_stops(state) ==
    /\ runningRef' = FALSE
    /\ UNCHANGED <<ctx, romDataRef, ui>>

(* A damaged state, one of another system, or no memory for it: the        *)
(* emulation goes on as before.                                            *)
loadStateBytes_failed(state) ==
    /\ runningRef' = runningRef
    /\ UNCHANGED <<ctx, romDataRef, ui>>

openState ==
    /\ Cardinality(pending) < MaxPending
    /\ \E s \in StateFiles : pending' = pending \cup {[kind |-> "state", file |-> s]}
    /\ pending' # pending
    /\ UNCHANGED <<ctx, runningRef, romDataRef, ui, storage, input>>

openState_resumed ==
    /\ \E p \in pending :
          /\ p.kind = "state"
          /\ pending' = pending \ {p}
          /\ loadStateBytes(p.file) \/ loadStateBytes_failed(p.file)
    /\ UNCHANGED <<storage, input>>

(* A save of the Load menu; the menu lists what is stored.                 *)
loadStoredState ==
    /\ \E c \in Contents :
          /\ storage[c] # NoState
          /\ loadStateBytes(storage[c]) \/ loadStateBytes_failed(storage[c])
    /\ UNCHANGED <<storage, pending, input>>

(* captureState and writeStoredSave: one slot for each content.            *)
saveLocalState ==
    /\ hasRom
    /\ CanSave(ctx)
    /\ storage' = [storage EXCEPT ![ctx.content] = build_state(ctx)]
    /\ UNCHANGED <<ctx, runningRef, romDataRef, ui, pending, input>>

deleteStoredState ==
    /\ \E c \in Contents : /\ storage[c] # NoState
                           /\ storage' = [storage EXCEPT ![c] = NoState]
    /\ UNCHANGED <<ctx, runningRef, romDataRef, ui, pending, input>>

toggleRun ==
    /\ hasRom
    /\ isRunning' = ~isRunning
    /\ runningRef' = isRunning'
    /\ UNCHANGED <<ctx, romDataRef, hasRom, canReset, romName, storage,
                   pending, input>>

(* The ROM is loaded again, its first frame run, and the emulation paused. *)
resetRom ==
    /\ canReset
    /\ romDataRef # NoContent
    /\ ctx' = ear6_step(load_content(ctx, romDataRef))
    /\ runningRef' = FALSE
    /\ isRunning' = FALSE
    /\ UNCHANGED <<romDataRef, hasRom, canReset, romName, storage, pending,
                   input>>

(* A frame of the animation loop that runs the emulation.                  *)
draw ==
    /\ runningRef
    /\ ctx' = ear6_step(ctx)
    /\ UNCHANGED <<runningRef, romDataRef, ui, storage, pending, input>>

-----------------------------------------------------------------------------
(* The keyboard.  Another window may get the focus at any time, and keys   *)
(* may be released there.                                                  *)
key_down ==
    /\ focused
    /\ \E b \in Buttons \ held :
          /\ held' = held \cup {b}
          /\ ctx' = ear6_nes_set_button_state(ctx, b, TRUE)
    /\ UNCHANGED <<runningRef, romDataRef, ui, storage, pending, focused>>

key_up ==
    /\ \E b \in held :
          /\ held' = held \ {b}
          /\ ctx' = IF focused THEN ear6_nes_set_button_state(ctx, b, FALSE)
                               ELSE ctx
    /\ UNCHANGED <<runningRef, romDataRef, ui, storage, pending, focused>>

change_focus ==
    /\ focused' = ~focused
    /\ UNCHANGED <<ctx, runningRef, romDataRef, ui, storage, pending, held>>

Next ==
    \/ openRom \/ openRom_resumed \/ openState \/ openState_resumed
    \/ loadStoredState \/ saveLocalState \/ deleteStoredState
    \/ toggleRun \/ resetRom \/ draw
    \/ key_down \/ key_up \/ change_focus

Spec == Init /\ [][Next]_vars

-----------------------------------------------------------------------------
Pending == [kind : {"rom"}, file : Contents] \cup [kind : {"state"}, file : StateFiles]

TypeOK ==
    /\ ctx \in Contexts
    /\ {runningRef, isRunning, hasRom, canReset, focused} \subseteq BOOLEAN
    /\ {romDataRef, romName} \subseteq Contents \cup {NoContent}
    /\ storage \in [Contents -> States]
    /\ pending \subseteq Pending /\ Cardinality(pending) <= MaxPending
    /\ held \subseteq Buttons

(* Whatever finishes in whatever order, the page describes what the        *)
(* context runs: the name is that of its content, and Reset, where it is   *)
(* offered, has the very bytes of it.  The animation loop never steps a    *)
(* context without content: ear6_step does not check, and a NES without    *)
(* content has no PPU to run.                                              *)
UiMatchesContext ==
    /\ TypeOK
    /\ runningRef \/ isRunning \/ hasRom => ctx.has_content
    /\ hasRom => romName = ctx.content
    /\ canReset => hasRom /\ romDataRef = ctx.content

(* The animation loop and the Run button agree whenever no ROM is being    *)
(* opened; in between the emulation may stand still, but it never runs     *)
(* while the button says it is paused.                                     *)
RunningAgrees ==
    /\ runningRef => isRunning
    /\ (\A p \in pending : p.kind # "rom") => runningRef = isRunning

(* A slot of the browser's storage holds a whole state of the content it   *)
(* is filed under, so that loading a save starts the game it is listed as. *)
SlotMatchesContent ==
    \A c \in Contents : storage[c] # NoState =>
        storage[c].content = c /\ storage[c].machine.content = c
            /\ storage[c].intact

(* The keys the core holds down are keys the user holds down: what         *)
(* docs/api-reference.md asks of a host.  This host does not keep it       *)
(* (README, Disagreements).                                                *)
NoStuckKeys == ctx.machine.pressed \subseteq held

=============================================================================
