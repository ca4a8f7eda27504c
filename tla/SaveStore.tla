------------------------------ MODULE SaveStore ------------------------------
(***************************************************************************)
(* The save store of the native desktop host                               *)
(* (apps/desktop/common/save_store.cpp) over a POSIX file system: one file *)
(* for each system and content, written under a temporary name and renamed *)
(* over the old one.  Every call of the system is a step: a write may      *)
(* fail, the process may die between any two, and what it has left behind  *)
(* is there when it starts again.                                          *)
(*                                                                         *)
(* Directory and data are apart, as an open file keeps its inode when its  *)
(* name is replaced.  A process that dies loses nothing it has written; a  *)
(* power failure, which might, is not modelled.                            *)
(***************************************************************************)
EXTENDS Integers, Sequences, FiniteSets

CONSTANTS
    Instances,    \* running copies of the application
    Contents,     \* the contents (with their system) that have a slot
    Sizes,        \* the numbers of writes a state takes
    MaxSaves      \* bound on the saves attempted

ASSUME ContentsAssumption == IsFiniteSet(Contents)
ASSUME SizesAssumption == Sizes \subseteq Nat \ {0}
ASSUME MaxSavesAssumption == MaxSaves \in Nat

VARIABLES
    dir,        \* directory_: name to inode
    data,       \* inode to the parts written
    saving,     \* what each instance is saving, and how far it is
    menu,       \* the entries of each instance's Load State menu
    count,      \* saves attempted
    reported    \* the last save of each content that returned true

vars == <<dir, data, saving, menu, count, reported>>

Names == Contents \X {"e6s", "tmp"}

(* state_path, and the temporary name derived from it.                     *)
state_path(content) == <<content, "e6s">>
temporary(content) == <<content, "tmp">>

NoInode == 0
Inodes == 1 .. 2 * Cardinality(Contents) + Cardinality(Instances)

States == [content : Contents, version : 1 .. MaxSaves, size : Sizes]

Bytes(state) == [i \in 1 .. state.size |-> [state |-> state, part |-> i]]
Hole == [part |-> 0]

(* inspect_state: the container is whole (its CRC matches); list and load  *)
(* take content and identity from it.                                      *)
inspect_state(bytes) == bytes # <<>> /\ bytes[1] # Hole /\ bytes = Bytes(bytes[1].state)

File(name) == IF dir[name] = NoInode THEN <<>> ELSE data[dir[name]]

Idle == [busy |-> FALSE]

Init ==
    /\ dir = [name \in Names |-> NoInode]
    /\ data = [n \in Inodes |-> <<>>]
    /\ saving = [i \in Instances |-> Idle]
    /\ menu = [i \in Instances |-> {}]
    /\ count = 0
    /\ reported = [c \in Contents |-> 0]

-----------------------------------------------------------------------------
(* SaveStore::save.                                                        *)

InUse(n) == (\E name \in Names : dir[name] = n)
                \/ (\E i \in Instances : saving[i].busy /\ saving[i].file = n)

Opened(i, state, n) ==
    saving' = [saving EXCEPT ![i] = [busy |-> TRUE, state |-> state, file |-> n,
                                     written |-> 0]]

Fresh == CHOOSE n \in Inodes : ~InUse(n)

(* The temporary file opened without emptying it.                          *)
open_temporary_keeping(i, state) ==
    LET name == temporary(state.content)
        n == IF dir[name] = NoInode THEN Fresh ELSE dir[name]
    IN  /\ dir' = [dir EXCEPT ![name] = n]
        /\ data' = IF dir[name] = NoInode THEN [data EXCEPT ![n] = <<>>] ELSE data
        /\ Opened(i, state, n)

(* std::ofstream with trunc: an existing file is emptied, whoever has it   *)
(* open.                                                                   *)
open_temporary(i, state) ==
    LET name == temporary(state.content)
        n == IF dir[name] = NoInode THEN Fresh ELSE dir[name]
    IN  /\ dir' = [dir EXCEPT ![name] = n]
        /\ data' = [data EXCEPT ![n] = <<>>]
        /\ Opened(i, state, n)

save(i) ==
    /\ ~saving[i].busy
    /\ count < MaxSaves
    /\ count' = count + 1
    /\ \E c \in Contents, size \in Sizes :
          open_temporary(i, [content |-> c, version |-> count + 1, size |-> size])
    /\ UNCHANGED <<menu, reported>>

(* A write past the end leaves a hole.                                     *)
Written(bytes, at, part) ==
    [k \in 1 .. IF Len(bytes) < at THEN at ELSE Len(bytes) |->
        IF k = at THEN part ELSE IF k <= Len(bytes) THEN bytes[k] ELSE Hole]

write(i) ==
    LET s == saving[i]
        at == s.written + 1
    IN  /\ s.busy
        /\ s.written < s.state.size
        /\ data' = [data EXCEPT ![s.file] =
                      Written(@, at, [state |-> s.state, part |-> at])]
        /\ saving' = [saving EXCEPT ![i].written = at]
        /\ UNCHANGED <<dir, menu, count, reported>>

remove_destination(i) ==
    /\ dir' = [dir EXCEPT ![state_path(saving[i].state.content)] = NoInode]
    /\ saving' = [saving EXCEPT ![i] = Idle]
    /\ UNCHANGED <<data, menu, count, reported>>

(* The error paths: the temporary name is removed and save returns false.  *)
remove_temporary(i) ==
    /\ dir' = [dir EXCEPT ![temporary(saving[i].state.content)] = NoInode]
    /\ saving' = [saving EXCEPT ![i] = Idle]
    /\ UNCHANGED <<data, menu, count, reported>>

(* A write or the flush fails: no space, an I/O error.                     *)
write_fails(i) == saving[i].busy /\ remove_temporary(i)

Flushed(i) == saving[i].busy /\ saving[i].written = saving[i].state.size

rename(i) ==
    LET s == saving[i].state
    IN  /\ Flushed(i)
        /\ dir[temporary(s.content)] # NoInode
        /\ dir' = [dir EXCEPT ![state_path(s.content)] = dir[temporary(s.content)],
                              ![temporary(s.content)] = NoInode]
        /\ saving' = [saving EXCEPT ![i] = Idle]
        /\ reported' = [reported EXCEPT ![s.content] = s.version]
        /\ UNCHANGED <<data, menu, count>>

rename_fails(i) == Flushed(i) /\ remove_temporary(i)

-----------------------------------------------------------------------------
(* The Load State menu, filled when it opens, and the loading of an entry. *)

Listed(name) == inspect_state(File(name))

(* list: the regular files that end in .e6s and hold a valid state.        *)
list(i) ==
    /\ ~saving[i].busy
    /\ menu' = [menu EXCEPT ![i] =
                  {[path |-> name, content |-> File(name)[1].state.content] :
                      name \in {n \in Names : n[2] = "e6s" /\ Listed(n)}}]
    /\ UNCHANGED <<dir, data, saving, count, reported>>

(* load's conditions on an entry listed earlier.                           *)
Loads(entry) ==
    /\ inspect_state(File(entry.path))
    /\ File(entry.path)[1].state.content = entry.content

(* The process dies; the next one starts with an empty menu.               *)
crash(i) ==
    /\ saving' = [saving EXCEPT ![i] = Idle]
    /\ menu' = [menu EXCEPT ![i] = {}]
    /\ UNCHANGED <<dir, data, count, reported>>

Next ==
    \E i \in Instances :
        \/ save(i) \/ write(i) \/ write_fails(i) \/ rename(i) \/ rename_fails(i)
        \/ list(i) \/ crash(i)

Spec == Init /\ [][Next]_vars

-----------------------------------------------------------------------------
Parts == [state : States, part : Nat \ {0}] \cup {Hole}

TypeOK ==
    /\ dir \in [Names -> Inodes \cup {NoInode}]
    /\ \A n \in Inodes : \A k \in DOMAIN data[n] : data[n][k] \in Parts
    /\ \A i \in Instances : saving[i].busy =>
          /\ saving[i].state \in States
          /\ saving[i].file \in Inodes
          /\ saving[i].written \in 0 .. saving[i].state.size
    /\ \A i \in Instances : menu[i] \subseteq [path : Names, content : Contents]
    /\ count \in 0 .. MaxSaves
    /\ reported \in [Contents -> 0 .. MaxSaves]

(* Replacement is atomic: a slot is empty or holds one whole state of its  *)
(* own content, wherever a save has failed or the process has died.  An    *)
(* entry of a menu can still be loaded, and is what it was listed as,      *)
(* whatever has been saved since the menu was filled.                      *)
SlotIsWhole ==
    /\ \A c \in Contents : dir[state_path(c)] # NoInode =>
          /\ inspect_state(File(state_path(c)))
          /\ File(state_path(c))[1].state.content = c
    /\ \A i \in Instances : \A entry \in menu[i] : Loads(entry)

(* A save that was reported stays until another one of the same content    *)
(* is reported: failed and interrupted saves do not touch it.              *)
LastSaveStays ==
    /\ TypeOK
    /\ \A c \in Contents :
        IF reported[c] = 0 THEN dir[state_path(c)] = NoInode
        ELSE \E size \in Sizes :
                File(state_path(c)) =
                    Bytes([content |-> c, version |-> reported[c], size |-> size])

=============================================================================
