-------------------------- MODULE SaveStore_proofs --------------------------
(***************************************************************************)
(* One running copy of the application replaces its slots atomically: any  *)
(* number of contents, of saves and of writes to a save.  With two copies  *)
(* the theorems are false (README, Disagreements), so that there is one    *)
(* is a hypothesis of each: Instances = {p}.                               *)
(*                                                                         *)
(* The argument is about inodes.  No two names share one, so what is       *)
(* written under the temporary name is not seen under the slot's; and the  *)
(* file being written is the one the temporary name stands for, holding    *)
(* exactly the parts written, so what rename moves is a whole state.       *)
(***************************************************************************)
EXTENDS SaveStore, FiniteSetTheorems, TLAPS

(* What a file holds after w writes of a state.                            *)
Prefix(state, w) == [k \in 1 .. w |-> [state |-> state, part |-> k]]

Writing == [busy : {TRUE}, state : States, file : Inodes, written : Nat]
Saver == {Idle} \cup Writing

Types ==
    /\ dir \in [Names -> Inodes \cup {NoInode}]
    /\ data \in [Inodes -> Seq(Parts)]
    /\ saving \in [Instances -> Saver]
    /\ count \in 0 .. MaxSaves
    /\ reported \in [Contents -> 0 .. MaxSaves]
    /\ menu \in [Instances -> SUBSET [path : Names, content : Contents]]

(* No two names of the directory are the same file.                        *)
NamesApart ==
    \A m, n \in Names : dir[m] # NoInode /\ dir[m] = dir[n] => m = n

(* The file being written is the temporary one, and holds what has been    *)
(* written of this state and nothing else.                                 *)
WritesTemporary ==
    \A i \in Instances : saving[i].busy =>
        /\ saving[i].file = dir[temporary(saving[i].state.content)]
        /\ saving[i].written <= saving[i].state.size
        /\ data[saving[i].file] = Prefix(saving[i].state, saving[i].written)

(* A slot holds the state reported last for its content, or nothing if     *)
(* none was.                                                               *)
SlotHolds(c) ==
    IF reported[c] = 0 THEN dir[state_path(c)] = NoInode
    ELSE \E size \in Sizes :
            /\ dir[state_path(c)] # NoInode
            /\ data[dir[state_path(c)]] =
                  Bytes([content |-> c, version |-> reported[c], size |-> size])

SlotsHold == \A c \in Contents : SlotHolds(c)

(* An entry of the menu is a slot that has been reported.                  *)
MenuHolds ==
    \A i \in Instances : \A entry \in menu[i] :
        entry.path = state_path(entry.content) /\ reported[entry.content] # 0

Inv == Types /\ NamesApart /\ WritesTemporary /\ SlotsHold /\ MenuHolds

-----------------------------------------------------------------------------
(* Names, states and what is written of them.                              *)

LEMMA NamesOf ==
    ASSUME NEW c \in Contents
    PROVE  state_path(c) \in Names /\ temporary(c) \in Names
  BY DEF state_path, temporary, Names

LEMMA NamesDiffer ==
    ASSUME NEW c \in Contents, NEW d \in Contents
    PROVE  /\ state_path(c) # temporary(d)
           /\ (c # d => state_path(c) # state_path(d))
           /\ (c # d => temporary(c) # temporary(d))
  BY DEF state_path, temporary

(* n writes in order, each at the end of what is there.                    *)
LEMMA PrefixGrows ==
    ASSUME NEW state, NEW w \in Nat
    PROVE  Written(Prefix(state, w), w + 1, [state |-> state, part |-> w + 1])
              = Prefix(state, w + 1)
  <1>1. Len(Prefix(state, w)) = w
    BY DEF Prefix
  <1>2. Written(Prefix(state, w), w + 1, [state |-> state, part |-> w + 1])
          = [k \in 1 .. w + 1 |->
                IF k = w + 1 THEN [state |-> state, part |-> w + 1]
                ELSE IF k <= w THEN Prefix(state, w)[k] ELSE Hole]
    BY <1>1 DEF Written
  <1>3. \A k \in 1 .. w : Prefix(state, w)[k] = [state |-> state, part |-> k]
    BY DEF Prefix
  <1>4. \A k \in 1 .. w + 1 :
           (IF k = w + 1 THEN [state |-> state, part |-> w + 1]
            ELSE IF k <= w THEN Prefix(state, w)[k] ELSE Hole)
             = [state |-> state, part |-> k]
    BY <1>3
  <1> QED
    BY <1>2, <1>4 DEF Prefix

LEMMA PrefixType ==
    ASSUME NEW state \in States, NEW w \in Nat
    PROVE  Prefix(state, w) \in Seq(Parts)
  <1>1. \A k \in 1 .. w : [state |-> state, part |-> k] \in Parts
    BY DEF Parts
  <1> QED
    BY <1>1 DEF Prefix

LEMMA BytesPrefix ==
    ASSUME NEW state
    PROVE  Bytes(state) = Prefix(state, state.size)
  BY DEF Bytes, Prefix

(* inspect_state accepts a state written from beginning to end.            *)
LEMMA BytesWhole ==
    ASSUME NEW state \in States
    PROVE  inspect_state(Bytes(state)) /\ Bytes(state)[1].state = state
  <1>1. state.size \in Nat \ {0}
    BY SizesAssumption DEF States
  <1>2. 1 \in 1 .. state.size
    BY <1>1
  <1>3. Bytes(state)[1] = [state |-> state, part |-> 1]
    BY <1>2 DEF Bytes
  <1>4. Bytes(state) # <<>>
    <2>1. Len(Bytes(state)) = state.size
      BY <1>1 DEF Bytes
    <2> QED
      BY <1>1, <2>1
  <1>5. Bytes(state)[1] # Hole /\ Bytes(state)[1].state = state
    BY <1>3 DEF Hole
  <1> QED
    BY <1>4, <1>5 DEF inspect_state

-----------------------------------------------------------------------------
LEMMA PairCardinality ==
    ASSUME NEW a, NEW b, a # b
    PROVE  IsFiniteSet({a, b}) /\ Cardinality({a, b}) = 2
  <1>1. IsFiniteSet({a}) /\ Cardinality({a}) = 1 /\ b \notin {a}
    BY FS_Singleton
  <1>2. IsFiniteSet({a} \cup {b}) /\ Cardinality({a} \cup {b}) = Cardinality({a}) + 1
    BY <1>1, FS_AddElement
  <1>3. {a, b} = {a} \cup {b}
    OBVIOUS
  <1> QED
    BY <1>1, <1>2, <1>3

(* A new file gets an inode no name stands for: there are more inodes than *)
(* names.                                                                  *)
LEMMA FreshUnused ==
    ASSUME NEW p, Instances = {p}, Types, ~saving[p].busy
    PROVE  Fresh \in Inodes /\ \A name \in Names : dir[name] # Fresh
  <1> DEFINE C == Cardinality(Contents)
             used == {dir[name] : name \in Names}
  <1>1. C \in Nat
    BY ContentsAssumption, FS_CardinalityType
  <1>2. Cardinality(Instances) = 1
    BY FS_Singleton
  <1>3. IsFiniteSet({"e6s", "tmp"}) /\ Cardinality({"e6s", "tmp"}) = 2
    BY PairCardinality
  <1>4. IsFiniteSet(Names) /\ Cardinality(Names) = C * 2
    BY <1>3, ContentsAssumption, FS_Product DEF Names
  <1>5. dir \in Surjection(Names, used)
    BY DEF Types, Surjection
  <1>6. IsFiniteSet(used) /\ Cardinality(used) <= C * 2 /\ Cardinality(used) \in Nat
    BY <1>4, <1>5, FS_Surjection, FS_CardinalityType
  <1>7. IsFiniteSet(Inodes) /\ Cardinality(Inodes) = 2 * C + 1
    BY <1>1, <1>2, FS_Interval DEF Inodes
  <1>8. \E n \in Inodes : n \notin used
    <2> SUFFICES ASSUME Inodes \subseteq used PROVE FALSE
      OBVIOUS
    <2>1. Cardinality(Inodes) <= Cardinality(used)
      BY <1>6, FS_Subset
    <2> QED
      BY <1>1, <1>6, <1>7, <2>1
  <1>9. \E n \in Inodes : ~InUse(n)
    BY <1>8 DEF InUse
  <1>10. Fresh \in Inodes /\ ~InUse(Fresh)
    BY <1>9 DEF Fresh
  <1> QED
    BY <1>10 DEF InUse

-----------------------------------------------------------------------------
(* The inductive invariant.                                                *)

LEMMA InitInv == Init => Inv
  <1> SUFFICES ASSUME Init PROVE Inv
    OBVIOUS
  <1>1. Types
    BY MaxSavesAssumption DEF Init, Types, Saver
  <1>2. NamesApart /\ WritesTemporary /\ MenuHolds
    BY DEF Init, NamesApart, WritesTemporary, MenuHolds, Idle
  <1>3. SlotsHold
    BY NamesOf DEF Init, SlotsHold, SlotHolds
  <1> QED
    BY <1>1, <1>2, <1>3 DEF Inv

(* A step that reports nothing and changes neither the slots' names nor    *)
(* the files they stand for.                                               *)
LEMMA SlotsKept ==
    ASSUME SlotsHold, reported' = reported,
           \A c \in Contents :
              /\ dir'[state_path(c)] = dir[state_path(c)]
              /\ dir[state_path(c)] # NoInode =>
                    data'[dir[state_path(c)]] = data[dir[state_path(c)]]
    PROVE  SlotsHold'
  <1> SUFFICES ASSUME NEW c \in Contents PROVE SlotHolds(c)'
    BY DEF SlotsHold
  <1>1. SlotHolds(c)
    BY DEF SlotsHold
  <1> QED
    BY <1>1 DEF SlotHolds

LEMMA WritingBusy ==
    ASSUME NEW s \in Saver, s.busy
    PROVE  s \in Writing
  <1>1. Idle.busy = FALSE
    BY DEF Idle
  <1>2. s # Idle
    BY <1>1
  <1> QED
    BY <1>2 DEF Saver

LEMMA WritingOn ==
    ASSUME NEW s \in Writing, NEW w \in Nat
    PROVE  LET r == [s EXCEPT !.written = w]
           IN  r \in Writing /\ r.written = w /\ r.state = s.state /\ r.file = s.file
  BY DEF Writing

LEMMA SaverBusy ==
    ASSUME NEW p, Instances = {p}, Inv, saving[p].busy
    PROVE  /\ saving[p].state \in States
           /\ saving[p].state.content \in Contents
           /\ saving[p].state.size \in Nat
           /\ saving[p].written \in Nat
           /\ saving[p].written <= saving[p].state.size
           /\ saving[p].file \in Inodes
           /\ saving[p].file = dir[temporary(saving[p].state.content)]
           /\ data[saving[p].file] = Prefix(saving[p].state, saving[p].written)
  <1>1. saving[p] \in Writing
    BY WritingBusy DEF Inv, Types
  <1>2. saving[p].state \in States /\ saving[p].file \in Inodes /\ saving[p].written \in Nat
    BY <1>1 DEF Writing
  <1>3. saving[p].state.content \in Contents /\ saving[p].state.size \in Nat
    BY <1>2, SizesAssumption DEF States
  <1> QED
    BY <1>2, <1>3 DEF Inv, WritesTemporary

LEMMA SaveInv ==
    ASSUME NEW p, Instances = {p}, Inv, save(p)
    PROVE  Inv'
  <1>1. PICK c \in Contents, size \in Sizes :
            open_temporary(p, [content |-> c, version |-> count + 1, size |-> size])
    BY DEF save
  <1> DEFINE state == [content |-> c, version |-> count + 1, size |-> size]
             name == temporary(c)
             n == IF dir[name] = NoInode THEN Fresh ELSE dir[name]
  <1>2. state \in States /\ state.content = c /\ state.size \in Nat /\ name \in Names
    BY NamesOf, MaxSavesAssumption, SizesAssumption DEF save, States, Inv, Types
  <1>3. n \in Inodes /\ \A m \in Names : dir[m] = n => m = name
    <2>0. Types /\ ~saving[p].busy
      BY DEF Inv, save
    <2>1. CASE dir[name] = NoInode
      BY <2>0, <2>1, FreshUnused
    <2>2. CASE dir[name] # NoInode
      BY <1>2, <2>0, <2>2 DEF Inv, Types, NamesApart
    <2> QED
      BY <2>1, <2>2
  <1>4. /\ dir' = [dir EXCEPT ![name] = n]
        /\ data' = [data EXCEPT ![n] = <<>>]
        /\ saving' = [saving EXCEPT ![p] = [busy |-> TRUE, state |-> state, file |-> n,
                                            written |-> 0]]
    BY <1>1, <1>2 DEF open_temporary, Opened
  <1>5. count' = count + 1 /\ count < MaxSaves /\ menu' = menu /\ reported' = reported
    BY DEF save
  <1> HIDE DEF n, state
  <1>6. Types'
    <2>0. <<>> \in Seq(Parts)
      OBVIOUS
    <2>1. dir' \in [Names -> Inodes \cup {NoInode}] /\ data' \in [Inodes -> Seq(Parts)]
      BY <1>3, <1>4, <2>0 DEF Inv, Types
    <2>2. saving' \in [Instances -> Saver]
      <3>1. [busy |-> TRUE, state |-> state, file |-> n, written |-> 0] \in Saver
        BY <1>2, <1>3 DEF Saver, Writing
      <3> QED
        BY <1>4, <3>1 DEF Inv, Types
    <2>3. count' \in 0 .. MaxSaves
      BY <1>5, MaxSavesAssumption DEF Inv, Types
    <2> QED
      BY <1>5, <2>1, <2>2, <2>3 DEF Inv, Types
  <1>7. NamesApart'
    BY <1>2, <1>3, <1>4 DEF Inv, Types, NamesApart
  <1>8. WritesTemporary'
    <2>1. /\ saving'[p].state = state /\ saving'[p].file = n /\ saving'[p].written = 0
          /\ dir'[name] = n /\ data'[n] = <<>>
      BY <1>2, <1>3, <1>4 DEF Inv, Types
    <2>2. Prefix(state, 0) = <<>>
      BY DEF Prefix
    <2> QED
      BY <1>2, <2>1, <2>2 DEF WritesTemporary
  <1>9. SlotsHold'
    <2>1. ASSUME NEW d \in Contents
          PROVE  /\ dir'[state_path(d)] = dir[state_path(d)]
                 /\ dir[state_path(d)] # NoInode =>
                       data'[dir[state_path(d)]] = data[dir[state_path(d)]]
      <3>1. state_path(d) \in Names /\ state_path(d) # name
        BY NamesOf, NamesDiffer
      <3>2. dir[state_path(d)] # n
        BY <1>3, <3>1
      <3> QED
        BY <1>2, <1>4, <3>1, <3>2 DEF Inv, Types
    <2> QED
      BY <1>5, <2>1, SlotsKept DEF Inv
  <1>10. MenuHolds'
    BY <1>5 DEF Inv, MenuHolds
  <1> QED
    BY <1>6, <1>7, <1>8, <1>9, <1>10 DEF Inv

LEMMA WriteInv ==
    ASSUME NEW p, Instances = {p}, Inv, write(p)
    PROVE  Inv'
  <1> DEFINE state == saving[p].state
             w == saving[p].written
             f == saving[p].file
             name == temporary(state.content)
  <1>0. saving[p].busy /\ w < state.size /\ menu' = menu /\ reported' = reported
        /\ count' = count /\ dir' = dir
    BY DEF write
  <1>1. /\ state \in States /\ state.content \in Contents /\ state.size \in Nat
        /\ w \in Nat /\ f \in Inodes /\ f = dir[name] /\ data[f] = Prefix(state, w)
    BY <1>0, SaverBusy
  <1>2. data' = [data EXCEPT ![f] = Prefix(state, w + 1)]
    <2>1. data' = [data EXCEPT ![f] = Written(data[f], w + 1,
                                              [state |-> state, part |-> w + 1])]
      BY DEF write
    <2> QED
      BY <1>1, <2>1, PrefixGrows
  <1>3. saving' = [saving EXCEPT ![p].written = w + 1]
    BY DEF write
  <1>4. /\ saving'[p] \in Writing
        /\ saving'[p].state = state /\ saving'[p].file = f /\ saving'[p].written = w + 1
        /\ saving' = [saving EXCEPT ![p] = saving'[p]]
    <2>1. saving \in [Instances -> Saver]
      BY DEF Inv, Types
    <2>2. saving[p] \in Writing
      BY <1>0, <2>1, WritingBusy
    <2>3. saving'[p] = [saving[p] EXCEPT !.written = w + 1]
      BY <1>3, <2>1
    <2>4. saving' = [saving EXCEPT ![p] = saving'[p]]
      <3> DEFINE r == [saving[p] EXCEPT !.written = w + 1]
      <3>1. saving' = [saving EXCEPT ![p] = r]
        BY <1>3
      <3> HIDE DEF r
      <3> QED
        BY <2>1, <3>1
    <2>5. w + 1 \in Nat
      BY <1>1
    <2> QED
      BY <2>2, <2>3, <2>4, <2>5, WritingOn
  <1>5. Types'
    <2>1. data' \in [Inodes -> Seq(Parts)]
      BY <1>1, <1>2, PrefixType DEF Inv, Types
    <2>2. saving' \in [Instances -> Saver]
      BY <1>4 DEF Inv, Types, Saver
    <2> QED
      BY <1>0, <2>1, <2>2 DEF Inv, Types
  <1>6. NamesApart' /\ MenuHolds'
    BY <1>0 DEF Inv, NamesApart, MenuHolds
  <1>7. WritesTemporary'
    <2>1. data'[f] = Prefix(state, w + 1)
      BY <1>1, <1>2 DEF Inv, Types
    <2>2. w + 1 <= state.size
      BY <1>0, <1>1
    <2> HIDE DEF state, w, f
    <2>3. dir'[temporary(state.content)] = f
      BY <1>0, <1>1
    <2> QED
      BY <1>4, <2>1, <2>2, <2>3 DEF WritesTemporary
  <1>8. SlotsHold'
    <2>1. ASSUME NEW d \in Contents
          PROVE  /\ dir'[state_path(d)] = dir[state_path(d)]
                 /\ dir[state_path(d)] # NoInode =>
                       data'[dir[state_path(d)]] = data[dir[state_path(d)]]
      <3>1. state_path(d) \in Names /\ state_path(d) # name /\ name \in Names
        BY <1>1, NamesOf, NamesDiffer
      <3>2. dir[state_path(d)] # NoInode => dir[state_path(d)] # f
        BY <1>1, <3>1 DEF Inv, NamesApart
      <3>3. dir[state_path(d)] # NoInode => dir[state_path(d)] \in Inodes
        BY <3>1 DEF Inv, Types
      <3> QED
        BY <1>0, <1>2, <3>2, <3>3 DEF Inv, Types
    <2> QED
      BY <1>0, <2>1, SlotsKept DEF Inv
  <1> QED
    BY <1>5, <1>6, <1>7, <1>8 DEF Inv

LEMMA RemoveTemporaryInv ==
    ASSUME NEW p, Instances = {p}, Inv, saving[p].busy, remove_temporary(p)
    PROVE  Inv'
  <1> DEFINE name == temporary(saving[p].state.content)
  <1>1. saving[p].state.content \in Contents
    BY SaverBusy
  <1>2. name \in Names
    BY <1>1, NamesOf
  <1>3. /\ dir' = [dir EXCEPT ![name] = NoInode]
        /\ saving' = [saving EXCEPT ![p] = Idle]
        /\ data' = data /\ menu' = menu /\ count' = count /\ reported' = reported
    BY DEF remove_temporary
  <1>4. Types'
    BY <1>3 DEF Inv, Types, Saver
  <1>5. NamesApart'
    BY <1>2, <1>3 DEF Inv, Types, NamesApart
  <1>6. WritesTemporary'
    BY <1>3 DEF Inv, Types, WritesTemporary, Idle
  <1>7. SlotsHold'
    <2>1. ASSUME NEW d \in Contents
          PROVE  dir'[state_path(d)] = dir[state_path(d)]
      <3>1. state_path(d) \in Names /\ state_path(d) # name
        BY <1>1, NamesOf, NamesDiffer
      <3> QED
        BY <1>3, <3>1 DEF Inv, Types
    <2> QED
      BY <1>3, <2>1, SlotsKept DEF Inv
  <1>8. MenuHolds'
    BY <1>3 DEF Inv, MenuHolds
  <1> QED
    BY <1>4, <1>5, <1>6, <1>7, <1>8 DEF Inv

(* The file the temporary name stands for is whole when it is renamed, and *)
(* goes under a name no other file has.                                    *)
LEMMA RenameInv ==
    ASSUME NEW p, Instances = {p}, Inv, rename(p)
    PROVE  Inv'
  <1> DEFINE state == saving[p].state
             c == state.content
             f == saving[p].file
             tmp == temporary(c)
             slot == state_path(c)
  <1>0. saving[p].busy /\ saving[p].written = state.size
    BY DEF rename, Flushed
  <1>1. /\ state \in States /\ c \in Contents /\ f \in Inodes /\ f = dir[tmp]
        /\ data[f] = Prefix(state, state.size)
    BY <1>0, SaverBusy
  <1>2. tmp \in Names /\ slot \in Names /\ tmp # slot /\ f # NoInode
    BY <1>1, NamesOf, NamesDiffer DEF rename
  <1>3. /\ dir' = [dir EXCEPT ![slot] = f, ![tmp] = NoInode]
        /\ saving' = [saving EXCEPT ![p] = Idle]
        /\ reported' = [reported EXCEPT ![c] = state.version]
        /\ data' = data /\ menu' = menu /\ count' = count
    BY <1>1 DEF rename
  <1>4. state.version \in 1 .. MaxSaves /\ state.size \in Sizes
        /\ state = [content |-> c, version |-> state.version, size |-> state.size]
    BY <1>1 DEF States
  <1>5. /\ dir \in [Names -> Inodes \cup {NoInode}]
        /\ reported \in [Contents -> 0 .. MaxSaves]
        /\ saving \in [Instances -> Saver]
    BY DEF Inv, Types
  <1>6. dir'[slot] = f /\ dir'[tmp] = NoInode
        /\ \A m \in Names : m # slot /\ m # tmp => dir'[m] = dir[m]
    BY <1>2, <1>3, <1>5
  <1>7. /\ reported'[c] = state.version
        /\ \A d \in Contents : d # c => reported'[d] = reported[d]
    BY <1>1, <1>3, <1>5
  <1>8. Types'
    <2>1. dir' \in [Names -> Inodes \cup {NoInode}]
      BY <1>1, <1>3, <1>5
    <2>2. reported' \in [Contents -> 0 .. MaxSaves]
      <3> DEFINE v == state.version
      <3>1. v \in 0 .. MaxSaves
        BY <1>4, MaxSavesAssumption
      <3>2. reported' = [reported EXCEPT ![c] = v]
        BY <1>3
      <3> HIDE DEF v
      <3> QED
        BY <1>5, <3>1, <3>2
    <2>3. saving' \in [Instances -> Saver]
      BY <1>3, <1>5 DEF Saver
    <2> QED
      BY <1>3, <2>1, <2>2, <2>3 DEF Inv, Types
  <1>9. NamesApart'
    <2>1. \A m, n \in Names : dir[m] # NoInode /\ dir[m] = dir[n] => m = n
      BY DEF Inv, NamesApart
    <2>2. \A m \in Names : m # slot /\ m # tmp => dir[m] # f
      BY <1>1, <1>2, <2>1
    <2> QED
      BY <1>2, <1>6, <2>1, <2>2 DEF NamesApart
  <1>10. WritesTemporary'
    BY <1>3, <1>5 DEF WritesTemporary, Idle
  <1>11. SlotsHold'
    <2> SUFFICES ASSUME NEW d \in Contents PROVE SlotHolds(d)'
      BY DEF SlotsHold
    <2>1. CASE d = c
      <3>1. data'[f] = Bytes(state)
        BY <1>1, <1>3, BytesPrefix
      <3>2. state.version # 0
        BY <1>4
      <3>3. reported'[d] # 0 /\ dir'[state_path(d)] = f
        BY <1>6, <1>7, <2>1, <3>2
      <3>4. Bytes(state) = Bytes([content |-> d, version |-> reported'[d], size |-> state.size])
        BY <1>4, <1>7, <2>1
      <3> HIDE DEF f
      <3> QED
        BY <1>2, <1>4, <3>1, <3>3, <3>4 DEF SlotHolds
    <2>2. CASE d # c
      <3>1. state_path(d) \in Names /\ state_path(d) # slot /\ state_path(d) # tmp
        BY <1>1, <2>2, NamesOf, NamesDiffer
      <3>2. dir'[state_path(d)] = dir[state_path(d)] /\ reported'[d] = reported[d]
        BY <1>6, <1>7, <2>2, <3>1
      <3>3. SlotHolds(d)
        BY DEF Inv, SlotsHold
      <3> QED
        BY <1>3, <3>2, <3>3 DEF SlotHolds
    <2> QED
      BY <2>1, <2>2
  <1>12. MenuHolds'
    <2>1. \A d \in Contents : reported[d] # 0 => reported'[d] # 0
      BY <1>4, <1>7
    <2>2. \A i \in Instances : \A entry \in menu[i] : entry.content \in Contents
      BY DEF Inv, Types
    <2> QED
      BY <1>3, <2>1, <2>2 DEF Inv, MenuHolds
  <1> QED
    BY <1>8, <1>9, <1>10, <1>11, <1>12 DEF Inv

(* A slot that list would show has been reported and holds its content.    *)
LEMMA SlotFile ==
    ASSUME Inv, NEW c \in Contents, dir[state_path(c)] # NoInode \/ reported[c] # 0
    PROVE  /\ reported[c] # 0
           /\ inspect_state(File(state_path(c)))
           /\ File(state_path(c))[1].state.content = c
  <1>1. SlotHolds(c)
    BY DEF Inv, SlotsHold
  <1>2. PICK size \in Sizes :
            /\ reported[c] # 0
            /\ dir[state_path(c)] # NoInode
            /\ data[dir[state_path(c)]] =
                  Bytes([content |-> c, version |-> reported[c], size |-> size])
    BY <1>1 DEF SlotHolds
  <1> DEFINE state == [content |-> c, version |-> reported[c], size |-> size]
  <1>3. state \in States /\ state.content = c
    BY <1>2, MaxSavesAssumption DEF States, Inv, Types
  <1>4. File(state_path(c)) = Bytes(state)
    BY <1>2 DEF File
  <1> QED
    BY <1>2, <1>3, <1>4, BytesWhole

LEMMA ListInv ==
    ASSUME NEW p, Instances = {p}, Inv, list(p)
    PROVE  Inv'
  <1> DEFINE shown == {n \in Names : n[2] = "e6s" /\ Listed(n)}
             Entry(n) == [path |-> n, content |-> File(n)[1].state.content]
             entries == {Entry(n) : n \in shown}
  <1>1. /\ menu' = [menu EXCEPT ![p] = entries]
        /\ UNCHANGED <<dir, data, saving, count, reported>>
    BY DEF list
  <1>2. ASSUME NEW n \in shown
        PROVE  \E c \in Contents : n = state_path(c) /\ File(n)[1].state.content = c
                                     /\ reported[c] # 0
    <2>1. PICK c \in Contents : n = state_path(c)
      BY DEF Names, state_path
    <2>2. inspect_state(File(n))
      BY DEF Listed
    <2>3. dir[n] # NoInode
      BY <2>2 DEF inspect_state, File
    <2> QED
      BY <2>1, <2>3, SlotFile
  <1>3. ASSUME NEW e \in entries
        PROVE  /\ e \in [path : Names, content : Contents]
               /\ e.path = state_path(e.content) /\ reported[e.content] # 0
    <2>1. PICK n \in shown : e = Entry(n)
      OBVIOUS
    <2>2. PICK c \in Contents : n = state_path(c) /\ File(n)[1].state.content = c
                                  /\ reported[c] # 0
      BY <1>2
    <2>3. e = [path |-> n, content |-> c] /\ n \in Names
      BY <2>1, <2>2
    <2> QED
      BY <2>2, <2>3
  <1> HIDE DEF entries
  <1>4. Types'
    BY <1>1, <1>3 DEF Inv, Types
  <1>5. MenuHolds'
    BY <1>1, <1>3 DEF Inv, Types, MenuHolds
  <1>6. NamesApart' /\ WritesTemporary' /\ SlotsHold'
    BY <1>1 DEF Inv, NamesApart, WritesTemporary, SlotsHold, SlotHolds
  <1> QED
    BY <1>4, <1>5, <1>6 DEF Inv

LEMMA CrashInv ==
    ASSUME NEW p, Instances = {p}, Inv, crash(p)
    PROVE  Inv'
  <1>1. /\ saving' = [saving EXCEPT ![p] = Idle] /\ menu' = [menu EXCEPT ![p] = {}]
        /\ UNCHANGED <<dir, data, count, reported>>
    BY DEF crash
  <1>2. Types'
    BY <1>1 DEF Inv, Types, Saver
  <1>3. WritesTemporary' /\ MenuHolds'
    BY <1>1 DEF Inv, Types, WritesTemporary, MenuHolds, Idle
  <1>4. NamesApart' /\ SlotsHold'
    BY <1>1 DEF Inv, NamesApart, SlotsHold, SlotHolds
  <1> QED
    BY <1>2, <1>3, <1>4 DEF Inv

LEMMA NextInv ==
    ASSUME NEW p, Instances = {p}
    PROVE  Inv /\ [Next]_vars => Inv'
  <1> SUFFICES ASSUME Inv, [Next]_vars PROVE Inv'
    OBVIOUS
  <1>1. CASE save(p)
    BY <1>1, SaveInv
  <1>2. CASE write(p)
    BY <1>2, WriteInv
  <1>3. CASE write_fails(p)
    BY <1>3, RemoveTemporaryInv DEF write_fails
  <1>4. CASE rename(p)
    BY <1>4, RenameInv
  <1>5. CASE rename_fails(p)
    BY <1>5, RemoveTemporaryInv DEF rename_fails, Flushed
  <1>6. CASE list(p)
    BY <1>6, ListInv
  <1>7. CASE crash(p)
    BY <1>7, CrashInv
  <1>8. CASE UNCHANGED vars
    BY <1>8 DEF vars, Inv, Types, NamesApart, WritesTemporary, SlotsHold, SlotHolds, MenuHolds
  <1> QED
    BY <1>1, <1>2, <1>3, <1>4, <1>5, <1>6, <1>7, <1>8 DEF Next

-----------------------------------------------------------------------------
LEMMA InvWhole ==
    ASSUME Inv
    PROVE  SlotIsWhole
  <1>1. \A c \in Contents : dir[state_path(c)] # NoInode =>
            /\ inspect_state(File(state_path(c)))
            /\ File(state_path(c))[1].state.content = c
    BY SlotFile
  <1>2. \A i \in Instances : \A entry \in menu[i] : Loads(entry)
    <2> SUFFICES ASSUME NEW i \in Instances, NEW entry \in menu[i] PROVE Loads(entry)
      OBVIOUS
    <2>1. entry.content \in Contents
      BY DEF Inv, Types
    <2>2. entry.path = state_path(entry.content) /\ reported[entry.content] # 0
      BY DEF Inv, MenuHolds
    <2> QED
      BY <2>1, <2>2, SlotFile DEF Loads
  <1> QED
    BY <1>1, <1>2 DEF SlotIsWhole

LEMMA InvStays ==
    ASSUME NEW p, Instances = {p}, Inv
    PROVE  LastSaveStays
  <1>1. TypeOK
    <2>1. \A n \in Inodes : \A k \in DOMAIN data[n] : data[n][k] \in Parts
      BY DEF Inv, Types
    <2>2. \A i \in Instances : saving[i].busy =>
              /\ saving[i].state \in States
              /\ saving[i].file \in Inodes
              /\ saving[i].written \in 0 .. saving[i].state.size
      BY SaverBusy
    <2> QED
      BY <2>1, <2>2 DEF Inv, Types, TypeOK
  <1>2. \A c \in Contents :
           IF reported[c] = 0 THEN dir[state_path(c)] = NoInode
           ELSE \E size \in Sizes :
                   File(state_path(c)) =
                      Bytes([content |-> c, version |-> reported[c], size |-> size])
    BY DEF Inv, SlotsHold, SlotHolds, File
  <1> QED
    BY <1>1, <1>2 DEF LastSaveStays

(* Replacement is atomic, wherever save fails or the process dies: a slot  *)
(* is empty or holds one whole state of its own content, and an entry of   *)
(* the menu still loads as what it was listed as.                          *)
THEOREM SlotsStayWhole ==
    ASSUME NEW p, Instances = {p}
    PROVE  Spec => []SlotIsWhole
  <1>1. Init => Inv
    BY InitInv
  <1>2. Inv /\ [Next]_vars => Inv'
    BY NextInv
  <1>3. Inv => SlotIsWhole
    BY InvWhole
  <1> QED
    BY <1>1, <1>2, <1>3, PTL DEF Spec

(* The save that was reported last stays in its slot until the next one of *)
(* the same content is reported; failed and interrupted saves, whatever    *)
(* temporary files they leave, do not touch it.                            *)
THEOREM ReportedSaveStays ==
    ASSUME NEW p, Instances = {p}
    PROVE  Spec => []LastSaveStays
  <1>1. Init => Inv
    BY InitInv
  <1>2. Inv /\ [Next]_vars => Inv'
    BY NextInv
  <1>3. Inv => LastSaveStays
    BY InvStays
  <1> QED
    BY <1>1, <1>2, <1>3, PTL DEF Spec

=============================================================================
