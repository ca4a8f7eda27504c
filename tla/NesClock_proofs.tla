-------------------------- MODULE NesClock_proofs --------------------------
(***************************************************************************)
(* The controllers against a real controller, for any program the bus      *)
(* discipline of the CPU allows, any board and any number of buttons: the  *)
(* delayed writes of NesControlManager make the strobe the one that the    *)
(* output latch carries, and a port then sends the bits that the shift     *)
(* register would.  And the interrupt timers against the countdown of      *)
(* IrqTimer, board by board, for every width of the counters.              *)
(***************************************************************************)
EXTENDS NesClock, TLAPS

Kinds == {"unused", "nes", "topology", "vs"}
Bits == BOOLEAN
Values == [strobe : Bits, column : Bits, enable : Bits]
States == [Ports -> SUBSET AllButtons]
Counts == [Ports -> 0 .. Buttons]
Delays == 0 .. 2
Places == {"pad", "expansion"}

PadRecord ==
    [kind : Kinds, pending : Delays, addr : Places, value : Values,
     state : States, pos : Counts, strobe : Bits, kb_row : Int,
     kb_column : Bits, kb_enabled : Bits, select : Bits]

WireRecord ==
    [out : Bits, latched : Bits, register : States, shifts : Counts,
     strays : Counts, changed : Bits]

BusRecord ==
    [used : Bits, addr : {"none", "mapper", "pad", "expansion"}, writes : Delays]

Types ==
    /\ pads \in PadRecord
    /\ wire \in WireRecord
    /\ bus \in BusRecord
    /\ odd \in BOOLEAN

(* A write waits for the next even cycle.                                  *)
DelayOK ==
    /\ pads.pending = 1 => odd
    /\ pads.pending = 2 => ~odd

(* While a write to $4016 waits, no write elsewhere can take its place: it *)
(* was made in this cycle, or in the last one, after which the bus allows  *)
(* only the same address again or a read.                                  *)
WaitingOK ==
    /\ pads.pending > 0 /\ pads.addr = "pad"
          => /\ pads.value.strobe = wire.out
             /\ bus.used \/ (bus.addr = "pad" /\ bus.writes > 0)
    /\ pads.pending = 2 /\ pads.addr = "pad"
          => bus.used /\ bus.addr = "pad" /\ bus.writes > 0
    /\ wire.out # wire.latched => pads.pending > 0 /\ pads.addr = "pad"

(* The position in the buttons is the number of reads since the strobe     *)
(* fell that reached the port, up to the last button.                      *)
Turn(w, port) ==
    IF w.shifts[port] + w.strays[port] < Buttons THEN w.shifts[port] + w.strays[port]
    ELSE Buttons

PositionOK ==
    /\ pads.strobe => pads.pos = Zeros /\ wire.shifts = Zeros /\ wire.strays = Zeros
    /\ \A port \in Ports : ~Unplugged(pads, port) => pads.pos[port] = Turn(wire, port)

(* The register holds the buttons as they were when the strobe fell.       *)
RegisterOK ==
    /\ pads.strobe => ~wire.changed
    /\ ~wire.changed => wire.register = pads.state

Inv == Types /\ DelayOK /\ WaitingOK /\ StrobeLatched /\ PositionOK /\ RegisterOK

-----------------------------------------------------------------------------
(* What the operations on the controllers return.                          *)

LEMMA ZerosCount == Zeros \in Counts /\ \A port \in Ports : Zeros[port] = 0
  BY PadAssumption DEF Zeros, Counts, Ports

LEMMA PadsInit ==
    ASSUME NEW kind \in Kinds
    PROVE  LET p == pads_init(kind)
           IN  /\ p \in PadRecord
               /\ p.kind = kind /\ p.pending = 0 /\ ~p.strobe
               /\ p.pos = Zeros /\ p.state = NoButtons
  <1>1. /\ 0 \in Delays /\ "pad" \in Places /\ FALSE \in Bits
        /\ NoButtons \in States /\ Zeros \in Counts /\ 0 \in Int
    BY ZerosCount DEF Delays, Places, Bits, NoButtons, States
  <1>2. [strobe |-> FALSE, column |-> FALSE, enable |-> FALSE] \in Values
    BY <1>1 DEF Values
  <1> QED
    BY <1>1, <1>2 DEF pads_init, PadRecord

LEMMA WriteRam ==
    ASSUME NEW p \in PadRecord, NEW addr \in Places, NEW value \in Values
    PROVE  LET q == pads_write_ram(p, addr, value)
           IN  /\ q \in PadRecord
               /\ q.kind = p.kind /\ q.state = p.state /\ q.pos = p.pos
               /\ q.strobe = p.strobe /\ q.addr = addr /\ q.value = value
               /\ q.pending = IF odd THEN 1 ELSE 2
  <1>1. (IF odd THEN 1 ELSE 2) \in Delays
    BY DEF Delays
  <1>2. value.enable \in Bits /\ p.select \in Bits
    BY DEF Values, PadRecord
  <1>3. pads_write_ram(p, addr, value) \in PadRecord
    BY <1>1, <1>2 DEF pads_write_ram, PadRecord
  <1>4. LET q == pads_write_ram(p, addr, value)
        IN  /\ q.kind = p.kind /\ q.state = p.state /\ q.pos = p.pos
            /\ q.strobe = p.strobe /\ q.addr = addr /\ q.value = value
            /\ q.pending = IF odd THEN 1 ELSE 2
    BY DEF pads_write_ram, PadRecord
  <1> QED
    BY <1>3, <1>4

LEMMA ApplyWrite ==
    ASSUME NEW p \in PadRecord
    PROVE  LET q == apply_write(p)
           IN  /\ q \in PadRecord
               /\ q.kind = p.kind /\ q.state = p.state /\ q.pending = p.pending
               /\ q.addr = p.addr /\ q.value = p.value
               /\ q.strobe = p.value.strobe
               /\ q.pos = IF p.strobe \/ p.value.strobe THEN Zeros ELSE p.pos
  <1>1. p.value.strobe \in Bits /\ p.value.column \in Bits /\ p.value.enable \in Bits
    BY DEF PadRecord, Values
  <1>2. (IF p.strobe \/ p.value.strobe THEN Zeros ELSE p.pos) \in Counts
    BY ZerosCount DEF PadRecord
  <1>3. p.kb_row \in Int
    BY DEF PadRecord
  <1>4. (p.kb_row + 1) % KeyboardRows \in Int
    BY <1>3, PadAssumption
  <1>5. (IF p.value.strobe THEN 0
         ELSE IF p.kb_column /\ ~p.value.column THEN (p.kb_row + 1) % KeyboardRows
         ELSE p.kb_row) \in Int
    BY <1>3, <1>4
  <1>6. apply_write(p) \in PadRecord
    BY <1>1, <1>2, <1>5 DEF apply_write, PadRecord
  <1>7. LET q == apply_write(p)
        IN  /\ q.kind = p.kind /\ q.state = p.state /\ q.pending = p.pending
            /\ q.addr = p.addr /\ q.value = p.value
            /\ q.strobe = p.value.strobe
            /\ q.pos = IF p.strobe \/ p.value.strobe THEN Zeros ELSE p.pos
    BY DEF apply_write, PadRecord
  <1> QED
    BY <1>6, <1>7

(* A waiting write that is counted down, and perhaps applied.              *)
LEMMA ProcessWrites ==
    ASSUME NEW p \in PadRecord
    PROVE  LET q == process_writes(p)
           IN  /\ q \in PadRecord
               /\ q.kind = p.kind /\ q.state = p.state
               /\ q.addr = p.addr /\ q.value = p.value
               /\ q.pending = IF p.pending = 0 THEN 0 ELSE p.pending - 1
               /\ IF p.pending = 1 /\ p.addr = "pad"
                  THEN /\ q.strobe = p.value.strobe
                       /\ q.pos = IF p.strobe \/ p.value.strobe THEN Zeros ELSE p.pos
                  ELSE q.strobe = p.strobe /\ q.pos = p.pos
  <1> DEFINE d == [p EXCEPT !.pending = p.pending - 1]
  <1>1. CASE p.pending = 0
    BY <1>1 DEF process_writes
  <1>2. CASE p.pending # 0
    <2>1. p.pending - 1 \in Delays
      BY <1>2 DEF PadRecord, Delays
    <2>2. d \in PadRecord
      BY <2>1 DEF PadRecord
    <2>3. /\ d.pending = p.pending - 1 /\ d.kind = p.kind /\ d.state = p.state
          /\ d.addr = p.addr /\ d.value = p.value /\ d.strobe = p.strobe /\ d.pos = p.pos
      BY DEF PadRecord
    <2>4. process_writes(p) = IF p.pending = 1 /\ p.addr = "pad" THEN apply_write(d) ELSE d
      BY <1>2 DEF process_writes
    <2> HIDE DEF d
    <2>5. CASE p.pending = 1 /\ p.addr = "pad"
      <3>1. process_writes(p) = apply_write(d)
        BY <2>4, <2>5
      <3> QED
        BY <1>2, <2>2, <2>3, <2>5, <3>1, ApplyWrite
    <2>6. CASE ~(p.pending = 1 /\ p.addr = "pad")
      BY <1>2, <2>2, <2>3, <2>4, <2>6
    <2> QED
      BY <2>5, <2>6
  <1> QED
    BY <1>1, <1>2

LEMMA ReadRam ==
    ASSUME NEW p \in PadRecord, NEW port \in Ports
    PROVE  LET q == pads_read_ram(p, port)
           IN  /\ q \in PadRecord
               /\ q.kind = p.kind /\ q.state = p.state /\ q.pending = p.pending
               /\ q.addr = p.addr /\ q.value = p.value /\ q.strobe = p.strobe
               /\ \A other \in Ports \ {port} : q.pos[other] = p.pos[other]
               /\ q.pos[port] = IF ~p.strobe /\ p.pos[port] < Buttons /\ ~Unplugged(p, port)
                                THEN p.pos[port] + 1 ELSE p.pos[port]
  <1> DEFINE n == IF ~p.strobe /\ p.pos[port] < Buttons /\ ~Unplugged(p, port)
                  THEN p.pos[port] + 1 ELSE p.pos[port]
             c == [p.pos EXCEPT ![port] = n]
             q == [p EXCEPT !.pos = c]
  <1>1. p.pos \in Counts
    BY DEF PadRecord
  <1>2. n \in 0 .. Buttons
    BY <1>1, PadAssumption DEF Counts
  <1>3. /\ c \in Counts /\ c[port] = n
        /\ \A other \in Ports \ {port} : c[other] = p.pos[other]
    <2> HIDE DEF n
    <2> QED
      BY <1>1, <1>2 DEF Counts
  <1>4. pads_read_ram(p, port) = q
    BY DEF pads_read_ram
  <1> HIDE DEF c
  <1>5. /\ q \in PadRecord
        /\ q.kind = p.kind /\ q.state = p.state /\ q.pending = p.pending
        /\ q.addr = p.addr /\ q.value = p.value /\ q.strobe = p.strobe /\ q.pos = c
    BY <1>3 DEF PadRecord
  <1> QED
    BY <1>3, <1>4, <1>5

(* Only the buttons change when the host sets or clears them.              *)
LEMMA HostButtons ==
    ASSUME NEW p \in PadRecord, NEW state \in States
    PROVE  LET q == [p EXCEPT !.state = state]
           IN  /\ q \in PadRecord
               /\ q.kind = p.kind /\ q.state = state /\ q.pending = p.pending
               /\ q.addr = p.addr /\ q.value = p.value /\ q.strobe = p.strobe
               /\ q.pos = p.pos
  BY DEF PadRecord

-----------------------------------------------------------------------------
(* What the real controller does.                                          *)

LEMMA Reloaded ==
    ASSUME NEW w \in WireRecord, NEW state \in States
    PROVE  LET v == Reload(w, state)
           IN  /\ v \in WireRecord
               /\ v.out = w.out /\ v.latched = w.latched
               /\ v.register = state /\ ~v.changed
               /\ v.shifts = Zeros /\ v.strays = Zeros
  BY ZerosCount DEF Reload, WireRecord, Bits

LEMMA Clocked ==
    ASSUME NEW w \in WireRecord, pads.state \in States, odd \in BOOLEAN
    PROVE  LET v == WireClock(w)
           IN  /\ v \in WireRecord
               /\ v.out = w.out
               /\ v.latched = IF odd THEN w.out ELSE w.latched
               /\ IF w.latched \/ v.latched
                  THEN /\ v.register = pads.state /\ ~v.changed
                       /\ v.shifts = Zeros /\ v.strays = Zeros
                  ELSE /\ v.register = w.register /\ v.changed = w.changed
                       /\ v.shifts = w.shifts /\ v.strays = w.strays
  <1> DEFINE u == IF odd THEN [w EXCEPT !.latched = w.out] ELSE w
  <1>1. /\ u \in WireRecord
        /\ u.out = w.out /\ u.latched = IF odd THEN w.out ELSE w.latched
        /\ u.register = w.register /\ u.shifts = w.shifts /\ u.strays = w.strays
        /\ u.changed = w.changed
    BY DEF WireRecord
  <1>2. WireClock(w) = IF w.latched \/ u.latched THEN Reload(u, pads.state) ELSE u
    BY DEF WireClock
  <1> HIDE DEF u
  <1>3. CASE w.latched \/ u.latched
    <2>1. WireClock(w) = Reload(u, pads.state)
      BY <1>2, <1>3
    <2> QED
      BY <1>1, <1>3, <2>1, Reloaded
  <1>4. CASE ~(w.latched \/ u.latched)
    BY <1>1, <1>2, <1>4
  <1> QED
    BY <1>3, <1>4

LEMMA OneMore ==
    ASSUME NEW c \in Counts, NEW port \in Ports, NEW latched \in BOOLEAN
    PROVE  LET n == IF latched \/ c[port] = Buttons THEN c[port] ELSE c[port] + 1
               d == [c EXCEPT ![port] = n]
           IN  /\ d \in Counts /\ d[port] = n
               /\ \A other \in Ports \ {port} : d[other] = c[other]
  <1> DEFINE n == IF latched \/ c[port] = Buttons THEN c[port] ELSE c[port] + 1
  <1>1. n \in 0 .. Buttons
    BY PadAssumption DEF Counts
  <1> HIDE DEF n
  <1>2. LET d == [c EXCEPT ![port] = n]
        IN  /\ d \in Counts /\ d[port] = n
            /\ \A other \in Ports \ {port} : d[other] = c[other]
    BY <1>1 DEF Counts
  <1> QED
    BY <1>2 DEF n

(* A read that reaches the port, of its own address or of another, brings  *)
(* the next button's turn.                                                 *)
LEMMA ReadTurns ==
    ASSUME NEW w \in WireRecord, NEW port \in Ports,
           NEW v, v = WireRead(w, port) \/ v = WireStray(w, port)
    PROVE  /\ v \in WireRecord
           /\ v.out = w.out /\ v.latched = w.latched
           /\ v.register = w.register /\ v.changed = w.changed
           /\ w.latched => v.shifts = w.shifts /\ v.strays = w.strays
           /\ \A other \in Ports \ {port} : Turn(v, other) = Turn(w, other)
           /\ Turn(v, port) = IF w.latched \/ Turn(w, port) = Buttons
                              THEN Turn(w, port) ELSE Turn(w, port) + 1
  <1>1. w.shifts \in Counts /\ w.strays \in Counts /\ w.latched \in BOOLEAN
    BY DEF WireRecord, Bits
  <1>2. \A p \in Ports : w.shifts[p] \in 0 .. Buttons /\ w.strays[p] \in 0 .. Buttons
    BY <1>1 DEF Counts
  <1>3. CASE v = WireRead(w, port)
    <2> DEFINE n == IF w.latched \/ w.shifts[port] = Buttons
                    THEN w.shifts[port] ELSE w.shifts[port] + 1
               c == [w.shifts EXCEPT ![port] = n]
    <2>1. /\ c \in Counts /\ c[port] = n
          /\ \A other \in Ports \ {port} : c[other] = w.shifts[other]
      BY <1>1, OneMore
    <2>2. w.latched => c = w.shifts
      BY <1>1 DEF Counts
    <2>3. v = [w EXCEPT !.shifts = c]
      BY <1>3 DEF WireRead
    <2> HIDE DEF c
    <2>4. /\ v \in WireRecord /\ v.out = w.out /\ v.latched = w.latched
          /\ v.register = w.register /\ v.changed = w.changed
          /\ v.shifts = c /\ v.strays = w.strays
      BY <2>1, <2>3 DEF WireRecord
    <2>5. \A other \in Ports \ {port} : Turn(v, other) = Turn(w, other)
      BY <2>1, <2>4 DEF Turn
    <2>6. Turn(v, port) = IF w.latched \/ Turn(w, port) = Buttons
                          THEN Turn(w, port) ELSE Turn(w, port) + 1
      BY <1>2, <2>1, <2>4, PadAssumption DEF Turn
    <2> QED
      BY <2>2, <2>4, <2>5, <2>6
  <1>4. CASE v = WireStray(w, port)
    <2> DEFINE n == IF w.latched \/ w.strays[port] = Buttons
                    THEN w.strays[port] ELSE w.strays[port] + 1
               c == [w.strays EXCEPT ![port] = n]
    <2>1. /\ c \in Counts /\ c[port] = n
          /\ \A other \in Ports \ {port} : c[other] = w.strays[other]
      BY <1>1, OneMore
    <2>2. w.latched => c = w.strays
      BY <1>1 DEF Counts
    <2>3. v = [w EXCEPT !.strays = c]
      BY <1>4 DEF WireStray
    <2> HIDE DEF c
    <2>4. /\ v \in WireRecord /\ v.out = w.out /\ v.latched = w.latched
          /\ v.register = w.register /\ v.changed = w.changed
          /\ v.strays = c /\ v.shifts = w.shifts
      BY <2>1, <2>3 DEF WireRecord
    <2>5. \A other \in Ports \ {port} : Turn(v, other) = Turn(w, other)
      BY <2>1, <2>4 DEF Turn
    <2>6. Turn(v, port) = IF w.latched \/ Turn(w, port) = Buttons
                          THEN Turn(w, port) ELSE Turn(w, port) + 1
      BY <1>2, <2>1, <2>4, PadAssumption DEF Turn
    <2> QED
      BY <2>2, <2>4, <2>5, <2>6
  <1> QED
    BY <1>3, <1>4

LEMMA TurnRange ==
    ASSUME NEW w \in WireRecord, NEW port \in Ports
    PROVE  /\ Turn(w, port) \in 0 .. Buttons
           /\ w.shifts = Zeros /\ w.strays = Zeros => Turn(w, port) = 0
  <1>1. w.shifts[port] \in 0 .. Buttons /\ w.strays[port] \in 0 .. Buttons
    BY DEF WireRecord, Counts
  <1> QED
    BY <1>1, ZerosCount, PadAssumption DEF Turn

-----------------------------------------------------------------------------
(* The invariant, action by action.                                        *)

LEMMA InitInv == Init => Inv
  <1> SUFFICES ASSUME Init PROVE Inv
    OBVIOUS
  <1>1. PICK game \in Games : pads = pads_init(game[2])
    BY DEF Init
  <1>2. game[2] \in Kinds
    BY GamesAssumption DEF Kinds
  <1>3. /\ pads \in PadRecord /\ pads.pending = 0 /\ ~pads.strobe
        /\ pads.pos = Zeros /\ pads.state = NoButtons
    BY <1>1, <1>2, PadsInit
  <1>4. /\ FALSE \in Bits /\ NoButtons \in States /\ Zeros \in Counts
        /\ "none" \in {"none", "mapper", "pad", "expansion"} /\ 0 \in Delays
    BY ZerosCount DEF Bits, NoButtons, States, Delays
  <1>5. /\ wire \in WireRecord
        /\ wire.out = FALSE /\ wire.latched = FALSE /\ wire.register = NoButtons
        /\ wire.shifts = Zeros /\ wire.strays = Zeros
    BY <1>4 DEF Init, wire_init, WireRecord
  <1>6. bus \in BusRecord /\ odd \in BOOLEAN
    BY <1>4 DEF Init, BusRecord
  <1>7. pads.strobe = FALSE
    BY <1>3 DEF PadRecord, Bits
  <1>8. Types /\ DelayOK /\ WaitingOK
    <2>1. Types
      BY <1>3, <1>5, <1>6 DEF Types
    <2>2. pads.pending # 1 /\ pads.pending # 2 /\ ~(pads.pending > 0)
      BY <1>3
    <2>3. wire.out = wire.latched
      BY <1>5
    <2> QED
      BY <2>1, <2>2, <2>3, Zenon DEF DelayOK, WaitingOK
  <1>9. StrobeLatched /\ PositionOK /\ RegisterOK
    BY <1>3, <1>5, <1>7, ZerosCount, TurnRange DEF StrobeLatched, PositionOK, RegisterOK
  <1> QED
    BY <1>8, <1>9 DEF Inv

LEMMA ClockStep == Inv /\ process_cpu_clock => Inv'
  <1> SUFFICES ASSUME Inv, process_cpu_clock PROVE Inv'
    OBVIOUS
  <1>1. /\ pads \in PadRecord /\ wire \in WireRecord /\ bus \in BusRecord
        /\ odd \in BOOLEAN /\ odd' = ~odd
        /\ pads.state \in States /\ pads.pending \in 0 .. 2
    BY DEF Inv, Types, PadRecord, Delays, process_cpu_clock
  <1>2. pads' = process_writes(pads) /\ wire' = WireClock(wire)
    BY DEF process_cpu_clock
  <1>3. /\ pads' \in PadRecord
        /\ pads'.kind = pads.kind /\ pads'.state = pads.state
        /\ pads'.addr = pads.addr /\ pads'.value = pads.value
        /\ pads'.pending = IF pads.pending = 0 THEN 0 ELSE pads.pending - 1
        /\ IF pads.pending = 1 /\ pads.addr = "pad"
           THEN /\ pads'.strobe = pads.value.strobe
                /\ pads'.pos = IF pads.strobe \/ pads.value.strobe THEN Zeros ELSE pads.pos
           ELSE pads'.strobe = pads.strobe /\ pads'.pos = pads.pos
    BY <1>1, <1>2, ProcessWrites
  <1>4. /\ wire' \in WireRecord
        /\ wire'.out = wire.out
        /\ wire'.latched = IF odd THEN wire.out ELSE wire.latched
        /\ IF wire.latched \/ wire'.latched
           THEN /\ wire'.register = pads.state /\ ~wire'.changed
                /\ wire'.shifts = Zeros /\ wire'.strays = Zeros
           ELSE /\ wire'.register = wire.register /\ wire'.changed = wire.changed
                /\ wire'.shifts = wire.shifts /\ wire'.strays = wire.strays
    BY <1>1, <1>2, Clocked
  <1>5. /\ bus' \in BusRecord /\ ~bus'.used
        /\ bus.used => bus'.addr = bus.addr /\ bus'.writes = bus.writes
    <2>1. FALSE \in Bits /\ 0 \in Delays
      BY DEF Bits, Delays
    <2> QED
      BY <1>1, <2>1 DEF process_cpu_clock, BusRecord
  <1>6. /\ pads.pending = 1 => odd
        /\ pads.pending = 2 => ~odd
    BY DEF Inv, DelayOK
  <1>7. Types'
    BY <1>1, <1>3, <1>4, <1>5 DEF Types
  <1>8. DelayOK'
    <2>1. pads'.pending # 2 /\ (pads'.pending = 1 => pads.pending = 2)
      BY <1>1, <1>3
    <2> QED
      BY <1>1, <1>6, <2>1, Zenon DEF DelayOK
  <1>9. odd => (wire.out # wire.latched => pads.pending = 1 /\ pads.addr = "pad")
    BY <1>1, <1>6 DEF Inv, WaitingOK
  <1>10. WaitingOK'
    <2>1. pads.pending = 2 /\ pads.addr = "pad"
             => pads.value.strobe = wire.out /\ bus.used /\ bus.addr = "pad" /\ bus.writes > 0
      BY DEF Inv, WaitingOK
    <2>2. pads'.pending > 0 => pads'.pending = 1 /\ pads.pending = 2
      BY <1>1, <1>3
    <2>3. pads'.pending # 2
      BY <1>1, <1>3
    <2>4. wire'.out # wire'.latched => pads'.pending > 0 /\ pads'.addr = "pad"
      <3> SUFFICES ASSUME wire'.out # wire'.latched
                   PROVE  pads'.pending > 0 /\ pads'.addr = "pad"
        OBVIOUS
      <3>1. ~odd /\ wire.out # wire.latched
        BY <1>4
      <3>2. pads.pending > 0 /\ pads.pending # 1 /\ pads.addr = "pad"
        BY <1>6, <3>1 DEF Inv, WaitingOK
      <3> QED
        BY <1>1, <1>3, <3>2
    <2> QED
      BY <1>3, <1>4, <1>5, <2>1, <2>2, <2>3, <2>4 DEF WaitingOK
  <1>11. StrobeLatched'
    <2>1. pads.strobe = wire.latched
      BY DEF Inv, StrobeLatched
    <2>2. pads.pending = 1 /\ pads.addr = "pad" => pads.value.strobe = wire.out
      BY <1>1 DEF Inv, WaitingOK
    <2> QED
      BY <1>1, <1>3, <1>4, <1>6, <1>9, <2>1, <2>2 DEF StrobeLatched
  <1>12. PositionOK'
    <2>1. pads.strobe = wire.latched /\ pads'.strobe = wire'.latched
      BY <1>11 DEF Inv, StrobeLatched
    <2>2. pads.strobe => pads.pos = Zeros
      BY DEF Inv, PositionOK
    <2>3. IF pads.strobe \/ pads'.strobe
          THEN pads'.pos = Zeros /\ wire'.shifts = Zeros /\ wire'.strays = Zeros
          ELSE /\ pads'.pos = pads.pos
               /\ wire'.shifts = wire.shifts /\ wire'.strays = wire.strays
      BY <1>3, <1>4, <2>1, <2>2
    <2>4. \A port \in Ports : Unplugged(pads', port) <=> Unplugged(pads, port)
      BY <1>3 DEF Unplugged
    <2>5. CASE pads.strobe \/ pads'.strobe
      BY <1>4, <2>3, <2>5, ZerosCount, TurnRange DEF PositionOK
    <2>6. CASE ~(pads.strobe \/ pads'.strobe)
      BY <2>3, <2>4, <2>6 DEF Inv, PositionOK, Turn
    <2> QED
      BY <2>5, <2>6
  <1>13. RegisterOK'
    <2>1. pads.strobe = wire.latched /\ pads'.strobe = wire'.latched
      BY <1>11 DEF Inv, StrobeLatched
    <2> QED
      BY <1>3, <1>4, <2>1 DEF Inv, RegisterOK
  <1> QED
    BY <1>7, <1>8, <1>10, <1>11, <1>12, <1>13 DEF Inv

(* What every write on the bus does to it.                                 *)
LEMMA BusTypes ==
    ASSUME bus \in BusRecord, NEW addr \in {"mapper", "pad", "expansion"}, BusWrite(addr)
    PROVE  /\ bus' \in BusRecord /\ bus'.used /\ bus'.addr = addr /\ bus'.writes > 0
           /\ ~bus.used
           /\ bus.writes > 0 => bus.addr = addr
  <1>1. bus.writes + 1 \in Delays /\ bus.writes + 1 > 0 /\ TRUE \in Bits
    BY DEF BusWrite, BusRecord, Delays, Bits
  <1>2. /\ bus' = [used |-> TRUE, addr |-> addr, writes |-> bus.writes + 1]
        /\ ~bus.used
        /\ bus.writes = 0 \/ (bus.writes = 1 /\ bus.addr = addr)
    BY DEF BusWrite
  <1>3. /\ bus' \in BusRecord /\ bus'.used = TRUE /\ bus'.addr = addr
        /\ bus'.writes = bus.writes + 1
    BY <1>1, <1>2 DEF BusRecord
  <1>4. bus.writes > 0 => bus.addr = addr
    BY <1>2 DEF BusRecord, Delays
  <1> QED
    BY <1>1, <1>2, <1>3, <1>4

(* A write elsewhere, while no write to $4016 waits without the bus.       *)
LEMMA MapperWriteStep == Inv /\ write_register => Inv'
  <1> SUFFICES ASSUME Inv, write_register PROVE Inv'
    OBVIOUS
  <1>1. pads' = pads /\ odd' = odd /\ wire' = wire /\ BusWrite("mapper")
    BY DEF write_register
  <1>2. bus' \in BusRecord /\ bus'.used /\ ~bus.used /\ (bus.writes > 0 => bus.addr = "mapper")
    BY <1>1, BusTypes DEF Inv, Types
  <1>3. pads.addr = "pad" => ~(pads.pending > 0) /\ ~(pads.pending = 2)
    BY <1>2 DEF Inv, WaitingOK
  <1>4. Types' /\ DelayOK' /\ StrobeLatched' /\ PositionOK' /\ RegisterOK'
    BY <1>1, <1>2 DEF Inv, Types, DelayOK, StrobeLatched, PositionOK, RegisterOK,
                      Unplugged, Turn
  <1>5. WaitingOK'
    BY <1>1, <1>3 DEF Inv, WaitingOK
  <1> QED
    BY <1>4, <1>5 DEF Inv

LEMMA PadWriteStep == Inv /\ write_4016 => Inv'
  <1> SUFFICES ASSUME Inv, write_4016 PROVE Inv'
    OBVIOUS
  <1>1. PICK value \in PadValues : /\ pads' = pads_write_ram(pads, "pad", value)
                                   /\ wire' = [wire EXCEPT !.out = value.strobe]
    BY DEF write_4016
  <1>2. value \in Values /\ "pad" \in Places /\ pads \in PadRecord /\ wire \in WireRecord
    BY PadAssumption DEF Values, Bits, Places, Inv, Types
  <1>3. /\ pads' \in PadRecord
        /\ pads'.kind = pads.kind /\ pads'.state = pads.state /\ pads'.pos = pads.pos
        /\ pads'.strobe = pads.strobe /\ pads'.addr = "pad" /\ pads'.value = value
        /\ pads'.pending = IF odd THEN 1 ELSE 2
    BY <1>1, <1>2, WriteRam
  <1>4. value.strobe \in Bits
    BY <1>2 DEF Values
  <1>5. /\ wire' \in WireRecord
        /\ wire'.out = value.strobe /\ wire'.latched = wire.latched
        /\ wire'.register = wire.register /\ wire'.changed = wire.changed
        /\ wire'.shifts = wire.shifts /\ wire'.strays = wire.strays
    BY <1>1, <1>2, <1>4 DEF WireRecord
  <1>6. odd' = odd /\ odd \in BOOLEAN
    BY DEF write_4016, Inv, Types
  <1>7. bus' \in BusRecord /\ bus'.used /\ bus'.addr = "pad" /\ bus'.writes > 0
    BY BusTypes DEF write_4016, Inv, Types
  <1>8. Types' /\ DelayOK'
    BY <1>3, <1>5, <1>6, <1>7 DEF Types, DelayOK
  <1>9. WaitingOK'
    <2>1. pads'.pending > 0
      BY <1>3
    <2> QED
      BY <1>3, <1>5, <1>7, <2>1 DEF WaitingOK
  <1>10. StrobeLatched' /\ RegisterOK'
    BY <1>3, <1>5 DEF Inv, StrobeLatched, RegisterOK
  <1>11. PositionOK'
    BY <1>3, <1>5 DEF Inv, PositionOK, Unplugged, Turn
  <1> QED
    BY <1>8, <1>9, <1>10, <1>11 DEF Inv

LEMMA ExpansionWriteStep == Inv /\ write_expansion => Inv'
  <1> SUFFICES ASSUME Inv, write_expansion PROVE Inv'
    OBVIOUS
  <1>1. PICK value \in PadValues : pads' = pads_write_ram(pads, "expansion", value)
    BY DEF write_expansion
  <1>2. value \in Values /\ "expansion" \in Places /\ pads \in PadRecord
    BY PadAssumption DEF Values, Bits, Places, Inv, Types
  <1>3. /\ pads' \in PadRecord
        /\ pads'.kind = pads.kind /\ pads'.state = pads.state /\ pads'.pos = pads.pos
        /\ pads'.strobe = pads.strobe /\ pads'.addr = "expansion"
        /\ pads'.pending = IF odd THEN 1 ELSE 2
    BY <1>1, <1>2, WriteRam
  <1>4. odd' = odd /\ odd \in BOOLEAN /\ wire' = wire
    BY DEF write_expansion, Inv, Types
  <1>5. bus' \in BusRecord /\ ~bus.used /\ (bus.writes > 0 => bus.addr = "expansion")
    BY BusTypes DEF write_expansion, Inv, Types
  <1>6. wire.out = wire.latched
    BY <1>5 DEF Inv, WaitingOK
  <1>7. Types' /\ DelayOK'
    BY <1>3, <1>4, <1>5 DEF Inv, Types, DelayOK
  <1>8. WaitingOK'
    BY <1>3, <1>4, <1>6 DEF WaitingOK
  <1>9. StrobeLatched' /\ RegisterOK'
    BY <1>3, <1>4 DEF Inv, StrobeLatched, RegisterOK
  <1>10. PositionOK'
    BY <1>3, <1>4 DEF Inv, PositionOK, Unplugged, Turn
  <1> QED
    BY <1>7, <1>8, <1>9, <1>10 DEF Inv

LEMMA ReadStep ==
    ASSUME Inv, NEW port \in Ports, read_4016_4017(port) \/ read_expansion(port)
    PROVE  Inv'
  <1>1. pads \in PadRecord /\ wire \in WireRecord /\ odd' = odd
    BY DEF Inv, Types, read_4016_4017, read_expansion
  <1>2. /\ pads' = pads_read_ram(pads, port)
        /\ wire' = WireRead(wire, port) \/ wire' = WireStray(wire, port)
    BY DEF read_4016_4017, read_expansion
  <1>3. /\ pads' \in PadRecord
        /\ pads'.kind = pads.kind /\ pads'.state = pads.state /\ pads'.pending = pads.pending
        /\ pads'.addr = pads.addr /\ pads'.value = pads.value /\ pads'.strobe = pads.strobe
        /\ \A other \in Ports \ {port} : pads'.pos[other] = pads.pos[other]
        /\ pads'.pos[port] = IF ~pads.strobe /\ pads.pos[port] < Buttons /\ ~Unplugged(pads, port)
                             THEN pads.pos[port] + 1 ELSE pads.pos[port]
    BY <1>1, <1>2, ReadRam
  <1>4. /\ wire' \in WireRecord
        /\ wire'.out = wire.out /\ wire'.latched = wire.latched
        /\ wire'.register = wire.register /\ wire'.changed = wire.changed
        /\ wire.latched => wire'.shifts = wire.shifts /\ wire'.strays = wire.strays
        /\ \A other \in Ports \ {port} : Turn(wire', other) = Turn(wire, other)
        /\ Turn(wire', port) = IF wire.latched \/ Turn(wire, port) = Buttons
                               THEN Turn(wire, port) ELSE Turn(wire, port) + 1
    BY <1>1, <1>2, ReadTurns
  <1>5. bus' \in BusRecord /\ bus'.used /\ ~bus.used
    <2>1. TRUE \in Bits /\ 0 \in Delays
      BY DEF Bits, Delays
    <2>2. bus' = [used |-> TRUE, addr |-> "none", writes |-> 0] /\ ~bus.used
      BY DEF read_4016_4017, read_expansion
    <2> QED
      BY <2>1, <2>2 DEF BusRecord
  <1>6. Types' /\ DelayOK'
    BY <1>1, <1>3, <1>4, <1>5 DEF Inv, Types, DelayOK
  <1>7. WaitingOK'
    <2>1. ~(pads.pending = 2 /\ pads.addr = "pad")
      BY <1>5 DEF Inv, WaitingOK
    <2> QED
      BY <1>3, <1>4, <1>5, <2>1 DEF Inv, WaitingOK
  <1>8. StrobeLatched' /\ RegisterOK'
    BY <1>3, <1>4 DEF Inv, StrobeLatched, RegisterOK
  <1>9. PositionOK'
    <2>1. pads.strobe = wire.latched
      BY DEF Inv, StrobeLatched
    <2>2. pads.pos \in Counts /\ pads'.pos \in Counts
      BY <1>1, <1>3 DEF PadRecord
    <2>3. pads'.strobe => pads'.pos = Zeros /\ wire'.shifts = Zeros /\ wire'.strays = Zeros
      <3> SUFFICES ASSUME pads'.strobe
                   PROVE  pads'.pos = Zeros /\ wire'.shifts = Zeros /\ wire'.strays = Zeros
        OBVIOUS
      <3>1. /\ pads.pos = Zeros /\ wire.shifts = Zeros /\ wire.strays = Zeros
            /\ pads.strobe /\ wire.latched
        BY <1>3, <2>1 DEF Inv, PositionOK
      <3>2. \A other \in Ports : pads'.pos[other] = Zeros[other]
        BY <1>3, <3>1
      <3> QED
        BY <1>4, <2>2, <3>1, <3>2 DEF Counts, Zeros
    <2>4. ASSUME NEW other \in Ports, ~Unplugged(pads', other)
          PROVE  pads'.pos[other] = Turn(wire', other)
      <3>1. ~Unplugged(pads, other)
        BY <1>3, <2>4 DEF Unplugged
      <3>2. /\ pads.pos[other] = Turn(wire, other)
            /\ pads.pos[other] \in 0 .. Buttons
        BY <2>2, <3>1 DEF Inv, PositionOK, Counts
      <3>3. CASE other # port
        BY <1>3, <1>4, <3>2, <3>3
      <3>4. CASE other = port
        BY <1>3, <1>4, <2>1, <3>1, <3>2, <3>4, PadAssumption
      <3> QED
        BY <3>3, <3>4
    <2> QED
      BY <2>3, <2>4 DEF PositionOK
  <1> QED
    BY <1>6, <1>7, <1>8, <1>9 DEF Inv

LEMMA HostStep == Inv /\ host_input => Inv'
  <1> SUFFICES ASSUME Inv, host_input PROVE Inv'
    OBVIOUS
  <1>1. pads \in PadRecord /\ wire \in WireRecord /\ pads.state \in States
    BY DEF Inv, Types, PadRecord
  <1>2. PICK state \in States : pads' = [pads EXCEPT !.state = state]
    <2>1. CASE pads' = clear_all(pads)
      <3>1. NoButtons \in States
        BY DEF NoButtons, States
      <3> QED
        BY <2>1, <3>1 DEF clear_all
    <2>2. CASE \E port \in Ports, button \in AllButtons, pressed \in BOOLEAN :
                 pads' = set_button_state(pads, port, button, pressed)
      <3>1. PICK port \in Ports, button \in AllButtons, pressed \in BOOLEAN :
                pads' = set_button_state(pads, port, button, pressed)
        BY <2>2
      <3> DEFINE now == IF pressed THEN pads.state[port] \cup {button}
                                   ELSE pads.state[port] \ {button}
                 state == [pads.state EXCEPT ![port] = now]
      <3>2. now \in SUBSET AllButtons
        BY <1>1 DEF States
      <3>3. state \in States
        <4> HIDE DEF now
        <4> QED
          BY <1>1, <3>2 DEF States
      <3>4. pads' = [pads EXCEPT !.state = state]
        BY <3>1 DEF set_button_state
      <3> QED
        BY <3>3, <3>4
    <2> QED
      BY <2>1, <2>2 DEF host_input
  <1>3. /\ pads' \in PadRecord
        /\ pads'.kind = pads.kind /\ pads'.state = state /\ pads'.pending = pads.pending
        /\ pads'.addr = pads.addr /\ pads'.value = pads.value /\ pads'.strobe = pads.strobe
        /\ pads'.pos = pads.pos
    BY <1>1, <1>2, HostButtons
  <1>4. odd' = odd /\ bus' = bus /\ wire' = WireButtons(wire, state)
    BY <1>3 DEF host_input
  <1>5. /\ wire' \in WireRecord
        /\ wire'.out = wire.out /\ wire'.latched = wire.latched
        /\ IF wire.latched
           THEN /\ wire'.register = state /\ ~wire'.changed
                /\ wire'.shifts = Zeros /\ wire'.strays = Zeros
           ELSE wire'.shifts = wire.shifts /\ wire'.strays = wire.strays /\ wire'.changed
    <2>1. CASE wire.latched
      <3>1. wire' = Reload(wire, state)
        BY <1>4, <2>1 DEF WireButtons
      <3> QED
        BY <1>1, <2>1, <3>1, Reloaded
    <2>2. CASE ~wire.latched
      <3>1. wire' = [wire EXCEPT !.changed = TRUE] /\ TRUE \in Bits
        BY <1>4, <2>2 DEF WireButtons, Bits
      <3> QED
        BY <1>1, <2>2, <3>1 DEF WireRecord
    <2> QED
      BY <2>1, <2>2
  <1>6. Types' /\ DelayOK'
    BY <1>3, <1>4, <1>5 DEF Inv, Types, DelayOK
  <1>7. WaitingOK'
    BY <1>3, <1>4, <1>5 DEF Inv, WaitingOK
  <1>8. StrobeLatched'
    BY <1>3, <1>5 DEF Inv, StrobeLatched
  <1>9. pads.strobe = wire.latched
    BY DEF Inv, StrobeLatched
  <1>10. PositionOK'
    <2>1. \A port \in Ports : Unplugged(pads', port) <=> Unplugged(pads, port)
      BY <1>3 DEF Unplugged
    <2>2. CASE wire.latched
      BY <1>3, <1>5, <1>9, <2>2, ZerosCount, TurnRange DEF Inv, PositionOK
    <2>3. CASE ~wire.latched
      BY <1>3, <1>5, <1>9, <2>1, <2>3 DEF Inv, PositionOK, Turn
    <2> QED
      BY <2>2, <2>3
  <1>11. RegisterOK'
    BY <1>3, <1>5, <1>9 DEF Inv, RegisterOK
  <1> QED
    BY <1>6, <1>7, <1>8, <1>10, <1>11 DEF Inv

LEMMA InvStep == Inv /\ [Next]_vars => Inv'
  <1> SUFFICES ASSUME Inv, [Next]_vars PROVE Inv'
    OBVIOUS
  <1>1. CASE UNCHANGED <<pads, odd, bus, wire>>
    BY <1>1 DEF Inv, Types, DelayOK, WaitingOK, StrobeLatched, PositionOK, RegisterOK,
                Unplugged, Turn
  <1>2. CASE \E a12 \in BOOLEAN : set_bus_address(a12)
    BY <1>1, <1>2 DEF set_bus_address
  <1>3. CASE UNCHANGED vars
    BY <1>1, <1>3 DEF vars
  <1>4. CASE \E port \in Ports : read_4016_4017(port) \/ read_expansion(port)
    BY <1>4, ReadStep
  <1> QED
    BY <1>2, <1>3, <1>4, ClockStep, MapperWriteStep, PadWriteStep, ExpansionWriteStep,
       HostStep DEF Next

LEMMA InvHolds == Spec => []Inv
  BY InitInv, InvStep, PTL DEF Spec

-----------------------------------------------------------------------------
(* NesControlManager's delayed writes reach the controllers as the output  *)
(* latch would: none is lost to a write of another register and none comes *)
(* a cycle early or late.                                                  *)
THEOREM StrobeStaysLatched == Spec => []StrobeLatched
  <1>1. Inv => StrobeLatched
    BY DEF Inv
  <1> QED
    BY <1>1, InvHolds, PTL

(* Whatever a program strobes and reads, in whatever order and through     *)
(* whatever address, a port sends the button whose turn it is, as the host *)
(* has it now, and as the strobe found it while buttons are left alone.    *)
THEOREM ReadsStayMatched == Spec => []PadReadsMatch
  <1>1. Inv => PadReadsMatch
    <2> SUFFICES ASSUME Inv, NEW port \in Ports, ~Unplugged(pads, port)
                 PROVE  LET n == wire.shifts[port] + wire.strays[port]
                        IN  /\ serial_bit(pads, port) = Sent(n, pads.state[port])
                            /\ ~wire.changed =>
                                 serial_bit(pads, port) = Sent(n, wire.register[port])
      BY DEF PadReadsMatch
    <2> DEFINE n == wire.shifts[port] + wire.strays[port]
    <2>1. pads \in PadRecord /\ wire \in WireRecord
      BY DEF Inv, Types
    <2>2. /\ pads.strobe \in BOOLEAN /\ pads.pos[port] \in 0 .. Buttons
          /\ wire.shifts[port] \in 0 .. Buttons /\ wire.strays[port] \in 0 .. Buttons
      BY <2>1 DEF PadRecord, WireRecord, Counts, Bits
    <2>3. n \in Nat /\ pads.pos[port] = IF n < Buttons THEN n ELSE Buttons
      BY <2>2, PadAssumption DEF Inv, PositionOK, Turn
    <2>4. pads.strobe => pads.pos[port] = 0 /\ n = 0
      BY <2>2, ZerosCount DEF Inv, PositionOK
    <2> HIDE DEF n
    <2>5. pads.pos[port] < Buttons <=> n < Buttons
      BY <2>2, <2>3, PadAssumption
    <2>6. serial_bit(pads, port) \in BOOLEAN
      BY Zenon DEF serial_bit
    <2>7. serial_bit(pads, port) = Sent(n, pads.state[port])
      <3>1. CASE pads.strobe
        <4>1. serial_bit(pads, port) <=> 0 \in pads.state[port]
          BY <3>1, Zenon DEF serial_bit
        <4>2. n = 0 /\ ~(n >= Buttons)
          BY <2>4, <3>1, PadAssumption
        <4> QED
          BY <2>6, <4>1, <4>2 DEF Sent
      <3>2. CASE ~pads.strobe /\ n < Buttons
        <4>1. pads.pos[port] = n /\ ~(n >= Buttons) /\ pads.pos[port] < Buttons
          BY <2>3, <3>2, PadAssumption
        <4>2. serial_bit(pads, port) <=> n \in pads.state[port]
          BY <3>2, <4>1, Zenon DEF serial_bit
        <4> QED
          BY <2>6, <4>1, <4>2 DEF Sent
      <3>3. CASE ~pads.strobe /\ ~(n < Buttons)
        <4>1. ~(pads.pos[port] < Buttons) /\ n >= Buttons
          BY <2>3, <2>5, <3>3, PadAssumption
        <4>2. serial_bit(pads, port) = TRUE
          BY <3>3, <4>1 DEF serial_bit
        <4> QED
          BY <4>1, <4>2 DEF Sent
      <3> QED
        BY <3>1, <3>2, <3>3
    <2>8. ~wire.changed => wire.register = pads.state
      BY DEF Inv, RegisterOK
    <2> QED
      BY <2>7, <2>8 DEF n
  <1> QED
    BY <1>1, InvHolds, PTL

-----------------------------------------------------------------------------
(* The interrupt timers.  Remainders and the widths of the counters first. *)

LEMMA ModRange == ASSUME NEW a \in Int, NEW n \in Nat \ {0} PROVE a % n \in 0 .. n - 1
  OBVIOUS

LEMMA DivMod ==
    ASSUME NEW a \in Int, NEW n \in Nat \ {0}
    PROVE  a \div n \in Int /\ a = (n * (a \div n)) + (a % n)
  OBVIOUS

LEMMA ModSmall == ASSUME NEW n \in Nat \ {0}, NEW a \in 0 .. n - 1 PROVE a % n = a
  OBVIOUS

LEMMA ModPlus ==
    ASSUME NEW n \in Nat \ {0}, NEW q \in Int, NEW r \in 0 .. n - 1
    PROVE  ((n * q) + r) % n = r
  OBVIOUS

(* Counting up and down around a power of two.                             *)
LEMMA WrapUp ==
    ASSUME NEW n \in Nat \ {0}, NEW a \in 0 .. n - 1
    PROVE  (a + 1) % n = IF a = n - 1 THEN 0 ELSE a + 1
  OBVIOUS

LEMMA WrapDown ==
    ASSUME NEW n \in Nat \ {0}, NEW a \in 0 .. n - 1
    PROVE  (a - 1) % n = IF a = 0 THEN n - 1 ELSE a - 1
  OBVIOUS

(* The way from a to b around n values.                                    *)
LEMMA WrapBetween ==
    ASSUME NEW n \in Nat \ {0}, NEW a \in 0 .. n - 1, NEW b \in 0 .. n - 1
    PROVE  (b - a) % n = IF a <= b THEN b - a ELSE b - a + n
  OBVIOUS

(* Only the low digits of a counter count.                                 *)
LEMMA LowUp ==
    ASSUME NEW n \in Nat \ {0}, NEW a \in Int
    PROVE  (a + 1) % n = IF a % n = n - 1 THEN 0 ELSE (a % n) + 1
  <1> DEFINE q == a \div n
             r == a % n
  <1>1. q \in Int /\ a = (n * q) + r /\ r \in 0 .. n - 1
    BY DivMod, ModRange
  <1> HIDE DEF q, r
  <1>2. CASE r = n - 1
    <2>1. a + 1 = (n * (q + 1)) + 0
      BY <1>1, <1>2
    <2>2. ((n * (q + 1)) + 0) % n = 0
      BY <1>1, ModPlus
    <2> QED
      BY <1>2, <2>1, <2>2 DEF r
  <1>3. CASE r # n - 1
    <2>1. a + 1 = (n * q) + (r + 1) /\ r + 1 \in 0 .. n - 1
      BY <1>1, <1>3
    <2>2. ((n * q) + (r + 1)) % n = r + 1
      BY <1>1, <2>1, ModPlus
    <2> QED
      BY <1>3, <2>1, <2>2 DEF r
  <1> QED
    BY <1>2, <1>3

LEMMA LowReplaced ==
    ASSUME NEW n \in Nat \ {0}, NEW a \in Int, NEW x \in 0 .. n - 1
    PROVE  (a - (a % n) + x) % n = x
  <1>1. a - (a % n) = n * (a \div n) /\ a \div n \in Int
    BY DivMod
  <1>2. ((n * (a \div n)) + x) % n = x
    BY <1>1, ModPlus
  <1> QED
    BY <1>1, <1>2

LEMMA LowReplacedRange ==
    ASSUME NEW n \in Nat \ {0}, NEW k \in Nat, NEW a \in 0 .. (n * k) - 1,
           NEW x \in 0 .. n - 1
    PROVE  a - (a % n) + x \in 0 .. (n * k) - 1
  <1> DEFINE q == a \div n
             r == a % n
  <1>1. a = (n * q) + r /\ q \in Int /\ r \in 0 .. n - 1
    BY DivMod, ModRange
  <1> HIDE DEF q, r
  <1>2. n * q \in Int /\ n * q <= a /\ a < n * k /\ a < n * q + n
    BY <1>1
  <1>3. q < k /\ q >= 0
    BY <1>1, <1>2
  <1>4. n * q + n <= n * k /\ n * q >= 0
    BY <1>1, <1>3
  <1> QED
    BY <1>1, <1>4 DEF r

LEMMA CounterSizes ==
    /\ Nibble \in Nat \ {0, 1} /\ Byte \in Nat /\ Byte >= 4
    /\ Word \in Nat /\ Word >= 16 /\ Word >= 4 * Byte
    /\ FirstCount = Byte * Nibble /\ FirstCount \in Nat /\ FirstCount >= 4 /\ FirstCount < Word
  <1>1. Nibble \in Nat \ {0, 1}
    BY WidthAssumption
  <1>2. Byte \in Nat /\ Byte >= 4 /\ Byte > Nibble
    BY <1>1 DEF Byte
  <1>3. Word \in Nat /\ Word >= 4 * Byte
    BY <1>2 DEF Word
  <1>4. FirstCount = Byte * Nibble
    BY DEF FirstCount, NibbleWeight
  <1>5. Byte * Nibble \in Nat /\ Byte * Nibble >= Byte /\ Byte * Nibble < Byte * Byte
    BY <1>1, <1>2
  <1> QED
    BY <1>1, <1>2, <1>3, <1>4, <1>5 DEF Word

LEMMA Levels ==
    /\ Half \in Nat /\ Half >= 8 /\ Half < Word /\ 2 * Half <= Word
    /\ LevelStart \in Nat /\ LevelStart > 0 /\ LevelStart < Half
  <1>1. Word \in Nat /\ Word >= 16
    BY CounterSizes
  <1>2. Half \in Nat /\ Half >= 8 /\ Half < Word /\ 2 * Half <= Word
    BY <1>1 DEF Half
  <1>3. LevelStart \in Nat /\ LevelStart > 0 /\ LevelStart < Half
    BY <1>2 DEF LevelStart
  <1> QED
    BY <1>2, <1>3

(* Each of Mapper018's widths divides the counter's.                       *)
LEMMA Masks ==
    ASSUME NEW size \in 0 .. 3
    PROVE  /\ MaskValues(size) \in Nat /\ MaskValues(size) >= 2
           /\ \E k \in Nat \ {0} : Word = MaskValues(size) * k
  <1>1. /\ Nibble \in Nat \ {0, 1} /\ Byte \in Nat /\ Byte >= 4 /\ Word \in Nat
        /\ Word >= 16 /\ FirstCount = Byte * Nibble /\ FirstCount \in Nat
        /\ FirstCount >= 4
    BY CounterSizes
  <1>2. CASE size = 0
    <2>1. MaskValues(size) = Word /\ Word = Word * 1
      BY <1>1, <1>2 DEF MaskValues
    <2> QED
      BY <1>1, <2>1
  <1>3. CASE size = 1
    <2>1. MaskValues(size) = FirstCount
      BY <1>3 DEF MaskValues, FirstCount
    <2>2. Word = (Byte * Nibble) * Nibble
      BY <1>1 DEF Word, Byte
    <2> QED
      BY <1>1, <2>1, <2>2
  <1>4. CASE size = 2
    <2>1. MaskValues(size) = Byte
      BY <1>4 DEF MaskValues
    <2> QED
      BY <1>1, <2>1 DEF Word
  <1>5. CASE size = 3
    <2>1. MaskValues(size) = Nibble
      BY <1>5 DEF MaskValues
    <2>2. Word = Nibble * (Nibble * Byte) /\ Nibble * Byte \in Nat \ {0}
      BY <1>1 DEF Word, Byte
    <2> QED
      BY <1>1, <2>1, <2>2
  <1> QED
    BY <1>2, <1>3, <1>4, <1>5

(* The bytes and the nibbles of a word, written one at a time.             *)
Words == 0 .. Word - 1

LEMMA LowSet ==
    ASSUME NEW w \in Words, NEW v \in Bytes
    PROVE  SetLow(w, v) \in Words /\ SetLow(w, v) % Byte = v
  <1>1. Byte \in Nat \ {0} /\ Word = Byte * Byte /\ w \in 0 .. (Byte * Byte) - 1
    BY CounterSizes DEF Word, Words
  <1>2. w \in Int /\ v \in 0 .. Byte - 1
    BY <1>1 DEF Bytes
  <1>3. w - (w % Byte) + v \in 0 .. (Byte * Byte) - 1
    BY <1>1, <1>2, LowReplacedRange
  <1>4. (w - (w % Byte) + v) % Byte = v
    BY <1>1, <1>2, LowReplaced
  <1> QED
    BY <1>1, <1>3, <1>4 DEF SetLow, Words

LEMMA HighSet ==
    ASSUME NEW w \in Words, NEW v \in Bytes
    PROVE  SetHigh(w, v) \in Words
  <1>1. Byte \in Nat \ {0} /\ Word = Byte * Byte /\ w \in Int
    BY CounterSizes DEF Word, Words
  <1>2. w % Byte \in 0 .. Byte - 1 /\ v \in 0 .. Byte - 1
    BY <1>1, ModRange DEF Bytes
  <1>3. v * Byte \in Nat /\ v * Byte <= (Byte - 1) * Byte
    BY <1>1, <1>2
  <1>4. (Byte - 1) * Byte = Byte * Byte - Byte
    BY <1>1
  <1> QED
    BY <1>1, <1>2, <1>3, <1>4 DEF SetHigh, Words

LEMMA NibbleSet ==
    ASSUME NEW w \in Words, NEW i \in 0 .. 3, NEW v \in Nibbles
    PROVE  SetNibble(w, i, v) \in Words
  <1> DEFINE e == NibbleWeight[i]
             q == w \div e
             d == q % Nibble
             h == q - d + v
             r == w % e
  <1>1. /\ Nibble \in Nat \ {0} /\ Byte \in Nat /\ w \in 0 .. Word - 1 /\ w \in Int
        /\ Word \in Nat
    BY CounterSizes DEF Words
  <1>2. \E k \in Nat : /\ e \in Nat \ {0}
                       /\ Word = e * (Nibble * k)
    <2>1. /\ i = 0 => e = 1
          /\ i = 1 => e = Nibble
          /\ i = 2 => e = Byte
          /\ i = 3 => e = Byte * Nibble
      BY DEF NibbleWeight
    <2>2. /\ Word = 1 * (Nibble * (Nibble * Byte))
          /\ Word = Nibble * (Nibble * Byte)
          /\ Word = Byte * (Nibble * Nibble)
          /\ Word = (Byte * Nibble) * (Nibble * 1)
          /\ Nibble * Byte \in Nat /\ Byte * Nibble \in Nat \ {0} /\ Byte \in Nat \ {0}
      BY <1>1, CounterSizes DEF Word, Byte
    <2> HIDE DEF e
    <2>3. CASE i = 0
      BY <1>1, <2>1, <2>2, <2>3
    <2>4. CASE i = 1
      BY <1>1, <2>1, <2>2, <2>4
    <2>5. CASE i = 2
      BY <1>1, <2>1, <2>2, <2>5
    <2>6. CASE i = 3
      BY <1>1, <2>1, <2>2, <2>6
    <2> QED
      BY <2>3, <2>4, <2>5, <2>6
  <1>3. PICK k \in Nat : e \in Nat \ {0} /\ Word = e * (Nibble * k)
    BY <1>2
  <1>4. SetNibble(w, i, v) = w + (v - d) * e
    BY DEF SetNibble
  <1> HIDE DEF e
  <1>5. q \in Int /\ r \in 0 .. e - 1 /\ w = (e * q) + r
    BY <1>1, <1>3, DivMod, ModRange
  <1> HIDE DEF q, r
  <1>6. q >= 0 /\ q < Nibble * k
    BY <1>1, <1>3, <1>5
  <1>7. Nibble * k \in Nat /\ q \in 0 .. (Nibble * k) - 1 /\ v \in 0 .. Nibble - 1
    BY <1>1, <1>3, <1>5, <1>6 DEF Nibbles
  <1>8. h \in 0 .. (Nibble * k) - 1
    BY <1>1, <1>3, <1>7, LowReplacedRange
  <1>9. d \in Int
    BY <1>1, <1>5, ModRange
  <1>10. w + (v - d) * e = (e * h) + r
    <2> HIDE DEF d
    <2>1. v \in Int /\ e \in Int /\ r \in Int
      BY <1>3, <1>5, <1>7
    <2>2. e * (q - d + v) = e * q + (v - d) * e
      BY <1>5, <1>9, <2>1
    <2>3. w + (v - d) * e = ((e * q) + r) + (v - d) * e
      BY <1>5
    <2>4. (v - d) * e \in Int /\ e * q \in Int
      BY <1>5, <1>9, <2>1
    <2> QED
      BY <2>1, <2>2, <2>3, <2>4
  <1> HIDE DEF h
  <1>11. e * h >= 0 /\ e * h + e <= e * (Nibble * k)
    BY <1>3, <1>7, <1>8
  <1> QED
    BY <1>3, <1>4, <1>5, <1>8, <1>10, <1>11 DEF Words
-----------------------------------------------------------------------------
(* The boards' members.                                                    *)

CartBoards == TimerBoards \cup {"none"}
Widths == 0 .. 3
Prescalers == -PrescalerLimit .. PrescalerLimit - 1
Lows == Int

CartRecord ==
    [board : CartBoards, counter : Words, reload : Words, enabled : Bits,
     flag : Bits, size : Widths, on_ack : Bits, prescaler : Prescalers, low : Lows,
     irq : Bits]

ByteBoards == {"VRC", "004", "004A", "035", "117"}

(* Some boards use less than the word.  Board 42's line is the level of    *)
(* its counter, and board 43 disables itself when it has counted enough.   *)
Bounded(m) ==
    /\ m.board \in ByteBoards => m.counter \in Bytes /\ m.reload \in Bytes
    /\ m.board = "42" => m.counter < Half /\ (m.irq <=> m.counter >= LevelStart)
    /\ m.board = "43" => (m.enabled => m.counter < FirstCount)

(* What a tick may do to the countdown.                                    *)
TickStep(m, n) ==
    /\ TicksLeft(m) \in Nat /\ PeriodTicks(m) \in Nat
    /\ TicksLeft(m) = 0 => TicksLeft(n) = 0 /\ n.irq = m.irq
    /\ TicksLeft(m) = 1 => /\ TicksLeft(n) = PeriodTicks(m)
                           /\ n.irq
                           /\ PeriodTicks(n) = PeriodTicks(m)
    /\ TicksLeft(m) > 1 => /\ TicksLeft(n) = TicksLeft(m) - 1
                           /\ n.irq <=> m.irq /\ (m.board = "42" => TicksLeft(n) > LevelStart)
                           /\ PeriodTicks(n) = PeriodTicks(m)

Ticks(m, n) == n \in CartRecord /\ n.board = m.board /\ Bounded(n) /\ TickStep(m, n)

(* The members that a clock can change.                                    *)
Becomes(m, n, counter, enabled, flag, irq) ==
    /\ n \in CartRecord /\ n.board = m.board /\ n.reload = m.reload /\ n.size = m.size
    /\ n.counter = counter /\ n.enabled = enabled /\ n.flag = flag /\ n.irq = irq

LEMMA CartFields ==
    ASSUME NEW m \in CartRecord
    PROVE  /\ m.board \in CartBoards /\ m.counter \in 0 .. Word - 1
           /\ m.reload \in 0 .. Word - 1 /\ m.size \in 0 .. 3
           /\ m.counter \in Int /\ m.reload \in Int
           /\ m.enabled \in BOOLEAN /\ m.flag \in BOOLEAN /\ m.irq \in BOOLEAN
           /\ m.on_ack \in BOOLEAN /\ m.prescaler \in Prescalers
  BY CounterSizes DEF CartRecord, Words, Widths, Bits

LEMMA Clock006 ==
    ASSUME NEW m \in CartRecord, m.board = "006"
    PROVE  Ticks(m, Mapper006_clock(m))
  <1> DEFINE n == Mapper006_clock(m)
             c == (m.counter + 1) % Word
  <1>1. /\ Word \in Nat /\ Word >= 16 /\ m.counter \in 0 .. Word - 1
        /\ m.enabled \in BOOLEAN /\ m.flag \in BOOLEAN /\ m.irq \in BOOLEAN
    BY CartFields, CounterSizes
  <1>2. c = IF m.counter = Word - 1 THEN 0 ELSE m.counter + 1
    BY <1>1, WrapUp
  <1>3. c \in Words
    BY <1>1, <1>2 DEF Words
  <1>4. /\ ~m.enabled => Becomes(m, n, m.counter, m.enabled, m.flag, m.irq)
        /\ m.enabled /\ c = 0 => Becomes(m, n, c, FALSE, m.flag, TRUE)
        /\ m.enabled /\ c # 0 => Becomes(m, n, c, m.enabled, m.flag, m.irq)
    <2> HIDE DEF c
    <2>1. c = (m.counter + 1) % Word
      BY DEF c
    <2> QED
      BY <1>3, <2>1 DEF Mapper006_clock, Raise, Becomes, CartRecord, Bits
  <1> HIDE DEF n
  <1>5. n \in CartRecord /\ n.board = "006"
    BY <1>4 DEF Becomes
  <1>6. /\ TicksLeft(m) = IF m.enabled THEN Word - m.counter ELSE 0
        /\ TicksLeft(n) = IF n.enabled THEN Word - n.counter ELSE 0
        /\ PeriodTicks(m) = 0 /\ PeriodTicks(n) = 0
    BY <1>5 DEF TicksLeft, PeriodTicks
  <1>7. TickStep(m, n)
    <2> HIDE DEF c
    <2> QED
      BY <1>1, <1>2, <1>4, <1>6 DEF TickStep, Becomes
  <1> QED
    BY <1>5, <1>7 DEF Ticks, Bounded, ByteBoards, n
LEMMA Clock016 ==
    ASSUME NEW m \in CartRecord, m.board \in {"016", "016.4"}
    PROVE  Ticks(m, Mapper016_clock(m))
  <1> DEFINE n == Mapper016_clock(m)
             c == (m.counter - 1) % Word
  <1>1. /\ Word \in Nat /\ Word >= 16 /\ m.counter \in 0 .. Word - 1
        /\ m.enabled \in BOOLEAN /\ m.flag \in BOOLEAN /\ m.irq \in BOOLEAN
    BY CartFields, CounterSizes
  <1>2. c = IF m.counter = 0 THEN Word - 1 ELSE m.counter - 1
    BY <1>1, WrapDown
  <1>3. c \in Words
    BY <1>1, <1>2 DEF Words
  <1>4. /\ ~m.enabled => Becomes(m, n, m.counter, m.enabled, m.flag, m.irq)
        /\ m.enabled /\ m.counter = 0 => Becomes(m, n, c, m.enabled, m.flag, TRUE)
        /\ m.enabled /\ m.counter # 0 => Becomes(m, n, c, m.enabled, m.flag, m.irq)
    <2>1. c = (m.counter - 1) % Word
      OBVIOUS
    <2> HIDE DEF c
    <2> QED
      BY <1>3, <2>1 DEF Mapper016_clock, Raise, Becomes, CartRecord, Bits
  <1> HIDE DEF n
  <1>5. n \in CartRecord /\ n.board = m.board
    BY <1>4 DEF Becomes
  <1>6. /\ TicksLeft(m) = IF m.enabled THEN m.counter + 1 ELSE 0
        /\ TicksLeft(n) = IF n.enabled THEN n.counter + 1 ELSE 0
        /\ PeriodTicks(m) = Word /\ PeriodTicks(n) = Word
    BY <1>5 DEF TicksLeft, PeriodTicks
  <1>7. TickStep(m, n)
    <2> HIDE DEF c
    <2> QED
      BY <1>1, <1>2, <1>4, <1>6 DEF TickStep, Becomes
  <1> QED
    BY <1>5, <1>7 DEF Ticks, Bounded, ByteBoards, n

LEMMA Clock065 ==
    ASSUME NEW m \in CartRecord, m.board = "065"
    PROVE  Ticks(m, Mapper065_clock(m))
  <1> DEFINE n == Mapper065_clock(m)
             c == (m.counter - 1) % Word
  <1>1. /\ Word \in Nat /\ Word >= 16 /\ m.counter \in 0 .. Word - 1
        /\ m.enabled \in BOOLEAN /\ m.flag \in BOOLEAN /\ m.irq \in BOOLEAN
    BY CartFields, CounterSizes
  <1>2. c = IF m.counter = 0 THEN Word - 1 ELSE m.counter - 1
    BY <1>1, WrapDown
  <1>3. c \in Words
    BY <1>1, <1>2 DEF Words
  <1>4. /\ ~m.enabled => Becomes(m, n, m.counter, m.enabled, m.flag, m.irq)
        /\ m.enabled /\ c = 0 => Becomes(m, n, c, FALSE, m.flag, TRUE)
        /\ m.enabled /\ c # 0 => Becomes(m, n, c, m.enabled, m.flag, m.irq)
    <2>1. c = (m.counter - 1) % Word
      OBVIOUS
    <2> HIDE DEF c
    <2> QED
      BY <1>3, <2>1 DEF Mapper065_clock, Raise, Becomes, CartRecord, Bits
  <1> HIDE DEF n
  <1>5. n \in CartRecord /\ n.board = m.board
    BY <1>4 DEF Becomes
  <1>6. /\ TicksLeft(m) = IF m.enabled THEN WrapZero(m.counter, Word) ELSE 0
        /\ TicksLeft(n) = IF n.enabled THEN WrapZero(n.counter, Word) ELSE 0
        /\ PeriodTicks(m) = 0 /\ PeriodTicks(n) = 0
    BY <1>5 DEF TicksLeft, PeriodTicks
  <1>7. TickStep(m, n)
    <2> HIDE DEF c
    <2> QED
      BY <1>1, <1>2, <1>4, <1>6 DEF TickStep, Becomes, WrapZero
  <1> QED
    BY <1>5, <1>7 DEF Ticks, Bounded, ByteBoards, n

LEMMA Clock067 ==
    ASSUME NEW m \in CartRecord, m.board = "067"
    PROVE  Ticks(m, Mapper067_clock(m))
  <1> DEFINE n == Mapper067_clock(m)
             c == (m.counter - 1) % Word
  <1>1. /\ Word \in Nat /\ Word >= 16 /\ m.counter \in 0 .. Word - 1
        /\ m.enabled \in BOOLEAN /\ m.flag \in BOOLEAN /\ m.irq \in BOOLEAN
    BY CartFields, CounterSizes
  <1>2. c = IF m.counter = 0 THEN Word - 1 ELSE m.counter - 1
    BY <1>1, WrapDown
  <1>3. c \in Words
    BY <1>1, <1>2 DEF Words
  <1>4. /\ ~m.enabled => Becomes(m, n, m.counter, m.enabled, m.flag, m.irq)
        /\ m.enabled /\ c = Word - 1 => Becomes(m, n, c, FALSE, m.flag, TRUE)
        /\ m.enabled /\ c # Word - 1 => Becomes(m, n, c, m.enabled, m.flag, m.irq)
    <2>1. c = (m.counter - 1) % Word
      OBVIOUS
    <2> HIDE DEF c
    <2> QED
      BY <1>3, <2>1 DEF Mapper067_clock, Raise, Becomes, CartRecord, Bits
  <1> HIDE DEF n
  <1>5. n \in CartRecord /\ n.board = m.board
    BY <1>4 DEF Becomes
  <1>6. /\ TicksLeft(m) = IF m.enabled THEN m.counter + 1 ELSE 0
        /\ TicksLeft(n) = IF n.enabled THEN n.counter + 1 ELSE 0
        /\ PeriodTicks(m) = 0 /\ PeriodTicks(n) = 0
    BY <1>5 DEF TicksLeft, PeriodTicks
  <1>7. TickStep(m, n)
    <2> HIDE DEF c
    <2> QED
      BY <1>1, <1>2, <1>4, <1>6 DEF TickStep, Becomes
  <1> QED
    BY <1>5, <1>7 DEF Ticks, Bounded, ByteBoards, n

LEMMA Clock069 ==
    ASSUME NEW m \in CartRecord, m.board = "069"
    PROVE  Ticks(m, Mapper069_clock(m))
  <1> DEFINE n == Mapper069_clock(m)
             c == (m.counter - 1) % Word
  <1>1. /\ Word \in Nat /\ Word >= 16 /\ m.counter \in 0 .. Word - 1
        /\ m.enabled \in BOOLEAN /\ m.flag \in BOOLEAN /\ m.irq \in BOOLEAN
    BY CartFields, CounterSizes
  <1>2. c = IF m.counter = 0 THEN Word - 1 ELSE m.counter - 1
    BY <1>1, WrapDown
  <1>3. c \in Words
    BY <1>1, <1>2 DEF Words
  <1>4. /\ ~m.flag => Becomes(m, n, m.counter, m.enabled, m.flag, m.irq)
        /\ m.flag /\ c = Word - 1 /\ m.enabled => Becomes(m, n, c, m.enabled, m.flag, TRUE)
        /\ m.flag /\ ~(c = Word - 1 /\ m.enabled) => Becomes(m, n, c, m.enabled, m.flag, m.irq)
    <2>1. c = (m.counter - 1) % Word
      OBVIOUS
    <2> HIDE DEF c
    <2> QED
      BY <1>3, <2>1 DEF Mapper069_clock, Raise, Becomes, CartRecord, Bits
  <1> HIDE DEF n
  <1>5. n \in CartRecord /\ n.board = m.board
    BY <1>4 DEF Becomes
  <1>6. /\ TicksLeft(m) = IF m.enabled /\ m.flag THEN m.counter + 1 ELSE 0
        /\ TicksLeft(n) = IF n.enabled /\ n.flag THEN n.counter + 1 ELSE 0
        /\ PeriodTicks(m) = Word /\ PeriodTicks(n) = Word
    BY <1>5 DEF TicksLeft, PeriodTicks
  <1>7. TickStep(m, n)
    <2> HIDE DEF c
    <2> QED
      BY <1>1, <1>2, <1>4, <1>6 DEF TickStep, Becomes
  <1> QED
    BY <1>5, <1>7 DEF Ticks, Bounded, ByteBoards, n

LEMMA Clock019 ==
    ASSUME NEW m \in CartRecord, m.board = "019"
    PROVE  Ticks(m, Mapper019_clock(m))
  <1> DEFINE n == Mapper019_clock(m)
             c == m.counter + 1
             off == m.counter < Half \/ m.counter = Word - 1
  <1>1. /\ Word \in Nat /\ Half \in Nat /\ Half >= 8 /\ 2 * Half <= Word
        /\ m.counter \in 0 .. Word - 1
        /\ m.enabled \in BOOLEAN /\ m.flag \in BOOLEAN /\ m.irq \in BOOLEAN
    BY CartFields, CounterSizes, Levels
  <1>2. ~off => c \in Words
    BY <1>1 DEF Words
  <1>3. /\ off => Becomes(m, n, m.counter, m.enabled, m.flag, m.irq)
        /\ ~off /\ c = Word - 1 => Becomes(m, n, c, m.enabled, m.flag, TRUE)
        /\ ~off /\ c # Word - 1 => Becomes(m, n, c, m.enabled, m.flag, m.irq)
    <2> DEFINE d == [m EXCEPT !.counter = c]
    <2>1. /\ d.counter = c
          /\ n = CASE off -> m
                   [] d.counter = Word - 1 -> Raise(d)
                   [] OTHER -> d
      BY DEF Mapper019_clock, CartRecord
    <2>2. n = IF off THEN m ELSE IF c = Word - 1 THEN Raise(d) ELSE d
      <3> HIDE DEF d, off, c, n
      <3>1. ~(off /\ c = Word - 1)
        BY <1>1 DEF off, c
      <3> QED
        BY <2>1, <3>1
    <2> HIDE DEF n, off, c
    <2> QED
      BY <1>2, <2>2 DEF Raise, Becomes, CartRecord, Bits
  <1> HIDE DEF n
  <1>4. n \in CartRecord /\ n.board = m.board
    BY <1>3 DEF Becomes
  <1>5. /\ TicksLeft(m) = IF m.counter >= Half THEN Word - 1 - m.counter ELSE 0
        /\ TicksLeft(n) = IF n.counter >= Half THEN Word - 1 - n.counter ELSE 0
        /\ PeriodTicks(m) = 0 /\ PeriodTicks(n) = 0
    BY <1>4 DEF TicksLeft, PeriodTicks
  <1>6. TickStep(m, n)
    BY <1>1, <1>3, <1>5 DEF TickStep, Becomes
  <1> QED
    BY <1>4, <1>6 DEF Ticks, Bounded, ByteBoards, n

LEMMA Clock40 ==
    ASSUME NEW m \in CartRecord, m.board = "40"
    PROVE  Ticks(m, Mapper40_clock(m))
  <1> DEFINE n == Mapper40_clock(m)
             c == m.counter - 1
  <1>1. /\ Word \in Nat /\ m.counter \in 0 .. Word - 1
        /\ m.enabled \in BOOLEAN /\ m.flag \in BOOLEAN /\ m.irq \in BOOLEAN
    BY CartFields, CounterSizes
  <1>2. m.counter # 0 => c \in Words
    BY <1>1 DEF Words
  <1>3. /\ m.counter = 0 => Becomes(m, n, m.counter, m.enabled, m.flag, m.irq)
        /\ m.counter = 1 => Becomes(m, n, c, m.enabled, m.flag, TRUE)
        /\ m.counter # 0 /\ m.counter # 1 => Becomes(m, n, c, m.enabled, m.flag, m.irq)
    <2> DEFINE d == [m EXCEPT !.counter = c]
    <2>1. n = CASE m.counter = 0 -> m [] m.counter = 1 -> Raise(d) [] OTHER -> d
      BY DEF Mapper40_clock
    <2>2. m.counter # 0 => /\ Becomes(m, d, c, m.enabled, m.flag, m.irq)
                           /\ Becomes(m, Raise(d), c, m.enabled, m.flag, TRUE)
      <3> HIDE DEF c
      <3> QED
        BY <1>2 DEF Raise, Becomes, CartRecord, Bits
    <2>3. Becomes(m, m, m.counter, m.enabled, m.flag, m.irq)
      BY DEF Becomes
    <2>4. 0 # 1
      OBVIOUS
    <2> HIDE DEF n, d, c
    <2>5. CASE m.counter = 0
      BY <2>1, <2>3, <2>4, <2>5, Zenon
    <2>6. CASE m.counter = 1
      BY <2>1, <2>2, <2>4, <2>6, Zenon
    <2>7. CASE m.counter # 0 /\ m.counter # 1
      BY <2>1, <2>2, <2>7, Zenon
    <2> QED
      BY <2>5, <2>6, <2>7
  <1> HIDE DEF n
  <1>4. n \in CartRecord /\ n.board = m.board
    BY <1>1, <1>3 DEF Becomes
  <1>5. /\ TicksLeft(m) = m.counter /\ TicksLeft(n) = n.counter
        /\ PeriodTicks(m) = 0 /\ PeriodTicks(n) = 0
    BY <1>4 DEF TicksLeft, PeriodTicks
  <1>6. TickStep(m, n)
    BY <1>1, <1>3, <1>5 DEF TickStep, Becomes
  <1> QED
    BY <1>4, <1>6 DEF Ticks, Bounded, ByteBoards, n

LEMMA Clock43 ==
    ASSUME NEW m \in CartRecord, m.board = "43", Bounded(m)
    PROVE  Ticks(m, Mapper43_clock(m))
  <1> DEFINE n == Mapper43_clock(m)
             c == m.counter + 1
  <1>1. /\ Word \in Nat /\ FirstCount \in Nat /\ FirstCount < Word
        /\ m.counter \in 0 .. Word - 1 /\ (m.enabled => m.counter < FirstCount)
        /\ m.enabled \in BOOLEAN /\ m.flag \in BOOLEAN /\ m.irq \in BOOLEAN
    BY CartFields, CounterSizes DEF Bounded
  <1>2. m.enabled => c \in Words
    BY <1>1 DEF Words
  <1>3. /\ ~m.enabled => Becomes(m, n, m.counter, m.enabled, m.flag, m.irq)
        /\ m.enabled /\ c >= FirstCount => Becomes(m, n, c, FALSE, m.flag, TRUE)
        /\ m.enabled /\ ~(c >= FirstCount) => Becomes(m, n, c, m.enabled, m.flag, m.irq)
    <2>1. c = m.counter + 1
      OBVIOUS
    <2> HIDE DEF c
    <2> QED
      BY <1>2, <2>1 DEF Mapper43_clock, Raise, Becomes, CartRecord, Bits
  <1> HIDE DEF n
  <1>4. n \in CartRecord /\ n.board = m.board
    BY <1>3 DEF Becomes
  <1>5. /\ TicksLeft(m) = IF m.enabled THEN FirstCount - m.counter ELSE 0
        /\ TicksLeft(n) = IF n.enabled THEN FirstCount - n.counter ELSE 0
        /\ PeriodTicks(m) = 0 /\ PeriodTicks(n) = 0
    BY <1>4 DEF TicksLeft, PeriodTicks
  <1>6. TickStep(m, n)
    BY <1>1, <1>3, <1>5 DEF TickStep, Becomes
  <1>7. n.enabled => n.counter < FirstCount
    <2>1. m.enabled /\ c \in Int /\ ~(c >= FirstCount) => c < FirstCount
      BY <1>1
    <2>2. c \in Int
      BY <1>1
    <2> HIDE DEF c
    <2> QED
      BY <1>1, <1>3, <2>1, <2>2 DEF Becomes
  <1> QED
    BY <1>4, <1>6, <1>7 DEF Ticks, Bounded, ByteBoards, n

LEMMA Clock50 ==
    ASSUME NEW m \in CartRecord, m.board = "50"
    PROVE  Ticks(m, Mapper50_clock(m))
  <1> DEFINE n == Mapper50_clock(m)
             c == (m.counter + 1) % Word
  <1>1. /\ Word \in Nat /\ Word >= 16 /\ FirstCount \in 1 .. Word - 1
        /\ m.counter \in 0 .. Word - 1
        /\ m.enabled \in BOOLEAN /\ m.flag \in BOOLEAN /\ m.irq \in BOOLEAN
    BY CartFields, CounterSizes
  <1>2. c = IF m.counter = Word - 1 THEN 0 ELSE m.counter + 1
    BY <1>1, WrapUp
  <1>3. c \in Words
    BY <1>1, <1>2 DEF Words
  <1>4. /\ ~m.enabled => Becomes(m, n, m.counter, m.enabled, m.flag, m.irq)
        /\ m.enabled /\ c = FirstCount => Becomes(m, n, c, FALSE, m.flag, TRUE)
        /\ m.enabled /\ c # FirstCount => Becomes(m, n, c, m.enabled, m.flag, m.irq)
    <2>1. c = (m.counter + 1) % Word
      OBVIOUS
    <2> HIDE DEF c
    <2> QED
      BY <1>3, <2>1 DEF Mapper50_clock, Raise, Becomes, CartRecord, Bits
  <1> HIDE DEF n, c
  <1>5. n \in CartRecord /\ n.board = m.board /\ n.counter \in 0 .. Word - 1
    BY <1>4, CartFields DEF Becomes
  <1>6. /\ PeriodTicks(m) = 0 /\ PeriodTicks(n) = 0
        /\ TicksLeft(m) = IF m.enabled
                          THEN WrapZero((FirstCount - m.counter) % Word, Word) ELSE 0
        /\ TicksLeft(n) = IF n.enabled
                          THEN WrapZero((FirstCount - n.counter) % Word, Word) ELSE 0
    BY <1>5 DEF TicksLeft, PeriodTicks
  <1>7. \A k \in 0 .. Word - 1 :
            WrapZero((FirstCount - k) % Word, Word) =
                IF k < FirstCount THEN FirstCount - k ELSE FirstCount - k + Word
    BY <1>1, WrapBetween DEF WrapZero
  <1>8. /\ TicksLeft(m) = IF ~m.enabled THEN 0
                          ELSE IF m.counter < FirstCount THEN FirstCount - m.counter
                          ELSE FirstCount - m.counter + Word
        /\ TicksLeft(n) = IF ~n.enabled THEN 0
                          ELSE IF n.counter < FirstCount THEN FirstCount - n.counter
                          ELSE FirstCount - n.counter + Word
    BY <1>1, <1>5, <1>6, <1>7
  <1>9. TickStep(m, n)
    <2>1. PeriodTicks(m) = 0 /\ PeriodTicks(n) = 0
      BY <1>6
    <2> QED
      BY <1>1, <1>2, <1>4, <1>8, <2>1 DEF TickStep, Becomes
  <1> QED
    BY <1>5, <1>9 DEF Ticks, Bounded, ByteBoards, n

LEMMA Clock42 ==
    ASSUME NEW m \in CartRecord, m.board = "42", Bounded(m)
    PROVE  Ticks(m, Mapper42_clock(m))
  <1> DEFINE n == Mapper42_clock(m)
             c == (m.counter + 1) % Half
  <1>1. /\ Half \in Nat /\ Half >= 8 /\ LevelStart \in 1 .. Half - 1
        /\ m.counter \in 0 .. Half - 1 /\ Word \in Nat /\ Half < Word
        /\ m.enabled \in BOOLEAN /\ m.flag \in BOOLEAN /\ m.irq \in BOOLEAN
        /\ m.irq <=> m.counter >= LevelStart
    BY CartFields, CounterSizes, Levels DEF Bounded
  <1>2. c = IF m.counter = Half - 1 THEN 0 ELSE m.counter + 1
    BY <1>1, WrapUp
  <1>3. c \in Words /\ c \in 0 .. Half - 1
    BY <1>1, <1>2 DEF Words
  <1>4. /\ ~m.enabled => Becomes(m, n, m.counter, m.enabled, m.flag, m.irq)
        /\ m.enabled /\ c >= LevelStart => Becomes(m, n, c, m.enabled, m.flag, TRUE)
        /\ m.enabled /\ ~(c >= LevelStart) => Becomes(m, n, c, m.enabled, m.flag, FALSE)
    <2>1. c = (m.counter + 1) % Half
      OBVIOUS
    <2> HIDE DEF c
    <2> QED
      BY <1>3, <2>1 DEF Mapper42_clock, Raise, Clear, Becomes, CartRecord, Bits
  <1> HIDE DEF n, c
  <1>5. n \in CartRecord /\ n.board = m.board /\ n.counter \in 0 .. Half - 1
    BY <1>1, <1>3, <1>4 DEF Becomes
  <1>6. /\ PeriodTicks(m) = Half /\ PeriodTicks(n) = Half
        /\ TicksLeft(m) = IF m.enabled
                          THEN WrapZero((LevelStart - m.counter) % Half, Half) ELSE 0
        /\ TicksLeft(n) = IF n.enabled
                          THEN WrapZero((LevelStart - n.counter) % Half, Half) ELSE 0
    BY <1>5 DEF TicksLeft, PeriodTicks
  <1>7. \A k \in 0 .. Half - 1 :
            WrapZero((LevelStart - k) % Half, Half) =
                IF k < LevelStart THEN LevelStart - k ELSE LevelStart - k + Half
    BY <1>1, WrapBetween DEF WrapZero
  <1>8. /\ TicksLeft(m) = IF ~m.enabled THEN 0
                          ELSE IF m.counter < LevelStart THEN LevelStart - m.counter
                          ELSE LevelStart - m.counter + Half
        /\ TicksLeft(n) = IF ~n.enabled THEN 0
                          ELSE IF n.counter < LevelStart THEN LevelStart - n.counter
                          ELSE LevelStart - n.counter + Half
    BY <1>1, <1>5, <1>6, <1>7
  <1>9. TickStep(m, n)
    <2>1. PeriodTicks(m) = Half /\ PeriodTicks(n) = Half
      BY <1>6
    <2> QED
      BY <1>1, <1>2, <1>4, <1>8, <2>1 DEF TickStep, Becomes
  <1>10. n.counter < Half /\ (n.irq <=> n.counter >= LevelStart)
    BY <1>1, <1>4, <1>5 DEF Becomes
  <1> QED
    BY <1>5, <1>9, <1>10 DEF Ticks, Bounded, ByteBoards, n

LEMMA Edge035 ==
    ASSUME NEW m \in CartRecord, m.board = "035", Bounded(m)
    PROVE  Ticks(m, Mapper035_edge(m))
  <1> DEFINE n == Mapper035_edge(m)
             c == (m.counter - 1) % Byte
  <1>1. /\ Byte \in Nat /\ Byte >= 4 /\ Word \in Nat /\ Word >= 4 * Byte
        /\ m.counter \in 0 .. Byte - 1 /\ m.reload \in Bytes
        /\ m.enabled \in BOOLEAN /\ m.flag \in BOOLEAN /\ m.irq \in BOOLEAN
    BY CartFields, CounterSizes DEF Bounded, ByteBoards, Bytes
  <1>2. c = IF m.counter = 0 THEN Byte - 1 ELSE m.counter - 1
    BY <1>1, WrapDown
  <1>3. c \in Words /\ c \in Bytes /\ m.counter \in Bytes
    BY <1>1, <1>2 DEF Words, Bytes
  <1>4. /\ ~m.enabled => Becomes(m, n, m.counter, m.enabled, m.flag, m.irq)
        /\ m.enabled /\ c = 0 => Becomes(m, n, c, FALSE, m.flag, TRUE)
        /\ m.enabled /\ c # 0 => Becomes(m, n, c, m.enabled, m.flag, m.irq)
    <2>1. c = (m.counter - 1) % Byte
      OBVIOUS
    <2> HIDE DEF c
    <2> QED
      BY <1>3, <2>1 DEF Mapper035_edge, Raise, Becomes, CartRecord, Bits
  <1> HIDE DEF n, c
  <1>5. /\ n \in CartRecord /\ n.board = m.board
        /\ n.counter \in Bytes /\ n.reload \in Bytes
    BY <1>1, <1>3, <1>4 DEF Becomes
  <1>6. /\ TicksLeft(m) = IF m.enabled THEN WrapZero(m.counter, Byte) ELSE 0
        /\ TicksLeft(n) = IF n.enabled THEN WrapZero(n.counter, Byte) ELSE 0
        /\ PeriodTicks(m) = 0 /\ PeriodTicks(n) = 0
    BY <1>5 DEF TicksLeft, PeriodTicks
  <1>7. TickStep(m, n)
    BY <1>1, <1>2, <1>4, <1>6 DEF TickStep, Becomes, WrapZero
  <1> QED
    BY <1>5, <1>7 DEF Ticks, Bounded, n

LEMMA Edge117 ==
    ASSUME NEW m \in CartRecord, m.board = "117", Bounded(m)
    PROVE  Ticks(m, Mapper117_edge(m))
  <1> DEFINE n == Mapper117_edge(m)
             c == m.counter - 1
             on == m.enabled /\ m.flag /\ m.counter # 0
  <1>1. /\ Byte \in Nat /\ Word \in Nat /\ Word >= 4 * Byte
        /\ m.counter \in 0 .. Byte - 1 /\ m.reload \in Bytes
        /\ m.enabled \in BOOLEAN /\ m.flag \in BOOLEAN /\ m.irq \in BOOLEAN
    BY CartFields, CounterSizes DEF Bounded, ByteBoards, Bytes
  <1>2. /\ m.counter # 0 => c \in Words /\ c \in Bytes
        /\ m.counter \in Bytes
    BY <1>1 DEF Words, Bytes
  <1>3. /\ ~on => Becomes(m, n, m.counter, m.enabled, m.flag, m.irq)
        /\ on /\ m.counter = 1 => Becomes(m, n, c, m.enabled, FALSE, TRUE)
        /\ on /\ m.counter # 1 => Becomes(m, n, c, m.enabled, m.flag, m.irq)
    <2> DEFINE d == [m EXCEPT !.counter = c]
               e == Raise([d EXCEPT !.flag = FALSE])
    <2>1. n = CASE ~on -> m [] on /\ m.counter = 1 -> e [] OTHER -> d
      <3>1. n = CASE ~m.enabled \/ ~m.flag \/ m.counter = 0 -> m
                  [] m.enabled /\ m.flag /\ m.counter = 1 -> e
                  [] OTHER -> d
        BY DEF Mapper117_edge
      <3> HIDE DEF n, d, e
      <3> QED
        BY <1>1, <3>1
    <2>2. m.counter # 0 => /\ Becomes(m, d, c, m.enabled, m.flag, m.irq)
                           /\ Becomes(m, e, c, m.enabled, FALSE, TRUE)
      <3> HIDE DEF c
      <3> QED
        BY <1>2 DEF Raise, Becomes, CartRecord, Bits
    <2>3. Becomes(m, m, m.counter, m.enabled, m.flag, m.irq)
      BY DEF Becomes
    <2>4. on => m.counter # 0
      OBVIOUS
    <2> HIDE DEF n, d, e, c, on
    <2> QED
      BY <2>1, <2>2, <2>3, <2>4
  <1> HIDE DEF n
  <1>4. /\ n \in CartRecord /\ n.board = m.board
        /\ n.counter \in Bytes /\ n.reload \in Bytes
    BY <1>1, <1>2, <1>3 DEF Becomes
  <1>5. /\ TicksLeft(m) = IF m.enabled /\ m.flag THEN m.counter ELSE 0
        /\ TicksLeft(n) = IF n.enabled /\ n.flag THEN n.counter ELSE 0
        /\ PeriodTicks(m) = 0 /\ PeriodTicks(n) = 0
    BY <1>4 DEF TicksLeft, PeriodTicks
  <1>6. TickStep(m, n)
    BY <1>1, <1>3, <1>5 DEF TickStep, Becomes
  <1> QED
    BY <1>4, <1>6 DEF Ticks, Bounded, n

LEMMA Clock018 ==
    ASSUME NEW m \in CartRecord, m.board = "018"
    PROVE  Ticks(m, Mapper018_clock(m))
  <1> DEFINE n == Mapper018_clock(m)
             v == MaskValues(m.size)
             r == m.counter % v
             x == (r - 1) % Word
             y == x % v
             c == m.counter - r + y
  <1>1. /\ Word \in Nat \ {0} /\ m.counter \in 0 .. Word - 1 /\ m.counter \in Int
        /\ m.size \in 0 .. 3
        /\ m.enabled \in BOOLEAN /\ m.flag \in BOOLEAN /\ m.irq \in BOOLEAN
    BY CartFields, CounterSizes
  <1>2. PICK k \in Nat \ {0} : v \in Nat /\ v >= 2 /\ Word = v * k
    BY <1>1, Masks
  <1>3. v \in Nat \ {0}
    BY <1>2
  <1>4. r \in 0 .. v - 1 /\ v <= Word
    <2>1. v <= v * k
      BY <1>2
    <2> QED
      BY <1>1, <1>2, <1>3, <2>1, ModRange
  <1>5. x = IF r = 0 THEN Word - 1 ELSE r - 1
    <2>1. r \in 0 .. Word - 1
      BY <1>1, <1>3, <1>4
    <2> HIDE DEF r
    <2> QED
      BY <1>1, <2>1, WrapDown
  <1>6. y = IF r = 0 THEN v - 1 ELSE r - 1
    <2> HIDE DEF r, v
    <2>1. CASE r = 0
      <3>1. x = (v * (k - 1)) + (v - 1)
        <4>1. x = (v * k) - 1
          BY <1>2, <1>5, <2>1
        <4> HIDE DEF x
        <4> QED
          BY <1>2, <1>3, <4>1
      <3>2. ((v * (k - 1)) + (v - 1)) % v = v - 1
        BY <1>2, <1>3, ModPlus
      <3> QED
        BY <2>1, <3>1, <3>2
    <2>2. CASE r # 0
      <3>1. x = r - 1 /\ r - 1 \in 0 .. v - 1
        BY <1>3, <1>4, <1>5, <2>2
      <3> HIDE DEF x
      <3> QED
        BY <1>3, <2>2, <3>1, ModSmall
    <2> QED
      BY <2>1, <2>2
  <1>7. c \in Words /\ c % v = y /\ y \in 0 .. v - 1
    <2>1. y \in 0 .. v - 1
      <3> HIDE DEF y, r, v
      <3> QED
        BY <1>3, <1>4, <1>6
    <2> HIDE DEF y, v
    <2>2. c % v = y
      BY <1>1, <1>3, <2>1, LowReplaced
    <2>3. m.counter \in 0 .. (v * k) - 1
      BY <1>1, <1>2
    <2>4. c \in 0 .. (v * k) - 1
      BY <1>2, <1>3, <2>1, <2>3, LowReplacedRange
    <2> QED
      BY <1>2, <2>1, <2>2, <2>4 DEF Words
  <1>8. /\ ~m.enabled => Becomes(m, n, m.counter, m.enabled, m.flag, m.irq)
        /\ m.enabled /\ x = 0 => Becomes(m, n, c, m.enabled, m.flag, TRUE)
        /\ m.enabled /\ x # 0 => Becomes(m, n, c, m.enabled, m.flag, m.irq)
    <2> DEFINE d == [m EXCEPT !.counter = c]
    <2>1. n = CASE ~m.enabled -> m [] m.enabled /\ x = 0 -> Raise(d) [] OTHER -> d
      BY DEF Mapper018_clock
    <2> HIDE DEF n, x, c
    <2> QED
      BY <1>7, <2>1 DEF Raise, Becomes, CartRecord, Bits
  <1> HIDE DEF n, c
  <1>9. n \in CartRecord /\ n.board = m.board /\ n.size = m.size /\ n.enabled = m.enabled
    BY <1>8 DEF Becomes
  <1>10. /\ TicksLeft(m) = IF m.enabled THEN WrapZero(r, v) ELSE 0
         /\ TicksLeft(n) = IF m.enabled THEN WrapZero(n.counter % v, v) ELSE 0
         /\ PeriodTicks(m) = v /\ PeriodTicks(n) = v
    BY <1>9 DEF TicksLeft, PeriodTicks
  <1>11. m.enabled => n.counter % v = y
    BY <1>7, <1>8 DEF Becomes
  <1>12. x = 0 <=> r = 1
    <2> HIDE DEF x, r, v
    <2> QED
      BY <1>1, <1>3, <1>4, <1>5, CounterSizes
  <1>13. /\ m.enabled /\ r = 1 => n.irq = TRUE
         /\ ~m.enabled \/ r # 1 => n.irq = m.irq
    <2> HIDE DEF x, r
    <2> QED
      BY <1>1, <1>8, <1>12 DEF Becomes
  <1>14. TickStep(m, n)
    <2> HIDE DEF x, y, r, v
    <2>1. /\ TicksLeft(m) = IF m.enabled THEN (IF r = 0 THEN v ELSE r) ELSE 0
          /\ TicksLeft(n) = IF m.enabled THEN (IF y = 0 THEN v ELSE y) ELSE 0
          /\ PeriodTicks(m) = v /\ PeriodTicks(n) = v
      BY <1>10, <1>11 DEF WrapZero
    <2> QED
      BY <1>1, <1>2, <1>4, <1>6, <1>13, <2>1 DEF TickStep
  <1> QED
    BY <1>9, <1>14 DEF Ticks, Bounded, ByteBoards, n

LEMMA Clock073 ==
    ASSUME NEW m \in CartRecord, m.board = "073"
    PROVE  Ticks(m, Mapper073_clock(m))
  <1> DEFINE n == Mapper073_clock(m)
             low == (m.counter + 1) % Byte
             word == (m.counter + 1) % Word
             r == m.counter % Byte
             s == m.reload % Byte
             i == SetLow(m.counter, s)
             j == SetLow(m.counter, low)
  <1>1. /\ Word \in Nat \ {0} /\ Byte \in Nat \ {0} /\ Byte >= 4
        /\ m.counter \in 0 .. Word - 1 /\ m.reload \in 0 .. Word - 1
        /\ m.counter \in Int /\ m.reload \in Int
        /\ m.enabled \in BOOLEAN /\ m.flag \in BOOLEAN /\ m.irq \in BOOLEAN
    BY CartFields, CounterSizes
  <1>2. /\ word = IF m.counter = Word - 1 THEN 0 ELSE m.counter + 1
        /\ low = IF r = Byte - 1 THEN 0 ELSE r + 1
        /\ r \in 0 .. Byte - 1 /\ s \in 0 .. Byte - 1 /\ low \in 0 .. Byte - 1
    <2>1. word = IF m.counter = Word - 1 THEN 0 ELSE m.counter + 1
      BY <1>1, WrapUp
    <2>2. low = IF r = Byte - 1 THEN 0 ELSE r + 1
      BY <1>1, LowUp
    <2>3. m.counter + 1 \in Int
      BY <1>1
    <2>4. r \in 0 .. Byte - 1 /\ s \in 0 .. Byte - 1 /\ low \in 0 .. Byte - 1
      BY <1>1, <2>3, ModRange
    <2> QED
      BY <2>1, <2>2, <2>4
  <1> HIDE DEF low, word, r, s
  <1>3. word \in Words /\ m.reload \in Words /\ m.counter \in Words
    BY <1>1, <1>2 DEF Words
  <1>4. i \in Words /\ j \in Words /\ i % Byte = s /\ j % Byte = low
    BY <1>2, <1>3, LowSet DEF Bytes
  <1>5. /\ ~m.enabled => Becomes(m, n, m.counter, m.enabled, m.flag, m.irq)
        /\ m.enabled /\ m.flag /\ low = 0 => Becomes(m, n, i, m.enabled, m.flag, TRUE)
        /\ m.enabled /\ m.flag /\ low # 0 => Becomes(m, n, j, m.enabled, m.flag, m.irq)
        /\ m.enabled /\ ~m.flag /\ word = 0
              => Becomes(m, n, m.reload, m.enabled, m.flag, TRUE)
        /\ m.enabled /\ ~m.flag /\ word # 0
              => Becomes(m, n, word, m.enabled, m.flag, m.irq)
    <2>1. n = CASE ~m.enabled -> m
                [] m.enabled /\ m.flag /\ low = 0 -> Raise([m EXCEPT !.counter = i])
                [] m.enabled /\ m.flag /\ low # 0 -> [m EXCEPT !.counter = j]
                [] m.enabled /\ ~m.flag /\ word = 0 -> Raise([m EXCEPT !.counter = m.reload])
                [] OTHER -> [m EXCEPT !.counter = word]
      BY DEF Mapper073_clock, low, word, s
    <2> HIDE DEF n, i, j
    <2>2. \A w \in Words :
             /\ Becomes(m, [m EXCEPT !.counter = w], w, m.enabled, m.flag, m.irq)
             /\ Becomes(m, Raise([m EXCEPT !.counter = w]), w, m.enabled, m.flag, TRUE)
      BY DEF Raise, Becomes, CartRecord, Bits
    <2>3. Becomes(m, m, m.counter, m.enabled, m.flag, m.irq)
      BY DEF Becomes
    <2> QED
      BY <1>3, <1>4, <2>1, <2>2, <2>3
  <1> HIDE DEF n, i, j
  <1>6. /\ n \in CartRecord /\ n.board = m.board /\ n.enabled = m.enabled
        /\ n.flag = m.flag /\ n.reload = m.reload
    BY <1>1, <1>5 DEF Becomes
  <1>7. \A k \in {m, n} :
           /\ TicksLeft(k) = IF ~k.enabled THEN 0
                             ELSE IF k.flag THEN Byte - (k.counter % Byte)
                             ELSE Word - k.counter
           /\ PeriodTicks(k) = IF k.flag THEN Byte - (k.reload % Byte) ELSE Word - k.reload
    BY <1>1, <1>6 DEF TicksLeft, PeriodTicks
  <1>8. PeriodTicks(m) \in Nat /\ PeriodTicks(n) = PeriodTicks(m)
    BY <1>1, <1>2, <1>6, <1>7 DEF s
  <1> SUFFICES TickStep(m, n)
    BY <1>6 DEF Ticks, Bounded, ByteBoards, n
  <1>9. CASE ~m.enabled
    <2>1. TicksLeft(m) = 0 /\ TicksLeft(n) = 0 /\ n.irq = m.irq
      BY <1>5, <1>6, <1>7, <1>9 DEF Becomes
    <2> QED
      BY <1>8, <2>1 DEF TickStep
  <1>10. CASE m.enabled /\ m.flag
    <2>1. /\ TicksLeft(m) = Byte - r /\ TicksLeft(n) = Byte - (n.counter % Byte)
          /\ PeriodTicks(m) = Byte - s
      BY <1>6, <1>7, <1>10 DEF r, s
    <2>2. CASE low = 0
      <3>1. n.counter % Byte = s /\ n.irq /\ r = Byte - 1
        <4>1. Becomes(m, n, i, m.enabled, m.flag, TRUE)
          BY <1>5, <1>10, <2>2
        <4>2. r = Byte - 1
          BY <1>1, <1>2, <2>2
        <4> QED
          BY <1>4, <4>1, <4>2 DEF Becomes
      <3> QED
        BY <1>1, <1>2, <1>8, <2>1, <3>1 DEF TickStep
    <2>3. CASE low # 0
      <3>1. n.counter % Byte = r + 1 /\ n.irq = m.irq /\ r # Byte - 1
        BY <1>1, <1>2, <1>4, <1>5, <1>10, <2>3 DEF Becomes
      <3> QED
        BY <1>1, <1>2, <1>8, <2>1, <3>1 DEF TickStep
    <2> QED
      BY <2>2, <2>3
  <1>11. CASE m.enabled /\ ~m.flag
    <2>1. /\ TicksLeft(m) = Word - m.counter /\ TicksLeft(n) = Word - n.counter
          /\ PeriodTicks(m) = Word - m.reload
      BY <1>6, <1>7, <1>11
    <2>2. CASE word = 0
      <3>1. n.counter = m.reload /\ n.irq /\ m.counter = Word - 1
        <4>1. Becomes(m, n, m.reload, m.enabled, m.flag, TRUE)
          BY <1>5, <1>11, <2>2
        <4>2. m.counter = Word - 1
          BY <1>1, <1>2, <2>2
        <4> QED
          BY <4>1, <4>2 DEF Becomes
      <3> QED
        BY <1>1, <1>8, <2>1, <3>1 DEF TickStep
    <2>3. CASE word # 0
      <3>1. n.counter = m.counter + 1 /\ n.irq = m.irq /\ m.counter # Word - 1
        BY <1>1, <1>2, <1>5, <1>11, <2>3 DEF Becomes
      <3> QED
        BY <1>1, <1>8, <2>1, <3>1 DEF TickStep
    <2> QED
      BY <2>2, <2>3
  <1> QED
    BY <1>1, <1>9, <1>10, <1>11

LEMMA Edge004 ==
    ASSUME NEW m \in CartRecord, m.board \in {"004", "004A"}, Bounded(m)
    PROVE  Ticks(m, Mapper004_edge(m))
  <1> DEFINE n == Mapper004_edge(m)
             c == IF m.counter = 0 \/ m.flag THEN m.reload ELSE m.counter - 1
             due == c = 0 /\ (m.board = "004A" => m.counter > 0 \/ m.flag)
  <1>1. /\ Byte \in Nat /\ Word \in Nat /\ Word >= 4 * Byte
        /\ m.counter \in 0 .. Byte - 1 /\ m.reload \in 0 .. Byte - 1
        /\ m.enabled \in BOOLEAN /\ m.flag \in BOOLEAN /\ m.irq \in BOOLEAN
    BY CartFields, CounterSizes DEF Bounded, ByteBoards, Bytes
  <1>2. c \in Words /\ c \in Bytes /\ m.reload \in Bytes /\ c \in Int
    BY <1>1 DEF Words, Bytes
  <1>3. /\ due /\ m.enabled => Becomes(m, n, c, m.enabled, FALSE, TRUE)
        /\ ~(due /\ m.enabled) => Becomes(m, n, c, m.enabled, FALSE, m.irq)
    <2> DEFINE d == [m EXCEPT !.counter = c, !.flag = FALSE]
    <2>1. n = IF due /\ m.enabled THEN Raise(d) ELSE d
      BY DEF Mapper004_edge
    <2> HIDE DEF n, c, due
    <2> QED
      BY <1>2, <2>1 DEF Raise, Becomes, CartRecord, Bits
  <1> HIDE DEF n
  <1>4. /\ n \in CartRecord /\ n.board = m.board /\ n.enabled = m.enabled
        /\ n.flag = FALSE /\ n.reload = m.reload /\ n.counter = c
        /\ n.counter \in Bytes /\ n.reload \in Bytes
        /\ due /\ m.enabled => n.irq
        /\ ~(due /\ m.enabled) => n.irq = m.irq
    <2> HIDE DEF c, due
    <2> QED
      BY <1>1, <1>2, <1>3 DEF Becomes
  <1>5. \A k \in {m, n} :
           /\ TicksLeft(k) = IF ~k.enabled THEN 0
                             ELSE IF k.flag \/ k.counter = 0
                             THEN IF k.board = "004A" /\ ~k.flag /\ k.reload = 0
                                  THEN 0 ELSE k.reload + 1
                             ELSE k.counter
           /\ PeriodTicks(k) = IF k.board = "004A" /\ k.reload = 0 THEN 0 ELSE k.reload + 1
    BY <1>1, <1>4 DEF TicksLeft, PeriodTicks
  <1>6. /\ TicksLeft(m) = IF ~m.enabled THEN 0
                          ELSE IF m.flag \/ m.counter = 0
                          THEN IF m.board = "004A" /\ ~m.flag /\ m.reload = 0
                               THEN 0 ELSE m.reload + 1
                          ELSE m.counter
        /\ TicksLeft(n) = IF ~m.enabled THEN 0
                          ELSE IF c = 0
                          THEN IF m.board = "004A" /\ m.reload = 0
                               THEN 0 ELSE m.reload + 1
                          ELSE c
        /\ PeriodTicks(m) = IF m.board = "004A" /\ m.reload = 0 THEN 0 ELSE m.reload + 1
        /\ PeriodTicks(n) = PeriodTicks(m)
    <2> HIDE DEF c
    <2> QED
      BY <1>4, <1>5
  <1>7. m.board # "42"
    OBVIOUS
  <1>8. TickStep(m, n)
    <2>1. CASE ~m.enabled
      <3>1. TicksLeft(m) = 0 /\ TicksLeft(n) = 0 /\ n.irq = m.irq /\ PeriodTicks(m) \in Nat
        BY <1>1, <1>4, <1>6, <2>1
      <3> QED
        BY <3>1 DEF TickStep
    <2>2. CASE m.enabled /\ (m.flag \/ m.counter = 0) /\ m.reload = 0
      <3>1. c = 0 /\ (due <=> (m.board = "004A" => m.flag))
        BY <1>1, <2>2
      <3> HIDE DEF c, due
      <3>2. CASE m.board = "004A" /\ ~m.flag
        <4>1. TicksLeft(m) = 0 /\ TicksLeft(n) = 0 /\ PeriodTicks(m) = 0
          BY <1>6, <2>2, <3>1, <3>2
        <4>2. n.irq = m.irq
          BY <1>4, <3>1, <3>2
        <4> QED
          BY <4>1, <4>2 DEF TickStep
      <3>3. CASE m.board = "004" \/ m.flag
        <4>1. /\ TicksLeft(m) = 1 /\ TicksLeft(n) = PeriodTicks(m)
              /\ PeriodTicks(m) \in Nat /\ PeriodTicks(n) = PeriodTicks(m)
          BY <1>6, <2>2, <3>1, <3>3
        <4>2. n.irq
          BY <1>4, <2>2, <3>1, <3>3
        <4> QED
          BY <4>1, <4>2 DEF TickStep
      <3> QED
        BY <3>2, <3>3
    <2>3. CASE m.enabled /\ (m.flag \/ m.counter = 0) /\ m.reload # 0
      <3>1. c = m.reload /\ ~due
        BY <1>1, <2>3
      <3> HIDE DEF c, due
      <3> QED
        BY <1>1, <1>4, <1>6, <1>7, <2>3, <3>1 DEF TickStep
    <2>4. CASE m.enabled /\ ~m.flag /\ m.counter # 0
      <3>1. c = m.counter - 1 /\ (due <=> m.counter = 1)
        BY <1>1, <2>4
      <3> HIDE DEF c, due
      <3>2. /\ TicksLeft(m) = m.counter /\ PeriodTicks(n) = PeriodTicks(m)
            /\ TicksLeft(n) = IF m.counter = 1 THEN PeriodTicks(m) ELSE m.counter - 1
            /\ PeriodTicks(m) \in Nat
        BY <1>1, <1>6, <2>4, <3>1
      <3>3. CASE m.counter = 1
        <4>1. n.irq
          BY <1>4, <2>4, <3>1, <3>3
        <4> QED
          BY <3>2, <3>3, <4>1 DEF TickStep
      <3>4. CASE m.counter # 1
        <4>1. n.irq = m.irq
          BY <1>4, <3>1, <3>4
        <4> QED
          BY <1>1, <1>7, <2>4, <3>2, <3>4, <4>1 DEF TickStep
      <3> QED
        BY <3>3, <3>4
    <2> QED
      BY <1>1, <2>1, <2>2, <2>3, <2>4
  <1> QED
    BY <1>4, <1>8 DEF Ticks, Bounded, n

-----------------------------------------------------------------------------
(* VrcIrq divides the clock by scanlines: its countdown is in thirds.      *)

LEMMA Wrapped16 ==
    ASSUME NEW p \in Int
    PROVE  /\ Int16(p) \in Prescalers
           /\ p \in Prescalers => Int16(p) = p
  <1>1. PrescalerLimit \in Nat \ {0} /\ 2 * PrescalerLimit \in Nat \ {0}
    BY WidthAssumption
  <1>2. p + PrescalerLimit \in Int
    BY <1>1
  <1>3. (p + PrescalerLimit) % (2 * PrescalerLimit) \in 0 .. (2 * PrescalerLimit) - 1
    BY <1>1, <1>2, ModRange
  <1>4. Int16(p) \in Prescalers
    BY <1>1, <1>3 DEF Int16, Prescalers
  <1>5. ASSUME p \in Prescalers PROVE Int16(p) = p
    <2>1. p + PrescalerLimit \in 0 .. (2 * PrescalerLimit) - 1
      BY <1>1, <1>5 DEF Prescalers
    <2>2. (p + PrescalerLimit) % (2 * PrescalerLimit) = p + PrescalerLimit
      BY <1>1, <2>1, ModSmall
    <2> QED
      BY <1>1, <2>2 DEF Int16
  <1> QED
    BY <1>4, <1>5

(* What VrcIrq's clock does to its members.                                *)
VrcBecomes(m, n, counter, prescaler, irq) ==
    /\ n \in CartRecord /\ n.board = m.board /\ n.reload = m.reload
    /\ n.enabled = m.enabled /\ n.flag = m.flag
    /\ n.counter = counter /\ n.prescaler = prescaler /\ n.irq = irq

LEMMA ClockVrc ==
    ASSUME NEW m \in CartRecord, m.board = "VRC", Bounded(m)
    PROVE  LET n == VrcIrq_process_cpu_clock(m)
               p == Int16(m.prescaler - 3)
               q == Int16(p + ScanlineDots)
           IN  /\ n \in CartRecord /\ n.board = m.board /\ Bounded(n)
               /\ ~m.enabled => n = m
               /\ m.enabled /\ ~m.flag /\ p > 0
                     => VrcBecomes(m, n, m.counter, p, m.irq)
               /\ m.enabled /\ (m.flag \/ p <= 0) /\ m.counter = Byte - 1
                     => VrcBecomes(m, n, m.reload, q, TRUE)
               /\ m.enabled /\ (m.flag \/ p <= 0) /\ m.counter # Byte - 1
                     => VrcBecomes(m, n, m.counter + 1, q, m.irq)
  <1> DEFINE n == VrcIrq_process_cpu_clock(m)
             p == Int16(m.prescaler - 3)
             q == Int16(p + ScanlineDots)
             go == m.flag \/ p <= 0
  <1>1. /\ m.prescaler \in Int /\ Prescalers \subseteq Int
        /\ ScanlineDots \in Nat /\ Byte \in Nat /\ Word \in Nat /\ Word >= 4 * Byte
        /\ m.enabled \in BOOLEAN /\ m.flag \in BOOLEAN
        /\ m.counter \in 0 .. Byte - 1 /\ m.reload \in 0 .. Byte - 1
    BY CartFields, CounterSizes, WidthAssumption DEF Bounded, ByteBoards, Bytes, Prescalers
  <1>2. p \in Prescalers
    <2>1. m.prescaler - 3 \in Int
      BY <1>1
    <2> QED
      BY <2>1, Wrapped16
  <1>3. p \in Int
    BY <1>1, <1>2
  <1>4. q \in Prescalers
    <2> HIDE DEF p
    <2> QED
      BY <1>1, <1>3, Wrapped16
  <1>5. /\ m.counter \in Words /\ m.reload \in Words
        /\ m.counter # Byte - 1 => m.counter + 1 \in Words /\ m.counter + 1 \in Bytes
        /\ m.reload \in Bytes /\ m.counter \in Bytes
    BY <1>1 DEF Words, Bytes
  <1>6. ~go <=> ~m.flag /\ p > 0
    BY <1>3
  <1>7. n = CASE ~m.enabled -> m
              [] m.enabled /\ ~m.flag /\ p > 0 -> [m EXCEPT !.prescaler = p]
              [] m.enabled /\ go /\ m.counter = Byte - 1 ->
                     Raise([m EXCEPT !.counter = m.reload, !.prescaler = q])
              [] OTHER -> [m EXCEPT !.counter = m.counter + 1, !.prescaler = q]
    BY DEF VrcIrq_process_cpu_clock
  <1> HIDE DEF n, p, q, go
  <1>8. CASE ~m.enabled
    <2>1. n = m
      BY <1>7, <1>8
    <2> QED
      BY <1>8, <2>1 DEF n
  <1>9. CASE m.enabled /\ ~m.flag /\ p > 0
    <2>1. n = [m EXCEPT !.prescaler = p]
      BY <1>6, <1>7, <1>9
    <2>2. VrcBecomes(m, n, m.counter, p, m.irq)
      BY <1>2, <2>1 DEF VrcBecomes, CartRecord
    <2>3. n \in CartRecord /\ n.board = m.board /\ Bounded(n)
      BY <1>5, <2>2 DEF VrcBecomes, Bounded
    <2> QED
      BY <1>6, <1>9, <2>2, <2>3 DEF n, p, q, go
  <1>10. CASE m.enabled /\ go /\ m.counter = Byte - 1
    <2>1. n = Raise([m EXCEPT !.counter = m.reload, !.prescaler = q])
      BY <1>6, <1>7, <1>10
    <2>2. VrcBecomes(m, n, m.reload, q, TRUE)
      BY <1>4, <1>5, <2>1 DEF VrcBecomes, CartRecord, Raise, Bits
    <2>3. n \in CartRecord /\ n.board = m.board /\ Bounded(n)
      BY <1>5, <2>2 DEF VrcBecomes, Bounded
    <2> QED
      BY <1>6, <1>10, <2>2, <2>3 DEF n, p, q, go
  <1>11. CASE m.enabled /\ go /\ m.counter # Byte - 1
    <2>1. n = [m EXCEPT !.counter = m.counter + 1, !.prescaler = q]
      BY <1>6, <1>7, <1>11
    <2> DEFINE k == m.counter + 1
    <2>2. k \in Words /\ k \in Bytes /\ n = [m EXCEPT !.counter = k, !.prescaler = q]
      BY <1>5, <1>11, <2>1
    <2> HIDE DEF k
    <2>3. VrcBecomes(m, n, k, q, m.irq)
      BY <1>4, <2>2 DEF VrcBecomes, CartRecord
    <2>4. n \in CartRecord /\ n.board = m.board /\ Bounded(n)
      BY <1>5, <2>2, <2>3 DEF VrcBecomes, Bounded
    <2> QED
      BY <1>6, <1>11, <2>3, <2>4 DEF n, p, q, go, k
  <1> QED
    BY <1>1, <1>6, <1>8, <1>9, <1>10, <1>11

(* A scanline more or less on the counter.                                 *)
LEMMA Scanlines ==
    ASSUME NEW d \in Nat, d > 3, NEW b \in Nat, NEW c \in 0 .. b - 1
    PROVE  /\ d * (b - c) = d + d * (b - 1 - c) /\ d * (b - 1 - c) \in Nat
           /\ c # b - 1 => /\ d * (b - 1 - c) = d + d * (b - 1 - (c + 1))
                           /\ d * (b - 1 - (c + 1)) \in Nat
           /\ c = b - 1 => d * (b - 1 - c) = 0
  <1>1. b - c \in Nat /\ b - 1 - c \in Nat
    OBVIOUS
  <1>2. d * (b - c) = d + d * (b - 1 - c) /\ d * (b - 1 - c) \in Nat
    BY <1>1
  <1>3. c # b - 1 => /\ d * (b - 1 - c) = d + d * (b - 1 - (c + 1))
                     /\ d * (b - 1 - (c + 1)) \in Nat
    <2> SUFFICES ASSUME c # b - 1
                 PROVE  /\ d * (b - 1 - c) = d + d * (b - 1 - (c + 1))
                        /\ d * (b - 1 - (c + 1)) \in Nat
      OBVIOUS
    <2>1. b - 1 - (c + 1) \in Nat /\ b - 1 - c = (b - 1 - (c + 1)) + 1
      OBVIOUS
    <2> QED
      BY <2>1
  <1>4. c = b - 1 => d * (b - 1 - c) = 0
    OBVIOUS
  <1> QED
    BY <1>2, <1>3, <1>4

(* The line and the countdown of a step of either kind of timer.           *)
Hold(m) == IF m.board = "42" THEN 3 * (Half - LevelStart) ELSE 0

CountsDown(m, n) ==
    \/ /\ TimeLeft(m) = 0 /\ TimeLeft(n) = 0 /\ TimePeriod(n) = TimePeriod(m)
       /\ n.irq = m.irq
    \/ TimeLeft(m) = -1 /\ n.irq \in {m.irq, TRUE}
    \/ /\ TimeLeft(m) > 3 /\ TimeLeft(n) = TimeLeft(m) - 3
       /\ n.irq = (m.irq /\ (Hold(m) = 0 \/ TimeLeft(n) > TimePeriod(m) - Hold(m)))
       /\ TimePeriod(n) = TimePeriod(m)
    \/ /\ TimeLeft(m) \in 1 .. 3
       /\ TimeLeft(n) = IF TimePeriod(m) = 0 THEN 0 ELSE TimeLeft(m) - 3 + TimePeriod(m)
       /\ n.irq = TRUE
       /\ TimePeriod(n) = TimePeriod(m)

LEMMA WordCounts ==
    ASSUME NEW m \in CartRecord, NEW n \in CartRecord, n.board = m.board, m.board # "VRC",
           TickStep(m, n)
    PROVE  CountsDown(m, n)
  <1> DEFINE t == TicksLeft(m)
             u == TicksLeft(n)
             p == PeriodTicks(m)
  <1>1. /\ TimeLeft(m) = 3 * t /\ TimeLeft(n) = 3 * u
        /\ TimePeriod(m) = IF 3 * t = 0 THEN 0 ELSE 3 * p
        /\ TimePeriod(n) = IF 3 * u = 0 THEN 0 ELSE 3 * PeriodTicks(n)
    <2>1. TimeLeft(m) = 3 * t /\ TimeLeft(n) = 3 * u
      BY DEF TimeLeft
    <2> HIDE DEF t, u
    <2> QED
      BY <2>1 DEF TimePeriod
  <1>2. t \in Nat /\ p \in Nat
    BY DEF TickStep
  <1>3. m.irq \in BOOLEAN /\ n.irq \in BOOLEAN
    BY CartFields
  <1> HIDE DEF t, u, p
  <1>4. CASE t = 0
    <2>1. u = 0 /\ n.irq = m.irq
      BY <1>4 DEF TickStep, t, u
    <2>2. TimeLeft(m) = 0 /\ TimeLeft(n) = 0 /\ TimePeriod(n) = TimePeriod(m)
      BY <1>1, <1>4, <2>1
    <2> QED
      BY <2>1, <2>2 DEF CountsDown
  <1>5. CASE t = 1
    <2>1. u = p /\ n.irq /\ PeriodTicks(n) = p
      BY <1>5 DEF TickStep, t, u, p
    <2>2. TimeLeft(m) = 3 /\ TimePeriod(m) = 3 * p
      BY <1>1, <1>2, <1>5
    <2>3. TimeLeft(n) = 3 * p /\ TimePeriod(n) = 3 * p
      BY <1>1, <1>2, <2>1
    <2>4. 3 * p = IF 3 * p = 0 THEN 0 ELSE 3 - 3 + 3 * p
      BY <1>2
    <2>5. n.irq = TRUE
      BY <1>3, <2>1
    <2> QED
      BY <2>2, <2>3, <2>4, <2>5 DEF CountsDown
  <1>6. CASE t > 1
    <2>1. /\ u = t - 1 /\ PeriodTicks(n) = p
          /\ n.irq <=> m.irq /\ (m.board = "42" => u > LevelStart)
      BY <1>6 DEF TickStep, t, u, p
    <2>2. /\ TimeLeft(m) > 3 /\ TimeLeft(n) = TimeLeft(m) - 3
          /\ TimePeriod(m) = 3 * p /\ TimePeriod(n) = 3 * p /\ TimeLeft(n) = 3 * u
      BY <1>1, <1>2, <1>6, <2>1
    <2>3. (m.board = "42" => u > LevelStart)
             <=> (Hold(m) = 0 \/ TimeLeft(n) > TimePeriod(m) - Hold(m))
      <3>1. CASE m.board # "42"
        BY <3>1 DEF Hold
      <3>2. CASE m.board = "42"
        <4>1. p = Half
          BY <3>2 DEF PeriodTicks, p
        <4>2. Hold(m) = 3 * (Half - LevelStart)
          BY <3>2 DEF Hold
        <4>3. 3 * (Half - LevelStart) # 0
          BY Levels
        <4>4. TimeLeft(n) > TimePeriod(m) - Hold(m) <=> u > LevelStart
          BY <1>2, <2>1, <2>2, <4>1, <4>2, Levels
        <4> QED
          BY <3>2, <4>2, <4>3, <4>4
      <3> QED
        BY <3>1, <3>2
    <2>4. n.irq = (m.irq /\ (Hold(m) = 0 \/ TimeLeft(n) > TimePeriod(m) - Hold(m)))
      <3>1. n.irq <=> (m.irq /\ (Hold(m) = 0 \/ TimeLeft(n) > TimePeriod(m) - Hold(m)))
        BY <2>1, <2>3, Zenon
      <3> QED
        BY <1>3, <3>1
    <2> QED
      BY <2>2, <2>4 DEF CountsDown
  <1> QED
    BY <1>2, <1>4, <1>5, <1>6

LEMMA VrcCounts ==
    ASSUME NEW m \in CartRecord, m.board = "VRC", Bounded(m)
    PROVE  CountsDown(m, VrcIrq_process_cpu_clock(m))
  <1> DEFINE n == VrcIrq_process_cpu_clock(m)
             p == Int16(m.prescaler - 3)
             q == Int16(p + ScanlineDots)
             d == ScanlineDots
  <1>1. /\ m.prescaler \in -PrescalerLimit .. PrescalerLimit - 1 /\ m.prescaler \in Int
        /\ d \in Nat /\ d > 3 /\ PrescalerLimit > 2 * d /\ PrescalerLimit \in Nat
        /\ Byte \in Nat /\ Byte >= 4
        /\ m.enabled \in BOOLEAN /\ m.flag \in BOOLEAN /\ m.irq \in BOOLEAN
        /\ m.counter \in 0 .. Byte - 1 /\ m.reload \in 0 .. Byte - 1
    BY CartFields, CounterSizes, WidthAssumption DEF Bounded, ByteBoards, Bytes, Prescalers
  <1>2. /\ n \in CartRecord /\ n.board = "VRC"
        /\ ~m.enabled => n = m
        /\ m.enabled /\ ~m.flag /\ p > 0 => VrcBecomes(m, n, m.counter, p, m.irq)
        /\ m.enabled /\ (m.flag \/ p <= 0) /\ m.counter = Byte - 1
              => VrcBecomes(m, n, m.reload, q, TRUE)
        /\ m.enabled /\ (m.flag \/ p <= 0) /\ m.counter # Byte - 1
              => VrcBecomes(m, n, m.counter + 1, q, m.irq)
    BY ClockVrc
  <1>3. m.prescaler > 0 => p = m.prescaler - 3 /\ (p <= 0 => q = p + d)
    <2> SUFFICES ASSUME m.prescaler > 0
                 PROVE  p = m.prescaler - 3 /\ (p <= 0 => q = p + d)
      OBVIOUS
    <2>1. m.prescaler - 3 \in Int /\ m.prescaler - 3 \in Prescalers
      BY <1>1 DEF Prescalers
    <2>2. p = m.prescaler - 3
      BY <2>1, Wrapped16
    <2> HIDE DEF p
    <2>3. p <= 0 => p + d \in Int /\ p + d \in Prescalers
      BY <1>1, <2>1, <2>2 DEF Prescalers
    <2> QED
      BY <2>2, <2>3, Wrapped16
  <1> HIDE DEF n, p, q
  <1>4. /\ p \in Int
        /\ Hold(m) = 0
    <2>1. m.prescaler - 3 \in Int
      BY <1>1
    <2>2. p \in Prescalers
      BY <2>1, Wrapped16 DEF p
    <2> QED
      BY <1>1, <2>2 DEF Hold, Prescalers
  <1> DEFINE last == m.counter = Byte - 1
  <1>5. /\ m.enabled /\ ~m.flag /\ p > 0 => VrcBecomes(m, n, m.counter, p, m.irq)
        /\ m.enabled /\ (m.flag \/ ~(p > 0)) /\ last
              => VrcBecomes(m, n, m.reload, q, TRUE)
        /\ m.enabled /\ (m.flag \/ ~(p > 0)) /\ ~last
              => VrcBecomes(m, n, m.counter + 1, q, m.irq)
    <2>1. p <= 0 <=> ~(p > 0)
      BY <1>4
    <2> QED
      BY <1>2, <2>1, Zenon
  <1>6. CASE ~m.enabled
    <2>1. n = m /\ TimeLeft(m) = 0
      BY <1>2, <1>6 DEF TimeLeft
    <2>2. TimeLeft(m) = 0 /\ TimeLeft(n) = 0 /\ TimePeriod(n) = TimePeriod(m)
      BY <2>1
    <2>3. n.irq = m.irq
      BY <2>1
    <2> QED
      BY <2>2, <2>3 DEF CountsDown, n
  <1>7. CASE m.enabled /\ m.flag
    <2>1. n.enabled /\ n.flag /\ n.reload = m.reload /\ n.board = "VRC"
      BY <1>2, <1>7 DEF VrcBecomes
    <2>2. TimeLeft(m) = 3 * (Byte - m.counter) /\ TimeLeft(n) = 3 * (Byte - n.counter)
      BY <1>7, <2>1 DEF TimeLeft
    <2>3. n.counter \in 0 .. Byte - 1
      <3>1. \/ last /\ VrcBecomes(m, n, m.reload, q, TRUE)
            \/ ~last /\ VrcBecomes(m, n, m.counter + 1, q, m.irq)
        BY <1>7, <1>5, Zenon
      <3>2. (last /\ n.counter = m.reload) \/ (~last /\ n.counter = m.counter + 1)
        BY <3>1, Zenon DEF VrcBecomes
      <3> QED
        BY <1>1, <3>2
    <2>4. TimeLeft(m) # 0 /\ TimeLeft(n) # 0
      BY <1>1, <2>2, <2>3
    <2>5. TimePeriod(m) = 3 * (Byte - m.reload) /\ TimePeriod(n) = 3 * (Byte - m.reload)
      BY <1>7, <2>1, <2>4 DEF TimePeriod
    <2>6. CASE m.counter = Byte - 1
      <3>1. n.counter = m.reload /\ n.irq = TRUE
        BY <1>2, <1>7, <2>6 DEF VrcBecomes
      <3>2. /\ TimeLeft(m) \in 1 .. 3 /\ TimePeriod(n) = TimePeriod(m)
            /\ TimeLeft(n) = IF TimePeriod(m) = 0 THEN 0
                             ELSE TimeLeft(m) - 3 + TimePeriod(m)
        BY <1>1, <2>2, <2>5, <2>6, <3>1
      <3> QED
        BY <3>1, <3>2 DEF CountsDown, n
    <2>7. CASE m.counter # Byte - 1
      <3>1. n.counter = m.counter + 1 /\ n.irq = m.irq
        BY <1>2, <1>7, <2>7 DEF VrcBecomes
      <3>2. /\ TimeLeft(m) > 3 /\ TimeLeft(n) = TimeLeft(m) - 3
            /\ TimePeriod(n) = TimePeriod(m)
        BY <1>1, <2>2, <2>5, <2>7, <3>1
      <3>3. n.irq = (m.irq /\ (Hold(m) = 0 \/ TimeLeft(n) > TimePeriod(m) - Hold(m)))
        BY <1>1, <1>4, <3>1
      <3> QED
        BY <3>2, <3>3 DEF CountsDown, n
    <2> QED
      BY <2>6, <2>7
  <1>8. CASE m.enabled /\ ~m.flag /\ m.prescaler <= 0
    <2>1. TimeLeft(m) = -1
      BY <1>8 DEF TimeLeft
    <2>2. n.irq \in {m.irq, TRUE}
      <3> HIDE DEF last
      <3> QED
        BY <1>8, <1>5, Zenon DEF VrcBecomes
    <2> QED
      BY <2>1, <2>2 DEF CountsDown, n
  <1>9. CASE m.enabled /\ ~m.flag /\ m.prescaler > 0
    <2> DEFINE a == d * (Byte - 1 - m.counter)
               b == d * (Byte - 1 - m.reload)
               e == d * (Byte - 1 - (m.counter + 1))
    <2>1. /\ a \in Nat /\ b \in Nat /\ d * (Byte - m.reload) = d + b
          /\ m.counter = Byte - 1 => a = 0
          /\ m.counter # Byte - 1 => a = d + e /\ e \in Nat
      BY <1>1, Scanlines
    <2>2. /\ n.enabled /\ ~n.flag /\ n.reload = m.reload /\ n.board = "VRC"
          /\ n.prescaler > 0
          /\ n.prescaler = IF p > 0 THEN p ELSE p + d
      <3>1. /\ n.enabled = m.enabled /\ n.flag = m.flag /\ n.reload = m.reload
            /\ n.prescaler = IF p > 0 THEN p ELSE q
        <4> HIDE DEF last
        <4> QED
          BY <1>9, <1>5 DEF VrcBecomes
      <3>2. ~(p > 0) => q = p + d
        BY <1>3, <1>4, <1>9
      <3>3. p + d > 0
        BY <1>1, <1>3, <1>9
      <3> QED
        BY <1>2, <1>9, <3>1, <3>2, <3>3
    <2>3. p = m.prescaler - 3
      BY <1>3, <1>9
    <2>4. /\ TimeLeft(m) = m.prescaler + a
          /\ TimeLeft(n) = n.prescaler + d * (Byte - 1 - n.counter)
      <3>1. ~(m.prescaler <= 0) /\ ~(n.prescaler <= 0)
        BY <1>1, <1>4, <1>9, <2>2
      <3> QED
        BY <1>9, <2>2, <3>1 DEF TimeLeft
    <2> HIDE DEF a, b, e
    <2>5. TimeLeft(m) > 0
      BY <1>1, <1>9, <2>1, <2>4
    <2>6. CASE p > 0
      <3>1. n.counter = m.counter /\ n.irq = m.irq
        BY <1>2, <1>9, <2>6 DEF VrcBecomes
      <3>2. TimeLeft(n) = p + a
        BY <2>2, <2>4, <2>6, <3>1 DEF a
      <3>3. TimeLeft(m) > 3 /\ TimeLeft(n) = TimeLeft(m) - 3 /\ TimeLeft(n) # 0
        BY <1>1, <2>1, <2>3, <2>4, <2>6, <3>2
      <3>4. TimePeriod(m) = d + b /\ TimePeriod(n) = d + b
        BY <1>9, <2>1, <2>2, <2>5, <3>3 DEF TimePeriod
      <3>5. n.irq = (m.irq /\ (Hold(m) = 0 \/ TimeLeft(n) > TimePeriod(m) - Hold(m)))
        BY <1>1, <1>4, <3>1
      <3> QED
        BY <3>3, <3>4, <3>5 DEF CountsDown, n
    <2>7. CASE ~(p > 0) /\ m.counter # Byte - 1
      <3>1. n.counter = m.counter + 1 /\ n.irq = m.irq
        <4>1. VrcBecomes(m, n, m.counter + 1, q, m.irq)
          BY <1>9, <1>5, <2>7, Zenon
        <4> QED
          BY <4>1 DEF VrcBecomes
      <3>2. TimeLeft(n) = p + d + e
        BY <2>2, <2>4, <2>7, <3>1 DEF e
      <3>3. TimeLeft(m) > 3 /\ TimeLeft(n) = TimeLeft(m) - 3 /\ TimeLeft(n) # 0
        BY <1>1, <1>9, <2>1, <2>3, <2>4, <2>7, <3>2
      <3>4. TimePeriod(m) = d + b /\ TimePeriod(n) = d + b
        BY <1>9, <2>1, <2>2, <2>5, <3>3 DEF TimePeriod
      <3>5. n.irq = (m.irq /\ (Hold(m) = 0 \/ TimeLeft(n) > TimePeriod(m) - Hold(m)))
        BY <1>1, <1>4, <3>1
      <3> QED
        BY <3>3, <3>4, <3>5 DEF CountsDown, n
    <2>8. CASE ~(p > 0) /\ m.counter = Byte - 1
      <3>1. n.counter = m.reload /\ n.irq = TRUE
        <4>1. VrcBecomes(m, n, m.reload, q, TRUE)
          BY <1>9, <1>5, <2>8, Zenon
        <4> QED
          BY <4>1 DEF VrcBecomes
      <3>2. TimeLeft(n) = p + d + b
        BY <2>2, <2>4, <2>8, <3>1 DEF b
      <3>3. TimeLeft(m) \in 1 .. 3 /\ TimeLeft(n) # 0 /\ TimeLeft(n) = TimeLeft(m) - 3 + (d + b)
        <4>1. TimeLeft(m) = m.prescaler
          BY <1>1, <2>1, <2>4, <2>8
        <4>2. m.prescaler \in 1 .. 3
          BY <1>1, <1>9, <2>3, <2>8
        <4> QED
          BY <1>1, <2>1, <2>3, <3>2, <4>1, <4>2
      <3>4. TimePeriod(m) = d + b /\ TimePeriod(n) = d + b
        BY <1>9, <2>1, <2>2, <2>5, <3>3 DEF TimePeriod
      <3>5. TimePeriod(m) # 0
        BY <1>1, <2>1, <3>4
      <3> QED
        BY <3>1, <3>3, <3>4, <3>5 DEF CountsDown, n
    <2> QED
      BY <2>6, <2>7, <2>8
  <1> QED
    BY <1>1, <1>6, <1>7, <1>8, <1>9

-----------------------------------------------------------------------------
(* Register writes keep the members in range and never raise the line.     *)

WriteOK(m, n) ==
    n \in CartRecord /\ n.board = m.board /\ Bounded(n) /\ n.irq \in {m.irq, FALSE}

LEMMA WordWrites ==
    ASSUME NEW w \in Words
    PROVE  /\ \A v \in Bytes : SetLow(w, v) \in Words /\ SetHigh(w, v) \in Words
           /\ \A i \in 0 .. 3, v \in Nibbles : SetNibble(w, i, v) \in Words
  BY LowSet, HighSet, NibbleSet

(* The updates that registers make.                                        *)
Kept(m, n) == n \in CartRecord /\ n.board = m.board /\ n.irq \in {m.irq, FALSE}

LEMMA Updates ==
    ASSUME NEW m \in CartRecord, NEW w \in Words, NEW e \in BOOLEAN, NEW f \in BOOLEAN
    PROVE  /\ Kept(m, Clear(m))
           /\ Kept(m, [m EXCEPT !.counter = w])
           /\ Kept(m, [m EXCEPT !.reload = w])
           /\ Kept(m, [m EXCEPT !.enabled = e])
           /\ Kept(m, [m EXCEPT !.counter = w, !.flag = f])
           /\ Kept(m, Clear([m EXCEPT !.counter = w]))
           /\ Kept(m, Clear([m EXCEPT !.enabled = e]))
           /\ Kept(m, Clear([m EXCEPT !.enabled = e, !.flag = f]))
           /\ Kept(m, Clear([m EXCEPT !.enabled = e, !.counter = w]))
           /\ Kept(m, Clear([m EXCEPT !.counter = w, !.enabled = e]))
  <1>1. /\ Kept(m, Clear(m))
        /\ Kept(m, [m EXCEPT !.counter = w])
        /\ Kept(m, [m EXCEPT !.reload = w])
        /\ Kept(m, [m EXCEPT !.enabled = e])
        /\ Kept(m, [m EXCEPT !.counter = w, !.flag = f])
    BY DEF Kept, Clear, CartRecord, Bits
  <1>2. /\ Kept(m, Clear([m EXCEPT !.counter = w]))
        /\ Kept(m, Clear([m EXCEPT !.enabled = e]))
        /\ Kept(m, Clear([m EXCEPT !.enabled = e, !.flag = f]))
    BY DEF Kept, Clear, CartRecord, Bits
  <1>3. /\ Kept(m, Clear([m EXCEPT !.enabled = e, !.counter = w]))
        /\ Kept(m, Clear([m EXCEPT !.counter = w, !.enabled = e]))
    BY DEF Kept, Clear, CartRecord, Bits
  <1> QED
    BY <1>1, <1>2, <1>3

LEMMA Writes006 ==
    ASSUME NEW m \in CartRecord, NEW n \in Mapper006_writes(m)
    PROVE  Kept(m, n)
  <1>1. m.counter \in Words
    BY DEF CartRecord
  <1>2. \A v \in Bytes : SetLow(m.counter, v) \in Words /\ SetHigh(m.counter, v) \in Words
    BY <1>1, WordWrites
  <1> QED
    BY <1>1, <1>2, Updates, Zenon DEF Mapper006_writes

LEMMA Writes016 ==
    ASSUME NEW m \in CartRecord, NEW n \in Mapper016_writes(m)
    PROVE  Kept(m, n)
  <1>1. m.counter \in Words /\ m.reload \in Words
    BY DEF CartRecord
  <1>2. \A v \in Bytes : /\ SetLow(m.counter, v) \in Words /\ SetHigh(m.counter, v) \in Words
                         /\ SetLow(m.reload, v) \in Words /\ SetHigh(m.reload, v) \in Words
    BY <1>1, WordWrites
  <1> QED
    BY <1>1, <1>2, Updates, Zenon DEF Mapper016_writes

LEMMA Writes065 ==
    ASSUME NEW m \in CartRecord, NEW n \in Mapper065_writes(m)
    PROVE  Kept(m, n)
  <1>1. m.reload \in Words
    BY DEF CartRecord
  <1>2. \A v \in Bytes : SetLow(m.reload, v) \in Words /\ SetHigh(m.reload, v) \in Words
    BY <1>1, WordWrites
  <1> QED
    BY <1>1, <1>2, Updates, Zenon DEF Mapper065_writes

LEMMA Writes018 ==
    ASSUME NEW m \in CartRecord, NEW n \in Mapper018_writes(m)
    PROVE  Kept(m, n)
  <1>1. m.reload \in Words
    BY DEF CartRecord
  <1>2. \A i \in 0 .. 3, v \in Nibbles : SetNibble(m.reload, i, v) \in Words
    BY <1>1, WordWrites
  <1>3. \A e \in BOOLEAN, s \in 0 .. 3 : Kept(m, Mapper018_control(m, e, s))
    BY DEF Mapper018_control, Kept, Clear, CartRecord, Bits, Widths
  <1>4. \/ \E i \in 0 .. 3, v \in Nibbles : n = [m EXCEPT !.reload = SetNibble(m.reload, i, v)]
        \/ n = Clear([m EXCEPT !.counter = m.reload])
        \/ \E e \in BOOLEAN, s \in 0 .. 3 : n = Mapper018_control(m, e, s)
    BY DEF Mapper018_writes
  <1> QED
    BY <1>1, <1>2, <1>3, <1>4, Updates, Zenon

LEMMA Writes019 ==
    ASSUME NEW m \in CartRecord, NEW n \in Mapper019_writes(m)
    PROVE  Kept(m, n)
  <1>1. m.counter \in Words
    BY DEF CartRecord
  <1>2. \A v \in Bytes : SetLow(m.counter, v) \in Words /\ SetHigh(m.counter, v) \in Words
    BY <1>1, WordWrites
  <1> QED
    BY <1>2, Updates, Zenon DEF Mapper019_writes

LEMMA Writes40 ==
    ASSUME NEW m \in CartRecord, NEW n \in Mapper40_writes(m)
    PROVE  Kept(m, n)
  <1>1. 0 \in Words /\ FirstCount \in Words
    BY CounterSizes DEF Words
  <1> QED
    BY <1>1, Updates, Zenon DEF Mapper40_writes

LEMMA Writes42 ==
    ASSUME NEW m \in CartRecord, m.board = "42", Bounded(m), NEW n \in Mapper42_writes(m)
    PROVE  Kept(m, n) /\ Bounded(n)
  <1>1. 0 \in Words /\ 0 < Half /\ ~(0 >= LevelStart)
    BY CounterSizes, Levels DEF Words
  <1>2. Kept(m, n)
    BY <1>1, Updates, Zenon DEF Mapper42_writes
  <1>3. \/ n.counter = m.counter /\ n.irq = m.irq
        \/ n.counter = 0 /\ n.irq = FALSE
    BY DEF Mapper42_writes, Clear, CartRecord
  <1>4. n.counter < Half /\ (n.irq <=> n.counter >= LevelStart)
    BY <1>1, <1>3 DEF Bounded
  <1> QED
    BY <1>2, <1>4 DEF Kept, Bounded, ByteBoards

LEMMA Writes43 ==
    ASSUME NEW m \in CartRecord, m.board = "43", NEW n \in Mapper43_writes(m)
    PROVE  Kept(m, n) /\ Bounded(n)
  <1>1. 0 \in Words /\ 0 < FirstCount
    BY CounterSizes DEF Words
  <1>2. PICK e \in BOOLEAN : n = Clear([m EXCEPT !.enabled = e, !.counter = 0])
    BY DEF Mapper43_writes
  <1>3. Kept(m, n)
    BY <1>1, <1>2, Updates, Zenon
  <1>4. n.counter = 0
    BY <1>2 DEF Clear, CartRecord
  <1> QED
    BY <1>1, <1>3, <1>4 DEF Kept, Bounded, ByteBoards

LEMMA Writes50 ==
    ASSUME NEW m \in CartRecord, NEW n \in Mapper50_writes(m)
    PROVE  Kept(m, n)
  <1>1. 0 \in Words
    BY CounterSizes DEF Words
  <1> QED
    BY <1>1, Updates, Zenon DEF Mapper50_writes

LEMMA Writes067 ==
    ASSUME NEW m \in CartRecord, NEW n \in Mapper067_writes(m)
    PROVE  Kept(m, n)
  <1>1. m.counter \in Words /\ (~m.flag) \in BOOLEAN
    BY DEF CartRecord
  <1>2. \A v \in Bytes :
           (IF m.flag THEN SetLow(m.counter, v) ELSE SetHigh(m.counter, v)) \in Words
    BY <1>1, WordWrites
  <1>3. \/ \E v \in Bytes :
              n = [m EXCEPT !.counter = IF m.flag THEN SetLow(m.counter, v)
                                        ELSE SetHigh(m.counter, v),
                            !.flag = ~m.flag]
        \/ \E e \in BOOLEAN : n = Clear([m EXCEPT !.enabled = e, !.flag = FALSE])
    BY Zenon DEF Mapper067_writes
  <1>4. \A w \in Words, f \in BOOLEAN : Kept(m, [m EXCEPT !.counter = w, !.flag = f])
    BY Updates, Zenon
  <1>5. \A e \in BOOLEAN : Kept(m, Clear([m EXCEPT !.enabled = e, !.flag = FALSE]))
    BY <1>1, Updates, Zenon
  <1> QED
    BY <1>1, <1>2, <1>3, <1>4, <1>5, Zenon

LEMMA Writes069 ==
    ASSUME NEW m \in CartRecord, NEW n \in Mapper069_writes(m)
    PROVE  Kept(m, n)
  <1>1. m.counter \in Words
    BY DEF CartRecord
  <1>2. \A v \in Bytes : SetLow(m.counter, v) \in Words /\ SetHigh(m.counter, v) \in Words
    BY <1>1, WordWrites
  <1>3. \A e, f \in BOOLEAN : Kept(m, Mapper069_control(m, e, f))
    BY <1>1, Updates, Zenon DEF Mapper069_control
  <1>4. \/ \E e, f \in BOOLEAN : n = Mapper069_control(m, e, f)
        \/ \E v \in Bytes : n = [m EXCEPT !.counter = SetLow(m.counter, v)]
        \/ \E v \in Bytes : n = [m EXCEPT !.counter = SetHigh(m.counter, v)]
    BY DEF Mapper069_writes
  <1> QED
    BY <1>1, <1>2, <1>3, <1>4, Updates, Zenon

LEMMA Writes073 ==
    ASSUME NEW m \in CartRecord, NEW n \in Mapper073_writes(m)
    PROVE  Kept(m, n)
  <1>1. m.reload \in Words /\ m.counter \in Words /\ m.on_ack \in BOOLEAN
    BY DEF CartRecord, Bits
  <1>2. \A i \in 0 .. 3, v \in Nibbles : SetNibble(m.reload, i, v) \in Words
    BY <1>1, WordWrites
  <1>3. ASSUME NEW e \in BOOLEAN, NEW f \in BOOLEAN, NEW a \in BOOLEAN
        PROVE  Kept(m, Mapper073_control(m, e, f, a))
    <2> DEFINE w == IF e THEN m.reload ELSE m.counter
               k == [m EXCEPT !.enabled = e, !.flag = f, !.on_ack = a, !.counter = w]
    <2>1. w \in Words
      BY <1>1
    <2>2. Mapper073_control(m, e, f, a) = Clear(k)
      BY DEF Mapper073_control
    <2> HIDE DEF w
    <2>3. k \in CartRecord /\ k.board = m.board
      BY <2>1 DEF CartRecord, Bits
    <2> HIDE DEF k
    <2>4. Clear(k) \in CartRecord /\ Clear(k).board = m.board /\ Clear(k).irq = FALSE
      BY <2>3 DEF Clear, CartRecord, Bits
    <2> QED
      BY <2>2, <2>4 DEF Kept
  <1>4. \/ \E i \in 0 .. 3, v \in Nibbles : n = [m EXCEPT !.reload = SetNibble(m.reload, i, v)]
        \/ \E e, f, a \in BOOLEAN : n = Mapper073_control(m, e, f, a)
        \/ n = Clear([m EXCEPT !.enabled = m.on_ack])
    BY DEF Mapper073_writes
  <1> QED
    BY <1>1, <1>2, <1>3, <1>4, Updates, Zenon

(* The boards with 8-bit counters.                                         *)
KeptBytes(m, n) == Kept(m, n) /\ n.counter \in Bytes /\ n.reload \in Bytes

LEMMA ByteUpdates ==
    ASSUME NEW m \in CartRecord, m.counter \in Bytes, m.reload \in Bytes,
           NEW v \in Bytes, NEW e \in BOOLEAN
    PROVE  /\ KeptBytes(m, Clear(m))
           /\ KeptBytes(m, [m EXCEPT !.counter = v])
           /\ KeptBytes(m, [m EXCEPT !.reload = v])
           /\ KeptBytes(m, [m EXCEPT !.enabled = e])
           /\ KeptBytes(m, [m EXCEPT !.counter = v, !.flag = TRUE])
           /\ KeptBytes(m, Clear([m EXCEPT !.enabled = e]))
  <1>1. v \in Words
    <2>1. v \in 0 .. Byte - 1 /\ Byte \in Nat /\ Word \in Nat /\ Byte <= Word
      BY CounterSizes DEF Bytes
    <2> QED
      BY <2>1 DEF Words
  <1>2. /\ Kept(m, Clear(m)) /\ Kept(m, [m EXCEPT !.counter = v])
        /\ Kept(m, [m EXCEPT !.reload = v]) /\ Kept(m, [m EXCEPT !.enabled = e])
        /\ Kept(m, [m EXCEPT !.counter = v, !.flag = TRUE])
        /\ Kept(m, Clear([m EXCEPT !.enabled = e]))
    BY <1>1, Updates, Zenon
  <1> QED
    BY <1>2 DEF KeptBytes, Clear, CartRecord

LEMMA Writes004 ==
    ASSUME NEW m \in CartRecord, m.counter \in Bytes, m.reload \in Bytes,
           NEW n \in Mapper004_writes(m)
    PROVE  KeptBytes(m, n)
  <1>1. 0 \in Bytes
    BY CounterSizes DEF Bytes
  <1> QED
    BY <1>1, ByteUpdates, Zenon DEF Mapper004_writes

LEMMA Writes035 ==
    ASSUME NEW m \in CartRecord, m.counter \in Bytes, m.reload \in Bytes,
           NEW n \in Mapper035_writes(m)
    PROVE  KeptBytes(m, n)
  BY ByteUpdates, Zenon DEF Mapper035_writes

LEMMA Writes117 ==
    ASSUME NEW m \in CartRecord, m.counter \in Bytes, m.reload \in Bytes,
           NEW n \in Mapper117_writes(m)
    PROVE  KeptBytes(m, n)
  BY ByteUpdates, Zenon DEF Mapper117_writes

LEMMA WritesVrc ==
    ASSUME NEW m \in CartRecord, m.counter \in Bytes, m.reload \in Bytes,
           NEW n \in VrcIrq_writes(m)
    PROVE  KeptBytes(m, n)
  <1>1. /\ m.on_ack \in BOOLEAN /\ m.prescaler \in Prescalers
        /\ ScanlineDots \in Prescalers /\ m.reload \in Words /\ m.counter \in Words
    BY WidthAssumption DEF CartRecord, Bits, Prescalers
  <1>2. ASSUME NEW a \in BOOLEAN, NEW e \in BOOLEAN, NEW c \in BOOLEAN
        PROVE  KeptBytes(m, VrcIrq_set_control_value(m, a, e, c))
    <2> DEFINE w == IF e THEN m.reload ELSE m.counter
               p == IF e THEN ScanlineDots ELSE m.prescaler
               k == [m EXCEPT !.on_ack = a, !.enabled = e, !.flag = c, !.counter = w,
                              !.prescaler = p]
    <2>1. w \in Words /\ w \in Bytes /\ p \in Prescalers
      BY <1>1
    <2>2. VrcIrq_set_control_value(m, a, e, c) = Clear(k)
      BY DEF VrcIrq_set_control_value
    <2> HIDE DEF w, p
    <2>3. k \in CartRecord /\ k.board = m.board /\ k.counter = w /\ k.reload = m.reload
      BY <2>1 DEF CartRecord, Bits
    <2> HIDE DEF k
    <2>4. /\ Clear(k) \in CartRecord /\ Clear(k).board = m.board /\ Clear(k).irq = FALSE
          /\ Clear(k).counter = w /\ Clear(k).reload = m.reload
      BY <2>3 DEF Clear, CartRecord, Bits
    <2> QED
      BY <2>1, <2>2, <2>4 DEF KeptBytes, Kept
  <1>3. \/ \E v \in Bytes : n = [m EXCEPT !.reload = v]
        \/ \E a, e, c \in BOOLEAN : n = VrcIrq_set_control_value(m, a, e, c)
        \/ n = Clear([m EXCEPT !.enabled = m.on_ack])
    BY DEF VrcIrq_writes
  <1> QED
    BY <1>1, <1>2, <1>3, ByteUpdates

LEMMA TimerWrites ==
    ASSUME NEW m \in CartRecord, Bounded(m), NEW n \in timer_writes(m)
    PROVE  WriteOK(m, n)
  <1> DEFINE plain == {"006", "016", "016.4", "018", "019", "40", "50", "065", "067",
                       "069", "073"}
  <1>1. m.board \in CartBoards
    BY DEF CartRecord
  <1>2. CASE m.board \in plain
    <2>1. Kept(m, n)
      BY <1>2, Writes006, Writes016, Writes018, Writes019, Writes40, Writes50, Writes065,
         Writes067, Writes069, Writes073 DEF timer_writes
    <2> QED
      BY <1>2, <2>1 DEF Kept, WriteOK, Bounded, ByteBoards
  <1>3. CASE m.board = "42"
    <2>1. Kept(m, n) /\ Bounded(n)
      BY <1>3, Writes42 DEF timer_writes
    <2> QED
      BY <2>1 DEF Kept, WriteOK
  <1>4. CASE m.board = "43"
    <2>1. Kept(m, n) /\ Bounded(n)
      BY <1>4, Writes43 DEF timer_writes
    <2> QED
      BY <2>1 DEF Kept, WriteOK
  <1>5. CASE m.board \in ByteBoards
    <2>1. m.counter \in Bytes /\ m.reload \in Bytes
      BY <1>5 DEF Bounded
    <2>2. KeptBytes(m, n)
      BY <1>5, <2>1, Writes004, Writes035, Writes117, WritesVrc
         DEF timer_writes, ByteBoards
    <2> QED
      BY <1>5, <2>2 DEF KeptBytes, Kept, WriteOK, Bounded, ByteBoards
  <1>6. CASE m.board = "none"
    <2>1. timer_writes(m) = {}
      BY <1>6 DEF timer_writes
    <2> QED
      BY <2>1
  <1> QED
    BY <1>1, <1>2, <1>3, <1>4, <1>5, <1>6
       DEF CartBoards, TimerBoards, CpuClocked, A12Clocked, ByteBoards

-----------------------------------------------------------------------------
(* The steps of the whole system, as the countdown sees them.              *)

CartInv == cart \in CartRecord /\ Bounded(cart)

LEMMA CpuTick ==
    ASSUME NEW m \in CartRecord, Bounded(m), m.board \in CpuClocked
    PROVE  LET n == timer_clock(m)
           IN  n \in CartRecord /\ n.board = m.board /\ Bounded(n) /\ CountsDown(m, n)
  <1> DEFINE n == timer_clock(m)
  <1>1. CASE m.board = "VRC"
    <2>1. n = VrcIrq_process_cpu_clock(m)
      BY <1>1 DEF timer_clock
    <2>2. n \in CartRecord /\ n.board = m.board /\ Bounded(n)
      BY <1>1, <2>1, ClockVrc
    <2>3. CountsDown(m, n)
      BY <1>1, <2>1, VrcCounts
    <2> QED
      BY <2>2, <2>3
  <1>2. CASE m.board # "VRC"
    <2>1. Ticks(m, n)
      BY <1>2, Clock006, Clock016, Clock018, Clock019, Clock40, Clock42, Clock43, Clock50,
         Clock065, Clock067, Clock069, Clock073 DEF timer_clock, CpuClocked
    <2> HIDE DEF n
    <2>2. CountsDown(m, n)
      BY <1>2, <2>1, WordCounts DEF Ticks
    <2> QED
      BY <2>1, <2>2 DEF Ticks, n
  <1> QED
    BY <1>1, <1>2

(* The A12 filter is not part of the countdown.                            *)
LEMMA LowAside ==
    ASSUME NEW m \in CartRecord, NEW low \in Int, Bounded(m)
    PROVE  LET n == [m EXCEPT !.low = low]
           IN  /\ n \in CartRecord /\ n.board = m.board /\ Bounded(n) /\ n.irq = m.irq
               /\ TimeLeft(n) = TimeLeft(m) /\ TimePeriod(n) = TimePeriod(m)
  <1> DEFINE n == [m EXCEPT !.low = low]
  <1>1. /\ n \in CartRecord /\ n.board = m.board /\ n.irq = m.irq /\ n.counter = m.counter
        /\ n.reload = m.reload /\ n.enabled = m.enabled /\ n.flag = m.flag
        /\ n.size = m.size /\ n.prescaler = m.prescaler
    BY DEF CartRecord, Lows
  <1> HIDE DEF n
  <1>2. Bounded(n)
    BY <1>1 DEF Bounded
  <1>3. TicksLeft(n) = TicksLeft(m)
    BY <1>1 DEF TicksLeft
  <1>4. PeriodTicks(n) = PeriodTicks(m)
    BY <1>1 DEF PeriodTicks
  <1>5. TimeLeft(n) = TimeLeft(m)
    BY <1>1, <1>3 DEF TimeLeft
  <1>6. TimePeriod(n) = TimePeriod(m)
    BY <1>1, <1>4, <1>5 DEF TimePeriod
  <1> QED
    BY <1>1, <1>2, <1>5, <1>6 DEF n

LEMMA OtherClock ==
    ASSUME NEW m \in CartRecord, Bounded(m), m.board \notin CpuClocked
    PROVE  LET n == timer_clock(m)
           IN  /\ n \in CartRecord /\ n.board = m.board /\ Bounded(n) /\ n.irq = m.irq
               /\ TimeLeft(n) = TimeLeft(m) /\ TimePeriod(n) = TimePeriod(m)
  <1> DEFINE low == IF m.low \in {NotLow, A12Filter} THEN m.low ELSE m.low + 1
  <1>1. m.low \in Int
    BY DEF CartRecord, Lows
  <1>2. low \in Int
    BY <1>1
  <1>3. timer_clock(m) = [m EXCEPT !.low = low]
    BY DEF timer_clock, CpuClocked
  <1> HIDE DEF low
  <1> QED
    BY <1>2, <1>3, LowAside

LEMMA AddressChange ==
    ASSUME NEW m \in CartRecord, Bounded(m), m.board \in A12Clocked, NEW a12 \in BOOLEAN
    PROVE  LET n == notify_vram_address_change(m, a12)
           IN  /\ n \in CartRecord /\ n.board = m.board /\ Bounded(n)
               /\ IF IsEdge(m, a12) THEN CountsDown(m, n)
                  ELSE /\ n.irq = m.irq
                       /\ TimeLeft(n) = TimeLeft(m) /\ TimePeriod(n) = TimePeriod(m)
  <1> DEFINE low == IF a12 THEN NotLow ELSE IF m.low = NotLow THEN 0 ELSE m.low
             k == [m EXCEPT !.low = low]
             n == notify_vram_address_change(m, a12)
  <1>1. low \in Int
    BY DEF CartRecord, Lows, NotLow
  <1>2. /\ k \in CartRecord /\ k.board = m.board /\ Bounded(k) /\ k.irq = m.irq
        /\ TimeLeft(k) = TimeLeft(m) /\ TimePeriod(k) = TimePeriod(m)
    <2> HIDE DEF low
    <2> QED
      BY <1>1, LowAside
  <1>3. n = CASE ~IsEdge(m, a12) -> k
              [] IsEdge(m, a12) /\ m.board \in {"004", "004A"} -> Mapper004_edge(k)
              [] IsEdge(m, a12) /\ m.board = "035" -> Mapper035_edge(k)
              [] OTHER -> Mapper117_edge(k)
    BY DEF notify_vram_address_change
  <1> HIDE DEF k, n
  <1>4. CASE ~IsEdge(m, a12)
    <2>1. n = k
      BY <1>3, <1>4
    <2> QED
      BY <1>2, <1>4, <2>1 DEF n
  <1>5. CASE IsEdge(m, a12)
    <2>1. Ticks(k, n)
      <3>1. CASE m.board \in {"004", "004A"}
        <4>1. n = Mapper004_edge(k)
          BY <1>3, <1>5, <3>1
        <4> QED
          BY <1>2, <3>1, <4>1, Edge004
      <3>2. CASE m.board = "035"
        <4>1. n = Mapper035_edge(k)
          BY <1>3, <1>5, <3>2
        <4> QED
          BY <1>2, <3>2, <4>1, Edge035
      <3>3. CASE m.board = "117"
        <4>1. n = Mapper117_edge(k)
          BY <1>3, <1>5, <3>3
        <4> QED
          BY <1>2, <3>3, <4>1, Edge117
      <3> QED
        BY <3>1, <3>2, <3>3 DEF A12Clocked
    <2>2. CountsDown(k, n)
      BY <1>2, <2>1, WordCounts DEF Ticks, A12Clocked
    <2>3. Hold(k) = Hold(m)
      BY <1>2 DEF Hold
    <2>4. CountsDown(m, n)
      BY <1>2, <2>2, <2>3 DEF CountsDown
    <2> QED
      BY <1>2, <1>5, <2>1, <2>4 DEF Ticks, n
  <1> QED
    BY <1>4, <1>5

LEMMA TickTimes ==
    ASSUME cart'.board = cart.board, CountsDown(cart, cart'), event' = "tick"
    PROVE  Timer!Tick
  <1>1. Hold(cart') = Hold(cart)
    BY DEF Hold
  <1> QED
    BY <1>1 DEF CountsDown, Hold, Timer!Tick, Timer!Never, Timer!Unspecified,
                Timer!TickThirds

LEMMA IdleTimes ==
    ASSUME cart'.board = cart.board, cart'.irq = cart.irq,
           TimeLeft(cart') = TimeLeft(cart), TimePeriod(cart') = TimePeriod(cart),
           event' = "idle"
    PROVE  Timer!Idle
  BY DEF Timer!Idle

LEMMA CartInit == Init => CartInv /\ Timer!Init
  <1> SUFFICES ASSUME Init PROVE CartInv /\ Timer!Init
    OBVIOUS
  <1>1. PICK game \in Games : cart = timer_init(game[1])
    BY DEF Init
  <1>2. game[1] \in CartBoards
    BY GamesAssumption DEF CartBoards
  <1>3. /\ 0 \in Words /\ 0 \in Bytes /\ FALSE \in Bits /\ 0 \in Widths
        /\ 0 \in Prescalers /\ NotLow \in Lows
    BY CounterSizes, WidthAssumption
       DEF Words, Bytes, Bits, Widths, Prescalers, NotLow, Lows
  <1>4. /\ cart \in CartRecord /\ cart.counter = 0 /\ cart.reload = 0
        /\ cart.enabled = FALSE /\ cart.irq = FALSE
    BY <1>1, <1>2, <1>3 DEF timer_init, CartRecord
  <1>5. 0 < Half /\ ~(0 >= LevelStart) /\ ~(0 >= Half) /\ Half \in Nat /\ LevelStart \in Nat
        /\ LevelStart < Half
    BY Levels
  <1>6. Bounded(cart)
    BY <1>3, <1>4, <1>5 DEF Bounded
  <1>7. TicksLeft(cart) = 0
    BY <1>4, <1>5 DEF TicksLeft
  <1>8. TimeLeft(cart) = 0
    BY <1>4, <1>7 DEF TimeLeft
  <1>9. TimePeriod(cart) = 0
    BY <1>8 DEF TimePeriod
  <1>10. (IF cart.board = "42" THEN 3 * (Half - LevelStart) ELSE 0) \in Nat
    BY <1>5
  <1>11. event = "idle"
    BY DEF Init
  <1> QED
    BY <1>4, <1>6, <1>8, <1>9, <1>10, <1>11 DEF CartInv, Timer!Init, Timer!Never

LEMMA CartStep == CartInv /\ [Next]_vars => CartInv' /\ [Timer!Next]_(Timer!timer)
  <1> SUFFICES ASSUME CartInv, [Next]_vars
               PROVE  CartInv' /\ [Timer!Next]_(Timer!timer)
    OBVIOUS
  <1>1. cart \in CartRecord /\ Bounded(cart)
    BY DEF CartInv
  <1>2. CASE process_cpu_clock /\ cart.board \in CpuClocked
    <2>1. cart' = timer_clock(cart) /\ event' = "tick"
      BY <1>2 DEF process_cpu_clock
    <2>2. /\ cart' \in CartRecord /\ cart'.board = cart.board /\ Bounded(cart')
          /\ CountsDown(cart, cart')
      BY <1>1, <1>2, <2>1, CpuTick
    <2>3. Timer!Tick
      BY <2>1, <2>2, TickTimes
    <2> QED
      BY <2>2, <2>3 DEF CartInv, Timer!Next
  <1>3. CASE process_cpu_clock /\ cart.board \notin CpuClocked
    <2>1. cart' = timer_clock(cart) /\ event' = "idle"
      BY <1>3 DEF process_cpu_clock
    <2>2. /\ cart' \in CartRecord /\ cart'.board = cart.board /\ Bounded(cart')
          /\ cart'.irq = cart.irq /\ TimeLeft(cart') = TimeLeft(cart)
          /\ TimePeriod(cart') = TimePeriod(cart)
      BY <1>1, <1>3, <2>1, OtherClock
    <2>3. Timer!Idle
      BY <2>1, <2>2, IdleTimes
    <2> QED
      BY <2>2, <2>3 DEF CartInv, Timer!Next
  <1>4. CASE write_register
    <2>1. cart' \in timer_writes(cart) /\ event' = "write"
      BY <1>4 DEF write_register
    <2>2. /\ cart' \in CartRecord /\ cart'.board = cart.board /\ Bounded(cart')
          /\ cart'.irq \in {cart.irq, FALSE}
      BY <1>1, <2>1, TimerWrites DEF WriteOK
    <2>3. Timer!Write
      BY <2>1, <2>2 DEF Timer!Write
    <2> QED
      BY <2>2, <2>3 DEF CartInv, Timer!Next
  <1>5. CASE \E a12 \in BOOLEAN : set_bus_address(a12)
    <2>1. PICK a12 \in BOOLEAN : set_bus_address(a12)
      BY <1>5
    <2>2. /\ cart.board \in A12Clocked /\ cart' = notify_vram_address_change(cart, a12)
          /\ event' = IF IsEdge(cart, a12) THEN "tick" ELSE "idle"
      BY <2>1 DEF set_bus_address
    <2>3. /\ cart' \in CartRecord /\ cart'.board = cart.board /\ Bounded(cart')
          /\ IF IsEdge(cart, a12) THEN CountsDown(cart, cart')
             ELSE /\ cart'.irq = cart.irq
                  /\ TimeLeft(cart') = TimeLeft(cart) /\ TimePeriod(cart') = TimePeriod(cart)
      BY <1>1, <2>2, AddressChange
    <2>4. CASE IsEdge(cart, a12)
      <3>1. Timer!Tick
        BY <2>2, <2>3, <2>4, TickTimes
      <3> QED
        BY <2>3, <3>1 DEF CartInv, Timer!Next
    <2>5. CASE ~IsEdge(cart, a12)
      <3>1. Timer!Idle
        BY <2>2, <2>3, <2>5, IdleTimes
      <3> QED
        BY <2>3, <3>1 DEF CartInv, Timer!Next
    <2> QED
      BY <2>4, <2>5
  <1>6. CASE \/ write_4016 \/ write_expansion \/ host_input
             \/ \E port \in Ports : read_4016_4017(port) \/ read_expansion(port)
    <2>1. cart' = cart /\ event' = "idle"
      BY <1>6 DEF write_4016, write_expansion, host_input, read_4016_4017, read_expansion
    <2>2. TimeLeft(cart') = TimeLeft(cart) /\ TimePeriod(cart') = TimePeriod(cart)
      BY <2>1
    <2>3. Timer!Idle
      BY <2>1, <2>2, IdleTimes
    <2> QED
      BY <1>1, <2>1, <2>3 DEF CartInv, Timer!Next
  <1>7. CASE UNCHANGED vars
    <2>1. cart' = cart /\ event' = event
      BY <1>7 DEF vars
    <2>2. TimeLeft(cart') = TimeLeft(cart) /\ TimePeriod(cart') = TimePeriod(cart)
      BY <2>1
    <2>3. UNCHANGED Timer!timer
      BY <2>1, <2>2 DEF Timer!timer
    <2> QED
      BY <1>1, <2>1, <2>3 DEF CartInv
  <1> QED
    BY <1>2, <1>3, <1>4, <1>5, <1>6, <1>7 DEF Next

(* Every board's timer, at its real width and whatever a program writes,   *)
(* is the countdown that IrqTimer describes.                               *)
THEOREM TimersImplementCountdown == Spec => ImplementsTimer
  <1>1. Init => CartInv /\ Timer!Init
    BY CartInit
  <1>2. CartInv /\ [Next]_vars => CartInv' /\ [Timer!Next]_(Timer!timer)
    BY CartStep
  <1> QED
    BY <1>1, <1>2, PTL DEF Spec, ImplementsTimer, Timer!Spec

=============================================================================
