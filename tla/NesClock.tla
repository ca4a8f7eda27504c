------------------------------ MODULE NesClock ------------------------------
(***************************************************************************)
(* The CPU clock as NesConsole::process_cpu_clock hands it on: to the      *)
(* cartridge's interrupt timer and to the controllers' delayed writes.     *)
(* (The third, the APU, is the subject of ApuFrameCounter.)  A program     *)
(* makes at most one bus access a cycle, and writes in two cycles running  *)
(* only with a read-modify-write instruction, to one address.              *)
(***************************************************************************)
EXTENDS MapperIrq

CONSTANTS
    Games,         \* pairs of a timer board or "none", and the controllers:
                   \* "unused", "nes", "topology" or "vs"
    Buttons,       \* buttons of a controller; 8
    KeyboardRows,  \* rows of the keyboard; 10
    PadValues      \* values written to $4016

ASSUME GamesAssumption ==
    Games \subseteq (TimerBoards \cup {"none"}) \X {"unused", "nes", "topology", "vs"}
ASSUME PadAssumption ==
    /\ Buttons \in Nat \ {0} /\ KeyboardRows \in Nat \ {0}
    /\ PadValues \subseteq [strobe : BOOLEAN, column : BOOLEAN, enable : BOOLEAN]

VARIABLES
    cart,   \* the board's timer
    pads,   \* NesControlManager or VsControlManager
    odd,    \* cycle_count is odd
    bus,    \* the access of this cycle and the writes in a row before it
    event,  \* what the last step was to the timer
    wire    \* what the lines to a real controller carry (history)

vars == <<cart, pads, odd, bus, event, wire>>

Ports == {0, 1}
AllButtons == 0 .. Buttons - 1
Zeros == [port \in Ports |-> 0]
NoButtons == [port \in Ports |-> {}]

-----------------------------------------------------------------------------
(* The controllers.                                                        *)

pads_init(kind) ==
    [kind |-> kind, pending |-> 0, addr |-> "pad",
     value |-> [strobe |-> FALSE, column |-> FALSE, enable |-> FALSE],
     state |-> NoButtons, pos |-> Zeros, strobe |-> FALSE,
     kb_row |-> 0, kb_column |-> FALSE, kb_enabled |-> FALSE, select |-> FALSE]

pads_write_ram_swapped(p, addr, value) ==
    [p EXCEPT !.addr = addr, !.value = value, !.pending = IF odd THEN 2 ELSE 1,
              !.select = IF p.kind = "vs" /\ addr = "pad" THEN value.enable ELSE @]

(* A write is kept until the start of the next even cycle.  The Vs. System *)
(* takes its bank from bit 2 at once.                                      *)
pads_write_ram(p, addr, value) ==
    [p EXCEPT !.addr = addr, !.value = value, !.pending = IF odd THEN 1 ELSE 2,
              !.select = IF p.kind = "vs" /\ addr = "pad" THEN value.enable ELSE @]

apply_write_keeps_position(p) ==
    [p EXCEPT !.strobe = p.value.strobe,
              !.kb_column = p.value.column,
              !.kb_row = IF p.value.strobe THEN 0
                         ELSE IF p.kb_column /\ ~p.value.column THEN (@ + 1) % KeyboardRows
                         ELSE @,
              !.kb_enabled = p.value.enable]

apply_write(p) ==
    [p EXCEPT !.strobe = p.value.strobe,
              !.pos = IF p.strobe \/ p.value.strobe THEN Zeros ELSE @,
              !.kb_column = p.value.column,
              !.kb_row = IF p.value.strobe THEN 0
                         ELSE IF p.kb_column /\ ~p.value.column THEN (@ + 1) % KeyboardRows
                         ELSE @,
              !.kb_enabled = p.value.enable]

process_writes(p) ==
    LET q == [p EXCEPT !.pending = @ - 1]
    IN  CASE p.pending = 0 -> p
          [] p.pending = 1 /\ p.addr = "pad" -> apply_write(q)
          [] OTHER -> q

(* With the command line's input topology nothing is plugged into the      *)
(* second port.                                                            *)
Unplugged(p, port) == p.kind = "topology" /\ port = 1

(* The serial bit a read returns: the buttons as they are now, one by one, *)
(* then ones.  The other bits are open bus, constants of the topology and  *)
(* of the keyboard, none of whose keys is ever down.                       *)
serial_bit(p, port) ==
    /\ ~Unplugged(p, port)
    /\ CASE p.strobe -> 0 \in p.state[port]
         [] ~p.strobe /\ p.pos[port] < Buttons -> p.pos[port] \in p.state[port]
         [] OTHER -> TRUE

pads_read_ram(p, port) ==
    [p EXCEPT !.pos[port] = IF ~p.strobe /\ @ < Buttons /\ ~Unplugged(p, port)
                            THEN @ + 1 ELSE @]

set_button_state(p, port, button, pressed) ==
    [p EXCEPT !.state[port] = IF pressed THEN @ \cup {button} ELSE @ \ {button}]

clear_all(p) == [p EXCEPT !.state = NoButtons]

-----------------------------------------------------------------------------
(* The reference: a controller on real lines.  The output latch takes the  *)
(* last value written at the start of every even cycle; while it is high   *)
(* the controller's shift register follows the buttons, and afterwards     *)
(* every read of its port shifts it, filling up with ones.  Beside it are  *)
(* counted the strays: reads of other addresses that reach the port.       *)
wire_init ==
    [out |-> FALSE, latched |-> FALSE, register |-> NoButtons, shifts |-> Zeros,
     strays |-> Zeros, changed |-> FALSE]

Reload(w, state) ==
    [w EXCEPT !.register = state, !.shifts = Zeros, !.strays = Zeros, !.changed = FALSE]

WireClock(w) ==
    LET v == IF odd THEN [w EXCEPT !.latched = w.out] ELSE w
    IN  IF w.latched \/ v.latched THEN Reload(v, pads.state) ELSE v

WireButtons(w, state) ==
    IF w.latched THEN Reload(w, state) ELSE [w EXCEPT !.changed = TRUE]

(* The bit after n shifts of a register loaded with these buttons.         *)
Sent(n, buttons) == n >= Buttons \/ n \in buttons

WireRead(w, port) ==
    [w EXCEPT !.shifts[port] = IF w.latched \/ @ = Buttons THEN @ ELSE @ + 1]

WireStray(w, port) ==
    [w EXCEPT !.strays[port] = IF w.latched \/ @ = Buttons THEN @ ELSE @ + 1]

-----------------------------------------------------------------------------
(* After the eight cycles of NesCpu::reset, which start at cycle -1.       *)
Init ==
    /\ \E game \in Games : cart = timer_init(game[1]) /\ pads = pads_init(game[2])
    /\ odd = TRUE
    /\ bus = [used |-> FALSE, addr |-> "none", writes |-> 0]
    /\ event = "idle"
    /\ wire = wire_init

(* start_cpu_cycle: the cycle count, then process_cpu_clock.               *)
process_cpu_clock ==
    /\ odd' = ~odd
    /\ cart' = timer_clock(cart)
    /\ pads' = process_writes(pads)
    /\ bus' = IF bus.used THEN [bus EXCEPT !.used = FALSE]
              ELSE [used |-> FALSE, addr |-> "none", writes |-> 0]
    /\ event' = IF cart.board \in CpuClocked THEN "tick" ELSE "idle"
    /\ wire' = WireClock(wire)

(* A bus write, as the instruction set allows it.                          *)
BusWrite(addr) ==
    /\ ~bus.used
    /\ bus.writes = 0 \/ (bus.writes = 1 /\ bus.addr = addr)
    /\ bus' = [used |-> TRUE, addr |-> addr, writes |-> bus.writes + 1]

write_register ==
    /\ BusWrite("mapper")
    /\ cart' \in timer_writes(cart)
    /\ event' = "write"
    /\ UNCHANGED <<pads, odd, wire>>

write_4016 ==
    /\ pads.kind # "unused"
    /\ BusWrite("pad")
    /\ \E value \in PadValues :
          /\ pads' = pads_write_ram(pads, "pad", value)
          /\ wire' = [wire EXCEPT !.out = value.strobe]
    /\ event' = "idle"
    /\ UNCHANGED <<cart, odd>>

(* VsControlManager also takes $4020-$5FFF, which ends as a write of       *)
(* nothing in the same place.                                              *)
write_expansion ==
    /\ pads.kind = "vs"
    /\ BusWrite("expansion")
    /\ \E value \in PadValues : pads' = pads_write_ram(pads, "expansion", value)
    /\ event' = "idle"
    /\ UNCHANGED <<cart, odd, wire>>

read_4016_4017(port) ==
    /\ pads.kind # "unused"
    /\ ~bus.used
    /\ bus' = [used |-> TRUE, addr |-> "none", writes |-> 0]
    /\ pads' = pads_read_ram(pads, port)
    /\ wire' = WireRead(wire, port)
    /\ event' = "idle"
    /\ UNCHANGED <<cart, odd>>

(* It also answers reads of $4020-$5FFF, before the cartridge can, and     *)
(* passes them on to the port of the address's lowest bit.                 *)
read_expansion(port) ==
    /\ pads.kind = "vs"
    /\ ~bus.used
    /\ bus' = [used |-> TRUE, addr |-> "none", writes |-> 0]
    /\ pads' = pads_read_ram(pads, port)
    /\ wire' = WireStray(wire, port)
    /\ event' = "idle"
    /\ UNCHANGED <<cart, odd>>

(* The PPU puts an address on its bus.                                     *)
set_bus_address(a12) ==
    /\ cart.board \in A12Clocked
    /\ cart' = notify_vram_address_change(cart, a12)
    /\ event' = IF IsEdge(cart, a12) THEN "tick" ELSE "idle"
    /\ UNCHANGED <<pads, odd, bus, wire>>

(* ear6_nes_set_button_state and ear6_nes_clear_input, between two steps.  *)
host_input ==
    /\ pads.kind # "unused"
    /\ \/ \E port \in Ports, button \in AllButtons, pressed \in BOOLEAN :
             pads' = set_button_state(pads, port, button, pressed)
       \/ pads' = clear_all(pads)
    /\ wire' = WireButtons(wire, pads'.state)
    /\ event' = "idle"
    /\ UNCHANGED <<cart, odd, bus>>

Next ==
    \/ process_cpu_clock
    \/ write_register
    \/ write_4016
    \/ write_expansion
    \/ \E port \in Ports : read_4016_4017(port) \/ read_expansion(port)
    \/ \E a12 \in BOOLEAN : set_bus_address(a12)
    \/ host_input

Spec == Init /\ [][Next]_vars

-----------------------------------------------------------------------------
(* The countdown of the board, in thirds of a tick.  VrcIrq divides the    *)
(* clock by scanlines; once its prescaler has wrapped in cycle mode and is *)
(* then used for scanlines, nothing is promised.                           *)
TimeLeft(m) ==
    CASE m.board # "VRC" -> 3 * TicksLeft(m)
      [] m.board = "VRC" /\ ~m.enabled -> 0
      [] m.board = "VRC" /\ m.enabled /\ m.flag -> 3 * (Byte - m.counter)
      [] OTHER -> IF m.prescaler <= 0 THEN -1
                  ELSE m.prescaler + ScanlineDots * (Byte - 1 - m.counter)

TimePeriod(m) ==
    CASE TimeLeft(m) = 0 -> 0
      [] TimeLeft(m) # 0 /\ m.board # "VRC" -> 3 * PeriodTicks(m)
      [] OTHER -> (IF m.flag THEN 3 ELSE ScanlineDots) * (Byte - m.reload)

Timer == INSTANCE IrqTimer WITH
    left <- TimeLeft(cart), period <- TimePeriod(cart), line <- cart.irq,
    hold <- IF cart.board = "42" THEN 3 * (Half - LevelStart) ELSE 0, event <- event

(* Every board's timer is a countdown that only register writes disturb:   *)
(* its interrupt comes exactly when the counters say, once, never by a     *)
(* write, and again after exactly one period, whatever the order of        *)
(* enables, reloads, acknowledges and wraps before.                        *)
ImplementsTimer == Timer!Spec

(* The strobe of the controllers is the last bit written to $4016 before   *)
(* the latest even cycle, also when a read-modify-write instruction writes *)
(* twice or another write comes between a write and its effect.            *)
StrobeLatched == pads.strobe = wire.latched

(* Whenever a port is read, it sends the button whose turn it is: one step *)
(* for every read of the port since the strobe fell and, on the Vs.        *)
(* System, one for every read of $4020-$5FFF that reached it.  The button  *)
(* is sent as the host has it now, which is as the strobe found it unless  *)
(* the host has changed buttons since.                                     *)
PadReadsMatch ==
    \A port \in Ports : ~Unplugged(pads, port) =>
        LET n == wire.shifts[port] + wire.strays[port]
        IN  /\ serial_bit(pads, port) = Sent(n, pads.state[port])
            /\ ~wire.changed => serial_bit(pads, port) = Sent(n, wire.register[port])

(* What a real controller does in every case; it does not hold (README,    *)
(* Disagreements).                                                         *)
PadReadsExact ==
    \A port \in Ports : ~Unplugged(pads, port) =>
        serial_bit(pads, port) = Sent(wire.shifts[port], wire.register[port])

(* The same as long as the host leaves the buttons alone; it does not hold *)
(* on the Vs. System.                                                      *)
PadReadsPlain ==
    ~wire.changed => PadReadsExact

=============================================================================
