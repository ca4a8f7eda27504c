-------------------------- MODULE NmiTiming_proofs --------------------------
(***************************************************************************)
(* Six invariants of the vertical blank and the interrupts, for a raster   *)
(* of any size and any program.  A CPU cycle is three dots and an access   *)
(* between the second and the third, so what is said of the PPU is shown   *)
(* to survive a dot and to survive an access, each by itself.  That an NMI *)
(* is neither lost nor taken twice is a matter of time: the dots gone by   *)
(* and three for each CPU cycle it may still wait stay below a bound.      *)
(***************************************************************************)
EXTENDS NmiTiming, TLAPS

(* PpuState without the bounds on the dots of a frame, which are the point *)
(* of DotsOK.  The sets have names, so that what a step leaves alone keeps *)
(* its type without a look at it.                                          *)
Scanlines == -1 .. VblankEnd
Dots == 0 .. LastDot
Flags == BOOLEAN
Races == {"no", "before", "during"}
Few == 0 .. 2

PpuRecord ==
    [scanline : Scanlines, cycle : Dots, frame_odd : Flags,
     vertical_blank : Flags, prevent_vbl : Flags, nmi_on : Flags,
     nmi_flag : Flags, mask : Flags, rendering : Flags,
     on_at_start : Flags, raced : Races, seen : Few,
     enables : Few, length : Int, dots : Int]

(* The flag is up only between the dot that starts the vertical blank and  *)
(* the end of the last line, and has not been read since.                  *)
FlagOK(p) ==
    /\ p.prevent_vbl => p.scanline = NmiScanline /\ p.cycle = 0
    /\ p.vertical_blank /\ p.nmi_on => p.nmi_flag
    /\ p.nmi_flag => p.nmi_on
    /\ p.nmi_flag => p.vertical_blank \/ (p.scanline = -1 /\ p.cycle = 0)
    /\ p.vertical_blank => \/ p.scanline > NmiScanline
                           \/ p.scanline = NmiScanline /\ p.cycle > 0
    /\ p.vertical_blank => p.seen = 0 /\ p.raced # "before"
    /\ p.seen <= 1
    /\ p.raced = "before" => p.seen = 0

(* k whole scanlines, in dots.                                             *)
Lines(k) == k * (LastDot + 1)

(* The scanlines since the frame was counted last, at the end of the       *)
(* picture.                                                                *)
LinesSince(line) == IF line >= PostRender THEN line - PostRender
                    ELSE line + VblankEnd + 2 - PostRender

Place(p) == Lines(LinesSince(p.scanline)) + p.cycle

(* An odd frame may have skipped a dot at the end of the pre-render line.  *)
Skipped(p) ==
    /\ p.frame_odd
    /\ p.scanline < PostRender
    /\ p.scanline = -1 => p.cycle = LastDot

DotsOK(p) ==
    /\ p.dots = Place(p) \/ (p.dots = Place(p) - 1 /\ Skipped(p))
    /\ p.length = FullFrame \/ (p.length = FullFrame - 1 /\ ~p.frame_odd)

PpuOK(p) == p \in PpuRecord /\ FlagOK(p) /\ DotsOK(p)

-----------------------------------------------------------------------------
(* Whole lines.                                                            *)

LEMMA LinesStep ==
    ASSUME NEW k \in Int
    PROVE  Lines(k) \in Int /\ Lines(k + 1) = Lines(k) + LastDot + 1
  BY RasterAssumption DEF Lines

LEMMA LinesZero == Lines(0) = 0
  BY RasterAssumption DEF Lines

LEMMA LinesAll == Lines(VblankEnd + 2) = FullFrame
  BY RasterAssumption DEF Lines, FullFrame

LEMMA LinesMonotone ==
    ASSUME NEW j \in Int, NEW k \in Int, j <= k
    PROVE  Lines(j) <= Lines(k)
  <1>1. PICK d \in Nat : k = j + d
    <2>1. k - j \in Nat /\ k = j + (k - j)
      OBVIOUS
    <2> QED
      BY <2>1
  <1>2. d * (LastDot + 1) \in Nat
    BY RasterAssumption
  <1>3. (j + d) * (LastDot + 1) = j * (LastDot + 1) + d * (LastDot + 1)
    BY RasterAssumption
  <1>4. j * (LastDot + 1) \in Int
    BY RasterAssumption
  <1> QED
    BY <1>1, <1>2, <1>3, <1>4 DEF Lines

(* The dots of a frame so far are no more than the dots of a frame.        *)
LEMMA DotsBounded ==
    ASSUME NEW p, p \in PpuRecord, DotsOK(p)
    PROVE  p.dots \in 0 .. FullFrame /\ p.length \in 0 .. FullFrame
  <1> DEFINE k == LinesSince(p.scanline)
  <1>1. k \in 0 .. VblankEnd + 1
    BY RasterAssumption DEF PpuRecord, Scanlines, Dots, Flags, Races, Few, LinesSince, NmiScanline
  <1>2. Lines(k) \in Int /\ Lines(k + 1) = Lines(k) + LastDot + 1
    BY <1>1, LinesStep, RasterAssumption
  <1>3. 0 <= Lines(k)
    BY <1>1, LinesZero, LinesMonotone, RasterAssumption
  <1>4. Lines(k + 1) <= FullFrame
    BY <1>1, LinesAll, LinesMonotone, RasterAssumption
  <1>5. FullFrame \in Int
    BY RasterAssumption DEF FullFrame
  <1>6. p.cycle \in 0 .. LastDot /\ p.dots \in Int /\ p.length \in Int
    BY DEF PpuRecord, Scanlines, Dots, Flags, Races, Few
  <1>7. p.dots = Lines(k) + p.cycle \/ p.dots = Lines(k) + p.cycle - 1
    <2>1. p.dots = Place(p) \/ p.dots = Place(p) - 1
      BY DEF DotsOK
    <2>2. Place(p) = Lines(k) + p.cycle
      BY DEF Place
    <2> HIDE DEF k
    <2> QED
      BY <1>2, <1>6, <2>1, <2>2
  <1>8. p.dots = Lines(k) + p.cycle - 1 => p.dots = Lines(k) + p.cycle \/ p.cycle > 0 \/ k > 0
    <2> SUFFICES ASSUME p.dots # Lines(k) + p.cycle, ~(p.cycle > 0) PROVE k > 0
      BY <1>6, <1>1
    <2>1. Skipped(p)
      BY DEF DotsOK, Place
    <2> QED
      BY <2>1, RasterAssumption DEF Skipped, LinesSince, PpuRecord, Scanlines, Dots, Flags, Races, Few, NmiScanline
  <1>9. k > 0 => Lines(k) >= 1
    <2> SUFFICES ASSUME k > 0 PROVE Lines(k) >= 1
      OBVIOUS
    <2>1. Lines(1) <= Lines(k)
      BY <1>1, LinesMonotone, RasterAssumption
    <2>2. Lines(1) = LastDot + 1
      BY RasterAssumption DEF Lines
    <2> QED
      BY <1>2, <2>1, <2>2, RasterAssumption
  <1> HIDE DEF k
  <1>10. p.dots \in 0 .. FullFrame
    BY <1>1, <1>2, <1>3, <1>4, <1>5, <1>6, <1>7, <1>8, <1>9, RasterAssumption
  <1>11. p.length \in 0 .. FullFrame
    <2>1. 1 <= FullFrame
      BY <1>1, <1>2, <1>3, <1>4, <1>5, RasterAssumption
    <2> QED
      BY <1>5, <1>6, <2>1 DEF DotsOK
  <1> QED
    BY <1>10, <1>11

-----------------------------------------------------------------------------
(* What a dot does, case by case.                                          *)

(* How a dot moves the raster and counts.                                  *)
EndsPicture(p) == p.scanline = PostRender - 1 /\ p.cycle = LastDot

Moves(p, q) ==
    /\ p.cycle = LastDot =>
          /\ q.cycle = 0
          /\ q.scanline = IF p.scanline = VblankEnd THEN -1 ELSE p.scanline + 1
    /\ p.cycle # LastDot =>
          /\ q.scanline = p.scanline /\ q.cycle > p.cycle
          /\ (p.scanline # -1 => q.cycle = p.cycle + 1)
    /\ ~EndsPicture(p) => q.dots = p.dots + 1 /\ q.length = p.length
    /\ EndsPicture(p) => q.dots = 0 /\ q.length = p.dots + 1

(* How a dot changes the NMI line and the history of the vertical blank:   *)
(* the dot that starts one starts its history, any other dot leaves it     *)
(* alone and does not raise the line.                                      *)
Starts(p) == p.scanline = NmiScanline /\ p.cycle = 0

SameHistory(p, q) ==
    /\ q.on_at_start = p.on_at_start
    /\ q.raced = p.raced /\ q.enables = p.enables

Signals(p, q) ==
    /\ q.nmi_on = p.nmi_on
    /\ Starts(p) => /\ q.nmi_flag <=> p.nmi_on /\ ~p.prevent_vbl
                    /\ q.on_at_start = p.nmi_on
                    /\ q.raced = IF p.prevent_vbl THEN "before" ELSE "no"
                    /\ q.enables = 0
    /\ ~Starts(p) => /\ SameHistory(p, q)
                     /\ q.nmi_flag => p.nmi_flag
                     /\ p.nmi_flag /\ p.scanline # -1 => q.nmi_flag

Effect(p, q) == Moves(p, q) /\ Signals(p, q)

(* A dot within a line, other than the last of the pre-render line.        *)
LEMMA DotsStep ==
    ASSUME NEW p \in PpuRecord, NEW q \in PpuRecord, DotsOK(p), p.cycle < LastDot,
           q.cycle = p.cycle + 1, q.dots = p.dots + 1, q.scanline = p.scanline,
           q.frame_odd = p.frame_odd, q.length = p.length
    PROVE  DotsOK(q)
  <1>1. Lines(LinesSince(p.scanline)) \in Int /\ p.dots \in Int
    BY LinesStep, RasterAssumption DEF PpuRecord, Scanlines, Dots, Flags, Races, Few, LinesSince
  <1>2. Place(p) \in Int /\ Place(q) = Place(p) + 1
    BY <1>1, RasterAssumption DEF Place, PpuRecord, Scanlines, Dots, Flags, Races, Few
  <1>3. Skipped(p) => p.scanline # -1
    BY RasterAssumption DEF Skipped, PpuRecord, Scanlines, Dots, Flags, Races, Few
  <1>4. Skipped(p) => Skipped(q)
    BY <1>3 DEF Skipped
  <1> QED
    BY <1>1, <1>2, <1>4 DEF DotsOK

(* A change of the flag, the line, the masks or the history only.          *)
LEMMA RasterKept ==
    ASSUME NEW p \in PpuRecord, NEW q \in PpuRecord, DotsOK(p),
           q.scanline = p.scanline, q.cycle = p.cycle, q.frame_odd = p.frame_odd,
           q.length = p.length, q.dots = p.dots
    PROVE  DotsOK(q)
  <1>1. Place(q) = Place(p)
    BY DEF Place
  <1>2. Skipped(p) => Skipped(q)
    BY DEF Skipped
  <1> QED
    BY <1>1, <1>2 DEF DotsOK

(* The dot is counted and the raster moves on within the line; at the end  *)
(* of the dot the $2001 bits take effect.                                  *)
Ticked(p) == [p EXCEPT !.dots = p.dots + 1, !.cycle = p.cycle + 1]

Shown(p) == [p EXCEPT !.rendering = p.mask]

LEMMA TickedFields ==
    ASSUME NEW p \in PpuRecord, p.cycle < LastDot
    PROVE  LET q == Ticked(p)
           IN  /\ q \in PpuRecord
               /\ q.cycle = p.cycle + 1 /\ q.dots = p.dots + 1
               /\ q.scanline = p.scanline /\ q.frame_odd = p.frame_odd
               /\ q.length = p.length /\ q.prevent_vbl = p.prevent_vbl
               /\ q.vertical_blank = p.vertical_blank /\ q.nmi_on = p.nmi_on
               /\ q.nmi_flag = p.nmi_flag /\ q.rendering = p.rendering
               /\ q.seen = p.seen /\ q.raced = p.raced
               /\ q.on_at_start = p.on_at_start /\ q.enables = p.enables
  <1> DEFINE q == Ticked(p)
  <1>1. p.cycle + 1 \in Dots /\ p.dots + 1 \in Int
    BY RasterAssumption DEF PpuRecord, Dots
  <1>2. q \in PpuRecord
    BY <1>1 DEF PpuRecord, Ticked
  <1>3. /\ q.cycle = p.cycle + 1 /\ q.dots = p.dots + 1
        /\ q.scanline = p.scanline /\ q.frame_odd = p.frame_odd
        /\ q.length = p.length /\ q.prevent_vbl = p.prevent_vbl
        /\ q.vertical_blank = p.vertical_blank /\ q.nmi_on = p.nmi_on
        /\ q.nmi_flag = p.nmi_flag /\ q.rendering = p.rendering
        /\ q.seen = p.seen /\ q.raced = p.raced
        /\ q.on_at_start = p.on_at_start /\ q.enables = p.enables
    BY DEF PpuRecord, Ticked
  <1> QED
    BY <1>2, <1>3

LEMMA ShownOK ==
    ASSUME NEW p, PpuOK(p)
    PROVE  PpuOK(Shown(p))
  <1> DEFINE q == Shown(p)
  <1>1. p \in PpuRecord
    BY DEF PpuOK
  <1>2. /\ q \in PpuRecord
        /\ q.cycle = p.cycle /\ q.dots = p.dots /\ q.scanline = p.scanline
        /\ q.frame_odd = p.frame_odd /\ q.length = p.length
        /\ q.prevent_vbl = p.prevent_vbl /\ q.vertical_blank = p.vertical_blank
        /\ q.nmi_on = p.nmi_on /\ q.nmi_flag = p.nmi_flag
        /\ q.seen = p.seen /\ q.raced = p.raced
    <2>1. q \in PpuRecord
      BY <1>1 DEF PpuRecord, Shown
    <2>2. /\ q.cycle = p.cycle /\ q.dots = p.dots /\ q.scanline = p.scanline
          /\ q.frame_odd = p.frame_odd /\ q.length = p.length
          /\ q.prevent_vbl = p.prevent_vbl /\ q.vertical_blank = p.vertical_blank
          /\ q.nmi_on = p.nmi_on /\ q.nmi_flag = p.nmi_flag
          /\ q.seen = p.seen /\ q.raced = p.raced
      BY <1>1 DEF PpuRecord, Shown
    <2> QED
      BY <2>1, <2>2
  <1> HIDE DEF q
  <1>3. FlagOK(q)
    BY <1>2 DEF PpuOK, FlagOK
  <1>4. DotsOK(q)
    BY <1>1, <1>2, RasterKept DEF PpuOK
  <1> QED
    BY <1>2, <1>3, <1>4 DEF PpuOK, q

LEMMA ShownEffect ==
    ASSUME NEW p, NEW q \in PpuRecord, Effect(p, q)
    PROVE  Effect(p, Shown(q))
  <1> DEFINE r == Shown(q)
  <1>1. /\ r.scanline = q.scanline /\ r.cycle = q.cycle /\ r.dots = q.dots
        /\ r.length = q.length /\ r.nmi_on = q.nmi_on /\ r.nmi_flag = q.nmi_flag
        /\ r.on_at_start = q.on_at_start /\ r.raced = q.raced /\ r.enables = q.enables
    BY DEF PpuRecord, Shown
  <1> HIDE DEF r
  <1>2. Moves(p, r)
    BY <1>1 DEF Effect, Moves
  <1>3. Signals(p, r)
    BY <1>1 DEF Effect, Signals, SameHistory
  <1> QED
    BY <1>2, <1>3 DEF Effect, r

(* NesPpu::exec within a line: the dot, the part of it that the scanline   *)
(* calls for, the new rendering bits.                                      *)
LEMMA DotValue ==
    ASSUME NEW p \in PpuRecord, p.cycle < LastDot
    PROVE  /\ p.scanline = -1 => ppu_exec(p) = Shown(process_prerender(Ticked(p)))
           /\ p.scanline # -1 /\ ~AtVblank(Ticked(p)) => ppu_exec(p) = Shown(Ticked(p))
           /\ AtVblank(Ticked(p)) /\ begin_vblank(StartHistory(Ticked(p))).scanline # -1
                => ppu_exec(p) = Shown(begin_vblank(StartHistory(Ticked(p))))
  <1> DEFINE c == [p EXCEPT !.dots = @ + 1]
             e == exec_cycle(c)
  <1>1. c.cycle = p.cycle /\ [c EXCEPT !.cycle = @ + 1] = Ticked(p)
    BY DEF PpuRecord, Scanlines, Dots, Flags, Races, Few, Ticked
  <1>2. ppu_exec(p) = Shown(e)
    BY <1>1 DEF ppu_exec, Shown
  <1> HIDE DEF c
  <1> DEFINE t == Ticked(p)
  <1>3. t.scanline = p.scanline
    BY TickedFields
  <1>4. p.scanline = -1 => ~AtVblank(t)
    BY <1>3, RasterAssumption DEF AtVblank, NmiScanline
  <1> HIDE DEF t
  <1>5. ~AtVblank(t) => e = IF t.scanline = -1 THEN process_prerender(t) ELSE t
    BY <1>1 DEF exec_cycle, t
  <1>6. AtVblank(t) /\ begin_vblank(StartHistory(t)).scanline # -1
          => e = begin_vblank(StartHistory(t))
    BY <1>1 DEF exec_cycle, t
  <1> HIDE DEF e
  <1> QED
    BY <1>2, <1>3, <1>4, <1>5, <1>6 DEF t

(* A dot of the picture or of the vertical blank in which nothing starts.  *)
LEMMA PlainDot ==
    ASSUME NEW p, PpuOK(p), p.cycle < LastDot,
           ~(p.scanline = NmiScanline /\ p.cycle = 0),
           p.scanline = -1 => /\ p.cycle # 0
                              /\ ~(p.cycle = LastDot - 2 /\ p.rendering /\ p.frame_odd)
    PROVE  PpuOK(ppu_exec(p)) /\ Effect(p, ppu_exec(p))
  <1> DEFINE q == Ticked(p)
  <1>1. p \in PpuRecord /\ p.cycle \in 0 .. LastDot
    BY DEF PpuOK, PpuRecord, Scanlines, Dots, Flags, Races, Few
  <1>2. /\ q \in PpuRecord
        /\ q.cycle = p.cycle + 1 /\ q.dots = p.dots + 1 /\ q.scanline = p.scanline
        /\ q.frame_odd = p.frame_odd /\ q.length = p.length
        /\ q.prevent_vbl = p.prevent_vbl /\ q.vertical_blank = p.vertical_blank
        /\ q.nmi_on = p.nmi_on /\ q.nmi_flag = p.nmi_flag /\ q.rendering = p.rendering
        /\ q.seen = p.seen /\ q.raced = p.raced
        /\ q.on_at_start = p.on_at_start /\ q.enables = p.enables
    BY <1>1, TickedFields
  <1>3. ~AtVblank(q)
    BY <1>1, <1>2 DEF AtVblank
  <1>4. p.scanline = -1 => process_prerender(q) = q
    <2> HIDE DEF q
    <2> QED
      BY <1>1, <1>2, RasterAssumption DEF process_prerender
  <1>5. ppu_exec(p) = Shown(q)
    BY <1>1, <1>3, <1>4, DotValue
  <1> HIDE DEF q
  <1>6. FlagOK(q)
    BY <1>1, <1>2, RasterAssumption DEF PpuOK, FlagOK, PpuRecord, Scanlines, Dots, Flags, Races, Few, NmiScanline
  <1>7. DotsOK(q)
    BY <1>1, <1>2, DotsStep DEF PpuOK
  <1>8. PpuOK(ppu_exec(p))
    BY <1>2, <1>5, <1>6, <1>7, ShownOK DEF PpuOK
  <1>9. Moves(p, q)
    BY <1>1, <1>2, RasterAssumption DEF Moves, EndsPicture
  <1>10. Signals(p, q)
    BY <1>2 DEF Signals, Starts, SameHistory
  <1> QED
    BY <1>2, <1>5, <1>8, <1>9, <1>10, ShownEffect DEF Effect

(* The dot that starts the vertical blank.                                 *)
LEMMA VblankDot ==
    ASSUME NEW p, PpuOK(p), p.scanline = NmiScanline, p.cycle = 0
    PROVE  PpuOK(ppu_exec(p)) /\ Effect(p, ppu_exec(p))
  <1> DEFINE t == Ticked(p)
             h == StartHistory(t)
             q == begin_vblank(h)
  <1>1. p \in PpuRecord /\ 0 < LastDot /\ NmiScanline # -1
    BY RasterAssumption DEF PpuOK, NmiScanline
  <1>2. /\ t \in PpuRecord
        /\ t.cycle = 1 /\ t.dots = p.dots + 1 /\ t.scanline = p.scanline
        /\ t.frame_odd = p.frame_odd /\ t.length = p.length
        /\ t.prevent_vbl = p.prevent_vbl /\ t.vertical_blank = p.vertical_blank
        /\ t.nmi_on = p.nmi_on /\ t.nmi_flag = p.nmi_flag
    BY <1>1, TickedFields
  <1>3. AtVblank(t)
    BY <1>2 DEF AtVblank
  <1>4. q.scanline # -1 => ppu_exec(p) = Shown(q)
    BY <1>1, <1>3, DotValue
  <1> HIDE DEF t
  <1>5. /\ h \in PpuRecord
        /\ h.cycle = 1 /\ h.dots = t.dots /\ h.scanline = t.scanline
        /\ h.frame_odd = t.frame_odd /\ h.length = t.length
        /\ h.prevent_vbl = t.prevent_vbl /\ h.vertical_blank = t.vertical_blank
        /\ h.nmi_on = t.nmi_on /\ h.nmi_flag = t.nmi_flag /\ h.seen = 0
        /\ h.on_at_start = t.nmi_on /\ h.enables = 0
    <2>1. "before" \in Races /\ "no" \in Races /\ 0 \in Few
      BY DEF Races, Few
    <2>2. h \in PpuRecord
      BY <1>2, <2>1 DEF PpuRecord, StartHistory
    <2>3. /\ h.cycle = 1 /\ h.dots = t.dots /\ h.scanline = t.scanline
          /\ h.frame_odd = t.frame_odd /\ h.length = t.length
          /\ h.prevent_vbl = t.prevent_vbl /\ h.vertical_blank = t.vertical_blank
          /\ h.nmi_on = t.nmi_on /\ h.nmi_flag = t.nmi_flag /\ h.seen = 0
          /\ h.on_at_start = t.nmi_on /\ h.enables = 0
      BY <1>2 DEF PpuRecord, StartHistory
    <2> QED
      BY <2>2, <2>3
  <1>6. h.raced = IF t.prevent_vbl THEN "before" ELSE "no"
    BY <1>2 DEF PpuRecord, Scanlines, Dots, Flags, Races, Few, StartHistory
  <1> HIDE DEF h
  <1>7. /\ q \in PpuRecord
        /\ q.cycle = 1 /\ q.dots = h.dots /\ q.scanline = h.scanline
        /\ q.frame_odd = h.frame_odd /\ q.length = h.length
        /\ q.prevent_vbl = FALSE /\ q.nmi_on = h.nmi_on /\ q.seen = 0
        /\ q.raced = h.raced
        /\ q.on_at_start = h.on_at_start /\ q.enables = h.enables
    <2>1. /\ (h.vertical_blank \/ ~h.prevent_vbl) \in Flags
          /\ (h.nmi_flag \/ (~h.prevent_vbl /\ h.nmi_on)) \in Flags
          /\ FALSE \in Flags
      BY DEF Flags
    <2>2. q \in PpuRecord
      BY <1>5, <2>1 DEF PpuRecord, begin_vblank
    <2>3. /\ q.cycle = 1 /\ q.dots = h.dots /\ q.scanline = h.scanline
          /\ q.frame_odd = h.frame_odd /\ q.length = h.length
          /\ q.prevent_vbl = FALSE /\ q.nmi_on = h.nmi_on /\ q.seen = 0
          /\ q.raced = h.raced
          /\ q.on_at_start = h.on_at_start /\ q.enables = h.enables
      BY <1>5 DEF PpuRecord, begin_vblank
    <2> QED
      BY <2>2, <2>3
  <1>8. /\ q.vertical_blank = (h.vertical_blank \/ ~h.prevent_vbl)
        /\ q.nmi_flag = (h.nmi_flag \/ (~h.prevent_vbl /\ h.nmi_on))
    BY <1>5 DEF PpuRecord, Scanlines, Dots, Flags, Races, Few, begin_vblank
  <1> HIDE DEF q
  <1>9. ~p.vertical_blank /\ ~p.nmi_flag
    BY <1>1, RasterAssumption DEF PpuOK, FlagOK, NmiScanline
  <1>10. FlagOK(q)
    BY <1>1, <1>2, <1>5, <1>6, <1>7, <1>8, <1>9, RasterAssumption
       DEF FlagOK, PpuRecord, Scanlines, Dots, Flags, Races, Few, NmiScanline
  <1>11. DotsOK(q)
    BY <1>1, <1>2, <1>5, <1>7, DotsStep DEF PpuOK
  <1>12. PpuOK(q)
    BY <1>7, <1>10, <1>11 DEF PpuOK
  <1>13. ppu_exec(p) = Shown(q)
    BY <1>1, <1>2, <1>4, <1>5, <1>7
  <1>14. Moves(p, q)
    BY <1>1, <1>2, <1>5, <1>7, RasterAssumption DEF Moves, EndsPicture
  <1>15. Signals(p, q)
    BY <1>2, <1>5, <1>6, <1>7, <1>8, <1>9 DEF Signals, Starts
  <1> QED
    BY <1>7, <1>12, <1>13, <1>14, <1>15, ShownOK, ShownEffect DEF Effect

(* The dot that ends the vertical blank, on the pre-render line.           *)
LEMMA ClearDot ==
    ASSUME NEW p, PpuOK(p), p.scanline = -1, p.cycle = 0
    PROVE  PpuOK(ppu_exec(p)) /\ Effect(p, ppu_exec(p))
  <1> DEFINE t == Ticked(p)
             q == process_prerender(t)
  <1>1. p \in PpuRecord /\ 0 < LastDot
    BY RasterAssumption DEF PpuOK
  <1>2. /\ t \in PpuRecord
        /\ t.cycle = 1 /\ t.dots = p.dots + 1 /\ t.scanline = p.scanline
        /\ t.frame_odd = p.frame_odd /\ t.length = p.length
        /\ t.prevent_vbl = p.prevent_vbl /\ t.seen = p.seen /\ t.raced = p.raced
        /\ t.nmi_on = p.nmi_on /\ t.on_at_start = p.on_at_start /\ t.enables = p.enables
    BY <1>1, TickedFields
  <1>3. ppu_exec(p) = Shown(q)
    BY <1>1, DotValue
  <1> HIDE DEF t
  <1>4. q = [t EXCEPT !.vertical_blank = FALSE, !.nmi_flag = FALSE]
    BY <1>2 DEF process_prerender
  <1>5. /\ q \in PpuRecord
        /\ q.cycle = 1 /\ q.dots = t.dots /\ q.scanline = t.scanline
        /\ q.frame_odd = t.frame_odd /\ q.length = t.length
        /\ q.prevent_vbl = t.prevent_vbl /\ q.vertical_blank = FALSE
        /\ q.nmi_flag = FALSE /\ q.seen = t.seen /\ q.raced = t.raced
        /\ q.nmi_on = t.nmi_on /\ q.on_at_start = t.on_at_start /\ q.enables = t.enables
    <2>1. FALSE \in Flags
      BY DEF Flags
    <2>2. q \in PpuRecord
      BY <1>2, <1>4, <2>1 DEF PpuRecord
    <2>3. /\ q.cycle = 1 /\ q.dots = t.dots /\ q.scanline = t.scanline
          /\ q.frame_odd = t.frame_odd /\ q.length = t.length
          /\ q.prevent_vbl = t.prevent_vbl /\ q.vertical_blank = FALSE
          /\ q.nmi_flag = FALSE /\ q.seen = t.seen /\ q.raced = t.raced
          /\ q.nmi_on = t.nmi_on /\ q.on_at_start = t.on_at_start /\ q.enables = t.enables
      BY <1>2, <1>4 DEF PpuRecord
    <2> QED
      BY <2>2, <2>3
  <1> HIDE DEF q
  <1>6. ~p.prevent_vbl
    BY RasterAssumption DEF PpuOK, FlagOK, NmiScanline
  <1>7. FlagOK(q)
    BY <1>1, <1>2, <1>5, <1>6, RasterAssumption DEF PpuOK, FlagOK, PpuRecord, Scanlines, Dots, Flags, Races, Few
  <1>8. DotsOK(q)
    BY <1>1, <1>2, <1>5, DotsStep DEF PpuOK
  <1>9. PpuOK(ppu_exec(p))
    BY <1>3, <1>5, <1>7, <1>8, ShownOK DEF PpuOK
  <1>10. Moves(p, q)
    BY <1>1, <1>2, <1>5, RasterAssumption DEF Moves, EndsPicture
  <1>11. Signals(p, q)
    BY <1>2, <1>5, RasterAssumption DEF Signals, Starts, SameHistory, NmiScanline
  <1> QED
    BY <1>3, <1>5, <1>9, <1>10, <1>11, ShownEffect DEF Effect

(* The dot an odd frame skips while rendering.                             *)
LEMMA SkipDot ==
    ASSUME NEW p, PpuOK(p), p.scanline = -1, p.cycle = LastDot - 2,
           p.rendering, p.frame_odd
    PROVE  PpuOK(ppu_exec(p)) /\ Effect(p, ppu_exec(p))
  <1> DEFINE t == Ticked(p)
             q == process_prerender(t)
  <1>1. p \in PpuRecord /\ p.cycle < LastDot
    BY RasterAssumption DEF PpuOK
  <1>2. /\ t \in PpuRecord
        /\ t.cycle = p.cycle + 1 /\ t.dots = p.dots + 1 /\ t.scanline = p.scanline
        /\ t.frame_odd = p.frame_odd /\ t.length = p.length
        /\ t.prevent_vbl = p.prevent_vbl /\ t.vertical_blank = p.vertical_blank
        /\ t.nmi_on = p.nmi_on /\ t.nmi_flag = p.nmi_flag /\ t.rendering = p.rendering
        /\ t.seen = p.seen /\ t.raced = p.raced
        /\ t.on_at_start = p.on_at_start /\ t.enables = p.enables
    BY <1>1, TickedFields
  <1>3. ppu_exec(p) = Shown(q)
    BY <1>1, DotValue
  <1> HIDE DEF t
  <1>4. q = [t EXCEPT !.cycle = LastDot]
    BY <1>2, RasterAssumption DEF process_prerender
  <1>5. /\ q \in PpuRecord
        /\ q.cycle = LastDot /\ q.dots = t.dots /\ q.scanline = t.scanline
        /\ q.frame_odd = t.frame_odd /\ q.length = t.length
        /\ q.prevent_vbl = t.prevent_vbl /\ q.vertical_blank = t.vertical_blank
        /\ q.nmi_on = t.nmi_on /\ q.nmi_flag = t.nmi_flag
        /\ q.seen = t.seen /\ q.raced = t.raced
        /\ q.on_at_start = t.on_at_start /\ q.enables = t.enables
    <2>1. LastDot \in Dots
      BY RasterAssumption DEF Dots
    <2>2. q \in PpuRecord
      BY <1>2, <1>4, <2>1 DEF PpuRecord
    <2>3. /\ q.cycle = LastDot /\ q.dots = t.dots /\ q.scanline = t.scanline
          /\ q.frame_odd = t.frame_odd /\ q.length = t.length
          /\ q.prevent_vbl = t.prevent_vbl /\ q.vertical_blank = t.vertical_blank
          /\ q.nmi_on = t.nmi_on /\ q.nmi_flag = t.nmi_flag
          /\ q.seen = t.seen /\ q.raced = t.raced
          /\ q.on_at_start = t.on_at_start /\ q.enables = t.enables
      BY <1>2, <1>4 DEF PpuRecord
    <2> QED
      BY <2>2, <2>3
  <1> HIDE DEF q
  <1>6. FlagOK(q)
    BY <1>1, <1>2, <1>5, RasterAssumption DEF PpuOK, FlagOK, PpuRecord, Scanlines, Dots, Flags, Races, Few, NmiScanline
  <1>7. DotsOK(q)
    <2>1. Lines(LinesSince(p.scanline)) \in Int /\ p.dots \in Int
      BY <1>1, LinesStep, RasterAssumption DEF PpuRecord, Scanlines, Dots, Flags, Races, Few, LinesSince
    <2>2. Place(p) \in Int /\ Place(q) = Place(p) + 2
      BY <1>1, <1>2, <1>5, <2>1, RasterAssumption DEF Place
    <2>3. ~Skipped(p) /\ Skipped(q)
      BY <1>2, <1>5, RasterAssumption DEF Skipped
    <2>4. p.dots = Place(p)
      BY <2>3 DEF PpuOK, DotsOK
    <2>5. q.dots = Place(q) - 1
      BY <1>2, <1>5, <2>1, <2>2, <2>4
    <2> QED
      BY <1>2, <1>5, <2>3, <2>5 DEF PpuOK, DotsOK
  <1>8. PpuOK(ppu_exec(p))
    BY <1>3, <1>5, <1>6, <1>7, ShownOK DEF PpuOK
  <1>9. Moves(p, q)
    BY <1>1, <1>2, <1>5, RasterAssumption DEF Moves, EndsPicture
  <1>10. Signals(p, q)
    BY <1>2, <1>5, RasterAssumption DEF Signals, Starts, SameHistory, NmiScanline
  <1> QED
    BY <1>3, <1>5, <1>8, <1>9, <1>10, ShownEffect DEF Effect

(* NesPpu::exec at the end of a line.                                      *)
Counted(p) == [p EXCEPT !.dots = p.dots + 1]

LEMMA LineValue ==
    ASSUME NEW p \in PpuRecord, p.cycle = LastDot
    PROVE  /\ ppu_exec(p) = Shown(process_scanline_first_cycle(Counted(p)))
           /\ Counted(p) \in PpuRecord
           /\ LET c == Counted(p)
              IN  /\ c.dots = p.dots + 1 /\ c.scanline = p.scanline
                  /\ c.frame_odd = p.frame_odd /\ c.length = p.length
                  /\ c.prevent_vbl = p.prevent_vbl /\ c.vertical_blank = p.vertical_blank
                  /\ c.nmi_on = p.nmi_on /\ c.nmi_flag = p.nmi_flag
                  /\ c.seen = p.seen /\ c.raced = p.raced
                  /\ c.on_at_start = p.on_at_start /\ c.enables = p.enables
  <1> DEFINE c == Counted(p)
  <1>1. p.dots + 1 \in Int /\ ~(LastDot < LastDot)
    BY RasterAssumption DEF PpuRecord
  <1>2. c \in PpuRecord
    BY <1>1 DEF PpuRecord, Counted
  <1>3. /\ c.cycle = p.cycle /\ c.dots = p.dots + 1 /\ c.scanline = p.scanline
        /\ c.frame_odd = p.frame_odd /\ c.length = p.length
        /\ c.prevent_vbl = p.prevent_vbl /\ c.vertical_blank = p.vertical_blank
        /\ c.nmi_on = p.nmi_on /\ c.nmi_flag = p.nmi_flag
        /\ c.seen = p.seen /\ c.raced = p.raced
        /\ c.on_at_start = p.on_at_start /\ c.enables = p.enables
    BY DEF PpuRecord, Counted
  <1>4. ppu_exec(p) = Shown(process_scanline_first_cycle(c))
    BY <1>1, <1>3 DEF ppu_exec, Counted, Shown
  <1> QED
    BY <1>2, <1>3, <1>4

(* The first dot of a line of the same frame.                              *)
LEMMA NextLine ==
    ASSUME NEW p, PpuOK(p), p.cycle = LastDot, p.scanline # PostRender - 1
    PROVE  PpuOK(ppu_exec(p)) /\ Effect(p, ppu_exec(p))
  <1> DEFINE c == Counted(p)
             line == IF p.scanline = VblankEnd THEN -1 ELSE p.scanline + 1
             q == process_scanline_first_cycle(c)
  <1>1. p \in PpuRecord
    BY DEF PpuOK
  <1>2. line \in Scanlines /\ line # PostRender
    BY <1>1, RasterAssumption DEF PpuRecord, Scanlines, NmiScanline
  <1>3. ppu_exec(p) = Shown(q) /\ c \in PpuRecord
    BY <1>1, LineValue
  <1>4. /\ c.dots = p.dots + 1 /\ c.scanline = p.scanline
        /\ c.frame_odd = p.frame_odd /\ c.length = p.length
        /\ c.prevent_vbl = p.prevent_vbl /\ c.vertical_blank = p.vertical_blank
        /\ c.nmi_on = p.nmi_on /\ c.nmi_flag = p.nmi_flag
        /\ c.seen = p.seen /\ c.raced = p.raced
        /\ c.on_at_start = p.on_at_start /\ c.enables = p.enables
    BY <1>1, LineValue
  <1> HIDE DEF c
  <1>5. q = [c EXCEPT !.cycle = 0, !.scanline = line,
                      !.vertical_blank = c.vertical_blank /\ line # -1]
    BY <1>2, <1>4 DEF process_scanline_first_cycle
  <1>6. 0 \in Dots /\ (c.vertical_blank /\ line # -1) \in Flags
    BY RasterAssumption DEF Dots, Flags
  <1>7. q \in PpuRecord
    <2> HIDE DEF line, q
    <2> QED
      BY <1>2, <1>3, <1>5, <1>6 DEF PpuRecord
  <1>8. /\ q.cycle = 0 /\ q.dots = c.dots /\ q.scanline = line
        /\ q.frame_odd = c.frame_odd /\ q.length = c.length
        /\ q.prevent_vbl = c.prevent_vbl /\ q.nmi_on = c.nmi_on
        /\ q.nmi_flag = c.nmi_flag /\ q.seen = c.seen /\ q.raced = c.raced
        /\ q.vertical_blank = (c.vertical_blank /\ line # -1)
        /\ q.on_at_start = c.on_at_start /\ q.enables = c.enables
    <2> HIDE DEF line, q
    <2> QED
      BY <1>3, <1>5 DEF PpuRecord
  <1> HIDE DEF q
  <1>9. FlagOK(q)
    BY <1>1, <1>2, <1>4, <1>8, RasterAssumption
       DEF PpuOK, FlagOK, PpuRecord, Scanlines, Dots, Flags, Races, Few, NmiScanline
  <1>10. DotsOK(q)
    <2>1. p.scanline \in -1 .. VblankEnd /\ p.dots \in Int
      BY <1>1 DEF PpuRecord, Scanlines
    <2>2. LinesSince(p.scanline) \in Int /\ LinesSince(line) = LinesSince(p.scanline) + 1
      BY <2>1, RasterAssumption DEF LinesSince, NmiScanline
    <2>3. /\ Lines(LinesSince(p.scanline)) \in Int
          /\ Lines(LinesSince(line)) = Lines(LinesSince(p.scanline)) + LastDot + 1
      BY <2>2, LinesStep
    <2>4. Place(p) \in Int /\ Place(q) = Place(p) + 1
      <3> HIDE DEF line
      <3> QED
        BY <1>8, <2>3, RasterAssumption DEF Place
    <2>5. Skipped(p) => Skipped(q)
      <3> SUFFICES ASSUME Skipped(p) PROVE Skipped(q)
        OBVIOUS
      <3>1. line < PostRender /\ line # -1
        BY <2>1, RasterAssumption DEF Skipped, NmiScanline
      <3> HIDE DEF line
      <3> QED
        BY <1>4, <1>8, <3>1 DEF Skipped
    <2>6. q.dots = p.dots + 1 /\ q.length = p.length /\ q.frame_odd = p.frame_odd
      BY <1>4, <1>8
    <2> QED
      BY <2>1, <2>4, <2>5, <2>6 DEF PpuOK, DotsOK
  <1>11. PpuOK(ppu_exec(p))
    BY <1>3, <1>7, <1>9, <1>10, ShownOK DEF PpuOK
  <1>12. Moves(p, q)
    BY <1>4, <1>8 DEF Moves, EndsPicture
  <1>13. Signals(p, q)
    BY <1>4, <1>8, RasterAssumption DEF Signals, Starts, SameHistory
  <1> QED
    BY <1>3, <1>7, <1>11, <1>12, <1>13, ShownEffect DEF Effect

(* The first dot after the picture, at which a frame is counted.           *)
LEMMA NextFrame ==
    ASSUME NEW p, PpuOK(p), p.cycle = LastDot, p.scanline = PostRender - 1
    PROVE  PpuOK(ppu_exec(p)) /\ Effect(p, ppu_exec(p))
  <1> DEFINE c == Counted(p)
             q == process_scanline_first_cycle(c)
  <1>1. p \in PpuRecord
    BY DEF PpuOK
  <1>2. ppu_exec(p) = Shown(q) /\ c \in PpuRecord
    BY <1>1, LineValue
  <1>3. /\ c.dots = p.dots + 1 /\ c.scanline = p.scanline
        /\ c.frame_odd = p.frame_odd
        /\ c.prevent_vbl = p.prevent_vbl /\ c.vertical_blank = p.vertical_blank
        /\ c.nmi_on = p.nmi_on /\ c.nmi_flag = p.nmi_flag
        /\ c.seen = p.seen /\ c.raced = p.raced
        /\ c.on_at_start = p.on_at_start /\ c.enables = p.enables
    BY <1>1, LineValue
  <1>4. /\ c.scanline # VblankEnd /\ c.scanline + 1 = PostRender /\ PostRender # -1
        /\ PostRender \in Scanlines /\ 0 \in Dots /\ 0 \in Int
    BY <1>3, RasterAssumption DEF NmiScanline, Scanlines, Dots
  <1> HIDE DEF c
  <1> DEFINE b == [c EXCEPT !.cycle = 0, !.scanline = PostRender,
                            !.vertical_blank = c.vertical_blank /\ PostRender # -1]
  <1>5. q = [b EXCEPT !.frame_odd = ~b.frame_odd, !.length = c.dots, !.dots = 0]
    BY <1>4 DEF process_scanline_first_cycle
  <1>6. (c.vertical_blank /\ PostRender # -1) \in Flags
    BY DEF Flags
  <1>7. b \in PpuRecord
    BY <1>2, <1>4, <1>6 DEF PpuRecord
  <1>8. /\ b.cycle = 0 /\ b.scanline = PostRender
        /\ b.frame_odd = c.frame_odd /\ b.prevent_vbl = c.prevent_vbl
        /\ b.nmi_on = c.nmi_on /\ b.nmi_flag = c.nmi_flag
        /\ b.seen = c.seen /\ b.raced = c.raced
        /\ b.vertical_blank = (c.vertical_blank /\ PostRender # -1)
        /\ b.on_at_start = c.on_at_start /\ b.enables = c.enables
    BY <1>2 DEF PpuRecord
  <1> HIDE DEF b, q
  <1>9. (~b.frame_odd) \in Flags /\ c.dots \in Int
    BY <1>2 DEF PpuRecord, Flags
  <1>10. q \in PpuRecord
    BY <1>4, <1>5, <1>7, <1>9 DEF PpuRecord
  <1>11. /\ q.cycle = b.cycle /\ q.dots = 0 /\ q.scanline = b.scanline
         /\ q.length = c.dots /\ q.frame_odd = ~b.frame_odd
         /\ q.prevent_vbl = b.prevent_vbl /\ q.vertical_blank = b.vertical_blank
         /\ q.nmi_on = b.nmi_on /\ q.nmi_flag = b.nmi_flag
         /\ q.seen = b.seen /\ q.raced = b.raced
         /\ q.on_at_start = b.on_at_start /\ q.enables = b.enables
    BY <1>5, <1>7 DEF PpuRecord
  <1>12. /\ q.scanline = PostRender /\ q.cycle = 0 /\ q.dots = 0
         /\ q.prevent_vbl = p.prevent_vbl /\ q.nmi_on = p.nmi_on
         /\ q.nmi_flag = p.nmi_flag /\ q.seen = p.seen /\ q.raced = p.raced
         /\ q.length = p.dots + 1
         /\ q.on_at_start = p.on_at_start /\ q.enables = p.enables
    BY <1>3, <1>8, <1>11
  <1>13. q.vertical_blank = p.vertical_blank /\ q.frame_odd = ~p.frame_odd
    BY <1>1, <1>3, <1>4, <1>8, <1>11 DEF PpuRecord, Flags
  <1>14. FlagOK(q)
    BY <1>1, <1>12, <1>13, RasterAssumption
       DEF PpuOK, FlagOK, PpuRecord, Scanlines, Dots, Flags, Races, Few, NmiScanline
  <1>15. DotsOK(q)
    <2>1. LinesSince(p.scanline) = VblankEnd + 1 /\ LinesSince(q.scanline) = 0
      BY <1>12, RasterAssumption DEF LinesSince
    <2>2. Place(q) = 0
      BY <1>12, <2>1, LinesZero DEF Place
    <2>3. p.dots \in Int /\ VblankEnd + 1 \in Int /\ (VblankEnd + 1) + 1 = VblankEnd + 2
      BY <1>1, RasterAssumption DEF PpuRecord
    <2>4. Lines(VblankEnd + 1) \in Int /\ FullFrame = Lines(VblankEnd + 1) + LastDot + 1
      BY <2>3, LinesStep, LinesAll
    <2>5. Place(p) \in Int /\ Place(p) + 1 = FullFrame
      BY <2>1, <2>4, RasterAssumption DEF Place
    <2>6. p.dots = Place(p) \/ (p.dots = Place(p) - 1 /\ p.frame_odd)
      BY DEF PpuOK, DotsOK, Skipped
    <2>7. q.length = FullFrame \/ (q.length = FullFrame - 1 /\ p.frame_odd)
      BY <1>12, <2>3, <2>5, <2>6
    <2> QED
      BY <1>12, <1>13, <2>2, <2>7 DEF DotsOK
  <1>16. PpuOK(ppu_exec(p))
    BY <1>2, <1>10, <1>14, <1>15, ShownOK DEF PpuOK
  <1>17. Moves(p, q)
    BY <1>12, RasterAssumption DEF Moves, EndsPicture, NmiScanline
  <1>18. Signals(p, q)
    BY <1>12, RasterAssumption DEF Signals, Starts, SameHistory
  <1> QED
    BY <1>2, <1>10, <1>16, <1>17, <1>18, ShownEffect DEF Effect

(* Every dot keeps what is said of the PPU, and has one of these effects.  *)
LEMMA DotOK ==
    ASSUME NEW p, PpuOK(p)
    PROVE  PpuOK(ppu_exec(p)) /\ Effect(p, ppu_exec(p))
  <1>1. p.cycle \in 0 .. LastDot
    BY DEF PpuOK, PpuRecord, Scanlines, Dots, Flags, Races, Few
  <1>2. CASE p.cycle = LastDot
    BY <1>2, NextLine, NextFrame
  <1>3. CASE p.scanline = NmiScanline /\ p.cycle = 0
    BY <1>3, VblankDot
  <1>4. CASE p.scanline = -1 /\ p.cycle = 0
    BY <1>4, ClearDot
  <1>5. CASE p.scanline = -1 /\ p.cycle = LastDot - 2 /\ p.rendering /\ p.frame_odd
    BY <1>5, SkipDot
  <1>6. CASE /\ p.cycle # LastDot
             /\ ~(p.scanline = NmiScanline /\ p.cycle = 0)
             /\ ~(p.scanline = -1 /\ p.cycle = 0)
             /\ ~(p.scanline = -1 /\ p.cycle = LastDot - 2 /\ p.rendering /\ p.frame_odd)
    <2>1. p.cycle < LastDot
      BY <1>1, <1>6, RasterAssumption
    <2> QED
      BY <1>6, <2>1, PlainDot
  <1> QED
    BY <1>2, <1>3, <1>4, <1>5, <1>6

-----------------------------------------------------------------------------
(* What an access of the CPU does.                                         *)

(* What an access leaves alone, and when it changes the history: it races  *)
(* only in the cycle that starts the vertical blank and takes the NMI line *)
(* down then, and it raises the line only by enabling the NMI.             *)
SameRaster(p, q) ==
    /\ q.scanline = p.scanline /\ q.cycle = p.cycle
    /\ q.dots = p.dots /\ q.length = p.length

Answers(p, q) ==
    /\ SameRaster(p, q)
    /\ q.on_at_start = p.on_at_start
    /\ q.raced = p.raced \/ (InFirstCycle(p) /\ q.raced # "no" /\ ~q.nmi_flag)
    /\ q.enables = p.enables \/ q.enables = Count(p.enables)
    /\ q.nmi_flag => p.nmi_flag \/ q.enables = Count(p.enables)
    /\ InFirstCycle(p) /\ q.raced = "no" /\ p.nmi_flag => q.nmi_flag

LEMMA StatusRead ==
    ASSUME NEW p, PpuOK(p)
    PROVE  PpuOK(update_status_flag(p)) /\ Answers(p, update_status_flag(p))
  <1> DEFINE q == update_status_flag(p)
  <1>1. p \in PpuRecord
    BY DEF PpuOK
  <1>2. /\ q \in PpuRecord
        /\ q.scanline = p.scanline /\ q.cycle = p.cycle /\ q.frame_odd = p.frame_odd
        /\ q.length = p.length /\ q.dots = p.dots
        /\ q.vertical_blank = FALSE /\ q.nmi_flag = FALSE
        /\ q.on_at_start = p.on_at_start /\ q.enables = p.enables
    <2>1. /\ (IF p.vertical_blank THEN Count(p.seen) ELSE p.seen) \in Few
          /\ (IF InFirstCycle(p) /\ p.raced = "no" THEN "during" ELSE p.raced) \in Races
          /\ (p.prevent_vbl \/ (p.scanline = NmiScanline /\ p.cycle = 0)) \in Flags
          /\ FALSE \in Flags
      BY <1>1 DEF PpuRecord, Flags, Races, Few, Count
    <2>2. q \in PpuRecord
      BY <1>1, <2>1 DEF PpuRecord, update_status_flag
    <2>3. /\ q.scanline = p.scanline /\ q.cycle = p.cycle /\ q.frame_odd = p.frame_odd
          /\ q.length = p.length /\ q.dots = p.dots
          /\ q.vertical_blank = FALSE /\ q.nmi_flag = FALSE
          /\ q.on_at_start = p.on_at_start /\ q.enables = p.enables
      BY <1>1 DEF PpuRecord, update_status_flag
    <2> QED
      BY <2>2, <2>3
  <1>3. /\ q.seen = IF p.vertical_blank THEN Count(p.seen) ELSE p.seen
        /\ q.raced = IF InFirstCycle(p) /\ p.raced = "no" THEN "during" ELSE p.raced
        /\ q.prevent_vbl = (p.prevent_vbl \/ (p.scanline = NmiScanline /\ p.cycle = 0))
    BY <1>1 DEF update_status_flag, PpuRecord, Scanlines, Dots, Flags, Races, Few
  <1> HIDE DEF q
  <1>4. FlagOK(q)
    BY <1>1, <1>2, <1>3, RasterAssumption DEF PpuOK, FlagOK, Count, PpuRecord, Scanlines, Dots, Flags, Races, Few
  <1>5. DotsOK(q)
    BY <1>1, <1>2, RasterKept DEF PpuOK
  <1>6. Answers(p, q)
    BY <1>2, <1>3 DEF Answers, SameRaster
  <1> QED
    BY <1>2, <1>4, <1>5, <1>6 DEF PpuOK, q

LEMMA ControlWrite ==
    ASSUME NEW p, PpuOK(p), NEW on \in BOOLEAN
    PROVE  /\ PpuOK(set_control_register(p, on))
           /\ Answers(p, set_control_register(p, on))
  <1> DEFINE q == set_control_register(p, on)
  <1>1. p \in PpuRecord
    BY DEF PpuOK
  <1>2. /\ q \in PpuRecord
        /\ q.scanline = p.scanline /\ q.cycle = p.cycle /\ q.frame_odd = p.frame_odd
        /\ q.length = p.length /\ q.dots = p.dots
        /\ q.vertical_blank = p.vertical_blank /\ q.nmi_on = on
        /\ q.prevent_vbl = p.prevent_vbl /\ q.seen = p.seen
        /\ q.on_at_start = p.on_at_start
    <2>1. /\ (IF on /\ ~p.nmi_on THEN Count(p.enables) ELSE p.enables) \in Few
          /\ (IF InFirstCycle(p) /\ ~on /\ p.raced = "no" THEN "during" ELSE p.raced) \in Races
          /\ (on /\ (p.nmi_flag \/ p.vertical_blank)) \in Flags
          /\ on \in Flags
      BY <1>1 DEF PpuRecord, Flags, Races, Few, Count
    <2>2. q \in PpuRecord
      BY <1>1, <2>1 DEF PpuRecord, set_control_register
    <2>3. /\ q.scanline = p.scanline /\ q.cycle = p.cycle /\ q.frame_odd = p.frame_odd
          /\ q.length = p.length /\ q.dots = p.dots
          /\ q.vertical_blank = p.vertical_blank /\ q.nmi_on = on
          /\ q.prevent_vbl = p.prevent_vbl /\ q.seen = p.seen
          /\ q.on_at_start = p.on_at_start
      BY <1>1 DEF PpuRecord, set_control_register
    <2> QED
      BY <2>2, <2>3
  <1>3. /\ q.nmi_flag = (on /\ (p.nmi_flag \/ p.vertical_blank))
        /\ q.raced = IF InFirstCycle(p) /\ ~on /\ p.raced = "no" THEN "during" ELSE p.raced
        /\ q.enables = IF on /\ ~p.nmi_on THEN Count(p.enables) ELSE p.enables
    BY <1>1 DEF set_control_register, PpuRecord, Scanlines, Dots, Flags, Races, Few
  <1> HIDE DEF q
  <1>4. FlagOK(q)
    BY <1>1, <1>2, <1>3, RasterAssumption DEF PpuOK, FlagOK, PpuRecord, Scanlines, Dots, Flags, Races, Few
  <1>5. DotsOK(q)
    BY <1>1, <1>2, RasterKept DEF PpuOK
  <1>6. Answers(p, q)
    <2>1. p.vertical_blank /\ p.nmi_on => p.nmi_flag
      BY DEF PpuOK, FlagOK
    <2> QED
      BY <1>2, <1>3, <2>1 DEF Answers, SameRaster
  <1> QED
    BY <1>2, <1>4, <1>5, <1>6 DEF PpuOK, q

LEMMA MaskWrite ==
    ASSUME NEW p, PpuOK(p), NEW on \in BOOLEAN
    PROVE  PpuOK(set_mask_register(p, on)) /\ Answers(p, set_mask_register(p, on))
  <1> DEFINE q == set_mask_register(p, on)
  <1>1. p \in PpuRecord
    BY DEF PpuOK
  <1>2. /\ q \in PpuRecord
        /\ q.scanline = p.scanline /\ q.cycle = p.cycle /\ q.frame_odd = p.frame_odd
        /\ q.length = p.length /\ q.dots = p.dots
        /\ q.vertical_blank = p.vertical_blank /\ q.nmi_on = p.nmi_on
        /\ q.prevent_vbl = p.prevent_vbl /\ q.seen = p.seen
        /\ q.nmi_flag = p.nmi_flag /\ q.raced = p.raced
        /\ q.on_at_start = p.on_at_start /\ q.enables = p.enables
    <2>1. on \in Flags
      BY DEF Flags
    <2>2. q \in PpuRecord
      BY <1>1, <2>1 DEF PpuRecord, set_mask_register
    <2>3. /\ q.scanline = p.scanline /\ q.cycle = p.cycle /\ q.frame_odd = p.frame_odd
          /\ q.length = p.length /\ q.dots = p.dots
          /\ q.vertical_blank = p.vertical_blank /\ q.nmi_on = p.nmi_on
          /\ q.prevent_vbl = p.prevent_vbl /\ q.seen = p.seen
          /\ q.nmi_flag = p.nmi_flag /\ q.raced = p.raced
          /\ q.on_at_start = p.on_at_start /\ q.enables = p.enables
      BY <1>1 DEF PpuRecord, set_mask_register
    <2> QED
      BY <2>2, <2>3
  <1> HIDE DEF q
  <1>3. FlagOK(q)
    BY <1>2 DEF PpuOK, FlagOK
  <1>4. DotsOK(q)
    BY <1>1, <1>2, RasterKept DEF PpuOK
  <1>5. Answers(p, q)
    BY <1>2 DEF Answers, SameRaster
  <1> QED
    BY <1>2, <1>3, <1>4, <1>5 DEF PpuOK, q

LEMMA AccessOK ==
    ASSUME NEW p, PpuOK(p), NEW a \in Access
    PROVE  PpuOK(access(p, a)) /\ Answers(p, access(p, a))
  <1>1. Answers(p, p)
    BY DEF Answers, SameRaster
  <1> QED
    BY <1>1, StatusRead, ControlWrite, MaskWrite DEF access, Access

(* A CPU cycle keeps what is said of the PPU.                              *)
LEMMA CycleOK ==
    ASSUME NEW p, PpuOK(p), NEW a \in Access
    PROVE  PpuOK(run_ppu(p, a))
  <1>1. PpuOK(ppu_exec(ppu_exec(p)))
    BY DotOK
  <1>2. PpuOK(access(ppu_exec(ppu_exec(p)), a))
    BY <1>1, AccessOK
  <1> QED
    BY <1>2, DotOK DEF run_ppu

-----------------------------------------------------------------------------
(* The CPU's side of the invariant: types, the reason an NMI sequence has  *)
(* until it chooses its vector, and the interrupts it has disabled.        *)
Samples ==
    /\ prev_nmi_flag \in BOOLEAN /\ need_nmi \in BOOLEAN /\ prev_need_nmi \in BOOLEAN
    /\ irq_flag \in BOOLEAN /\ run_irq \in BOOLEAN /\ prev_run_irq \in BOOLEAN
    /\ disabled \in BOOLEAN

Executes ==
    /\ seq \in Opcodes \cup {"irq", "nmi", "none"}
    /\ left \in 0 .. Longest
    /\ nmis \in 0 .. 2

Entered ==
    seq \in Sequences => /\ (left <= 2 => disabled)
                         /\ (left <= 1 => ~run_irq)

Inv == PpuOK(ppu) /\ Samples /\ Executes /\ NoSpuriousIrq /\ Entered

LEMMA LongestBound == Longest \in Nat /\ Longest >= 7 /\ OpCycles \in Nat /\ OpCycles <= Longest
  BY OpcodesAssumption DEF Longest

LEMMA InitInv == Init => Inv
  <1> SUFFICES ASSUME Init PROVE Inv
    OBVIOUS
  <1>1. PICK d \in 0 .. LastDot :
          ppu = [scanline |-> 0, cycle |-> d, frame_odd |-> TRUE,
                 vertical_blank |-> FALSE, prevent_vbl |-> FALSE,
                 nmi_on |-> FALSE, nmi_flag |-> FALSE,
                 mask |-> FALSE, rendering |-> FALSE,
                 on_at_start |-> FALSE, raced |-> "no", seen |-> 0,
                 enables |-> 0, length |-> FullFrame,
                 dots |-> FullFrame - PostRender * (LastDot + 1) + d]
    BY DEF Init
  <1>2. /\ FullFrame \in Int /\ PostRender * (LastDot + 1) \in Int
        /\ Lines(VblankEnd + 2 - PostRender) = FullFrame - PostRender * (LastDot + 1)
    BY RasterAssumption DEF FullFrame, Lines
  <1>3. ppu \in PpuRecord
    BY <1>1, <1>2, RasterAssumption DEF PpuRecord, Scanlines, Dots, Flags, Races, Few
  <1>4. FlagOK(ppu)
    BY <1>1, RasterAssumption DEF FlagOK
  <1>5. DotsOK(ppu)
    <2>1. LinesSince(ppu.scanline) = VblankEnd + 2 - PostRender
      BY <1>1, RasterAssumption DEF LinesSince
    <2>2. Place(ppu) = FullFrame - PostRender * (LastDot + 1) + d
      BY <1>1, <1>2, <2>1 DEF Place
    <2> QED
      BY <1>1, <2>2 DEF DotsOK
  <1>6. Samples
    BY Zenon DEF Init, Samples
  <1>7. Executes /\ NoSpuriousIrq /\ Entered
    BY LongestBound DEF Init, Executes, NoSpuriousIrq, Entered, Sequences
  <1> QED
    BY <1>3, <1>4, <1>5, <1>6, <1>7 DEF Inv, PpuOK

LEMMA ExecStep == Inv /\ exec => Inv'
  <1> SUFFICES ASSUME Inv, exec PROVE Inv'
    OBVIOUS
  <1>1. PpuOK(ppu)' /\ Samples'
    BY DEF Inv, exec, Samples
  <1>2. seq' \in Opcodes /\ left' \in 2 .. Longest /\ (seq' = "brk" => left' = 7)
    BY LongestBound DEF exec, Lengths
  <1>3. seq' # "nmi" /\ seq' # "irq"
    BY <1>2, OpcodesAssumption
  <1>4. Executes'
    BY <1>2 DEF Inv, Executes, exec
  <1>5. NoSpuriousIrq' /\ Entered'
    BY <1>2, <1>3 DEF NoSpuriousIrq, Entered, Sequences
  <1> QED
    BY <1>1, <1>4, <1>5 DEF Inv

LEMMA CpuCycleStep == Inv /\ cpu_cycle => Inv'
  <1> SUFFICES ASSUME Inv, cpu_cycle PROVE Inv'
    OBVIOUS
  <1>1. PICK a \in Access : ppu' = run_ppu(ppu, a)
    BY DEF cpu_cycle, Access
  <1>2. PpuOK(ppu')
    BY <1>1, CycleOK DEF Inv
  <1>3. ppu'.nmi_flag \in BOOLEAN
    BY <1>2 DEF PpuOK, PpuRecord, Scanlines, Dots, Flags, Races, Few
  <1>4. irq_flag' \in BOOLEAN
    BY IrqLevelsAssumption DEF cpu_cycle
  <1>5. disabled' \in BOOLEAN
    BY DEF cpu_cycle, set_interrupt_flag, Inv, Samples
  <1>6. Samples'
    BY <1>3, <1>4, <1>5, Zenon DEF cpu_cycle, sample_interrupts, Samples
  <1>7. /\ left \in 1 .. Longest /\ left' \in 0 .. Longest
        /\ seq' \in Opcodes \cup {"irq", "nmi", "none"}
    BY LongestBound DEF cpu_cycle, finish_instruction, Inv, Executes
  <1>8. nmis' \in 0 .. 2
    BY DEF cpu_cycle, Count, Inv, Executes
  <1>9. NoSpuriousIrq'
    <2> SUFFICES ASSUME seq' = "nmi", left' >= 4 PROVE need_nmi'
      BY DEF NoSpuriousIrq
    <2>1. left # 4 /\ (left > 1 => seq = "nmi" /\ left >= 4)
      BY <1>7 DEF cpu_cycle, finish_instruction
    <2>2. need_nmi
      <3>1. CASE left > 1
        BY <2>1, <3>1 DEF Inv, NoSpuriousIrq
      <3>2. CASE ~(left > 1)
        BY <1>7, <3>2 DEF cpu_cycle, finish_instruction, sample_interrupts
      <3> QED
        BY <3>1, <3>2
    <2> QED
      BY <2>1, <2>2 DEF cpu_cycle, sample_interrupts, NmiSampled, ChoosesVector
  <1>10. Entered'
    <2> SUFFICES ASSUME seq' \in Sequences, left' <= 2
                 PROVE  disabled' /\ (left' <= 1 => ~run_irq')
      BY <1>7 DEF Entered
    <2>1. left > 1 /\ left' = left - 1 /\ seq' = seq
      BY <1>7 DEF cpu_cycle, finish_instruction, Sequences
    <2>2. disabled'
      BY <1>7, <2>1 DEF cpu_cycle, set_interrupt_flag, Inv, Entered, Sequences
    <2>3. disabled \/ ~(left' <= 1)
      BY <1>7, <2>1 DEF Inv, Entered
    <2>4. left' <= 1 => ~run_irq'
      BY <2>3 DEF cpu_cycle, sample_interrupts
    <2> QED
      BY <2>2, <2>4
  <1> QED
    BY <1>2, <1>6, <1>7, <1>8, <1>9, <1>10 DEF Inv, Executes

LEMMA InvStep == Inv /\ [Next]_vars => Inv'
  <1>1. Inv /\ UNCHANGED vars => Inv'
    BY DEF Inv, vars, Samples, Executes, NoSpuriousIrq, Entered
  <1> QED
    BY <1>1, ExecStep, CpuCycleStep DEF Next

LEMMA InvHolds == Spec => []Inv
  BY InitInv, InvStep, PTL DEF Spec

LEMMA InvTypes == Inv => TypeOK
  <1> SUFFICES ASSUME Inv PROVE TypeOK
    OBVIOUS
  <1>1. ppu \in PpuRecord /\ ppu.dots \in 0 .. FullFrame /\ ppu.length \in 0 .. FullFrame
    BY DotsBounded DEF Inv, PpuOK
  <1>2. ppu \in PpuState
    BY <1>1 DEF PpuRecord, Scanlines, Dots, Flags, Races, Few, PpuState
  <1> QED
    BY <1>2 DEF Inv, TypeOK, Samples, Executes

-----------------------------------------------------------------------------
(* update_status_flag, set_control_register, set_vertical_blank and the    *)
(* pre-render line together keep the CPU's NMI line equal to flag and      *)
(* enable bit, whatever the program reads and writes at whatever dot; and  *)
(* the whole state stays within its types.                                 *)
THEOREM LineFollowsFlag == Spec => []NmiLineFollowsFlag
  <1>1. Inv => NmiLineFollowsFlag
    <2> SUFFICES ASSUME Inv PROVE NmiLineFollowsFlag
      OBVIOUS
    <2>1. TypeOK
      BY InvTypes
    <2> QED
      BY <2>1 DEF Inv, PpuOK, FlagOK, NmiLineFollowsFlag
  <1> QED
    BY <1>1, InvHolds, PTL

(* Only the dot that odd frames skip while rendering is missing from a     *)
(* frame: the raster of NesPpu::exec does not drift.                       *)
THEOREM FramesKeepLength == Spec => []FrameLength
  <1>1. Inv => FrameLength
    BY DEF Inv, PpuOK, DotsOK, FrameLength
  <1> QED
    BY <1>1, InvHolds, PTL

(* irq() entered for an NMI still finds it when it chooses its vector,     *)
(* although a BRK may have served an NMI just before.                      *)
THEOREM IrqHasReason == Spec => []NoSpuriousIrq
  <1>1. Inv => NoSpuriousIrq
    BY DEF Inv
  <1> QED
    BY <1>1, InvHolds, PTL

(* An interrupt sequence ends with interrupts disabled and no IRQ sampled, *)
(* so its handler's first instruction runs.                                *)
THEOREM HandlersAreEntered == Spec => []HandlerEntered
  <1>1. Inv => HandlerEntered
    BY DEF Inv, Entered, Executes, HandlerEntered
  <1> QED
    BY <1>1, InvHolds, PTL

-----------------------------------------------------------------------------
(* How many dots an NMI may wait.  Age counts the dots since the end of    *)
(* the picture on into the next post-render line, where ppu.dots starts    *)
(* again; BlankDots is its value as the vertical blank ends.               *)
BlankDots == Lines(VblankEnd + 1 - PostRender)

Before(p) == p.scanline = PostRender \/ Starts(p)

Age(p) == IF Before(p) THEN p.dots + p.length ELSE p.dots

LEMMA BlankLong ==
    /\ BlankDots \in Int /\ BlankDots >= LastDot + 3 * Longest + 23
    /\ FullFrame \in Int /\ FullFrame + LastDot > BlankDots + 3 * Longest + 11
  <1>1. /\ BlankDots = (VblankEnd - PostRender) * (LastDot + 1) + LastDot + 1
        /\ (VblankEnd - PostRender) * (LastDot + 1) \in Int
    BY RasterAssumption DEF BlankDots, Lines
  <1>2. /\ FullFrame = BlankDots + (PostRender + 1) * (LastDot + 1)
        /\ (PostRender + 2) * (LastDot + 1) = (PostRender + 1) * (LastDot + 1) + LastDot + 1
        /\ (PostRender + 1) * (LastDot + 1) \in Int
    BY RasterAssumption DEF FullFrame, BlankDots, Lines
  <1>3. FullFrame \in Int
    BY RasterAssumption DEF FullFrame
  <1> QED
    BY <1>1, <1>2, <1>3, RasterAssumption, BlankAssumption, LongestBound

(* Where the dots of a frame are known exactly, and how far they are.      *)
LEMMA PlaceKnown ==
    ASSUME NEW p, PpuOK(p), p.scanline >= PostRender
    PROVE  /\ p.dots = Lines(p.scanline - PostRender) + p.cycle
           /\ p.length >= FullFrame - 1
  <1>1. p \in PpuRecord /\ p.scanline \in Int /\ p.length \in Int
    BY DEF PpuOK, PpuRecord, Scanlines
  <1>2. ~Skipped(p)
    BY <1>1, RasterAssumption DEF Skipped
  <1>3. p.dots = Place(p)
    BY <1>2 DEF PpuOK, DotsOK
  <1>4. LinesSince(p.scanline) = p.scanline - PostRender
    BY DEF LinesSince
  <1>5. p.length >= FullFrame - 1
    BY <1>1, BlankLong DEF PpuOK, DotsOK
  <1> QED
    BY <1>3, <1>4, <1>5 DEF Place

LEMMA LateDots ==
    ASSUME NEW p, PpuOK(p), p.scanline < PostRender
    PROVE  p.dots >= BlankDots
  <1> DEFINE k == LinesSince(p.scanline)
  <1>1. /\ p.scanline \in -1 .. VblankEnd /\ p.cycle \in 0 .. LastDot /\ p.dots \in Int
    BY DEF PpuOK, PpuRecord, Scanlines, Dots
  <1>2. k = p.scanline + VblankEnd + 2 - PostRender
    BY <1>1, RasterAssumption DEF LinesSince
  <1>3. k \in Int /\ VblankEnd + 1 - PostRender \in Int /\ VblankEnd + 1 - PostRender <= k
    BY <1>1, <1>2, RasterAssumption
  <1>4. p.dots = Lines(k) + p.cycle \/ (p.dots = Lines(k) + p.cycle - 1 /\ Skipped(p))
    <2>1. p.dots = Place(p) \/ (p.dots = Place(p) - 1 /\ Skipped(p))
      BY DEF PpuOK, DotsOK
    <2>2. Place(p) = Lines(k) + p.cycle
      BY DEF Place
    <2>3. Lines(k) \in Int
      BY <1>3, LinesStep
    <2> HIDE DEF k
    <2> QED
      BY <1>1, <2>1, <2>2, <2>3
  <1>5. p.scanline # -1 => (VblankEnd + 1 - PostRender) + 1 <= k
    BY <1>1, <1>2, RasterAssumption
  <1> HIDE DEF k
  <1>6. BlankDots <= Lines(k) /\ Lines(k) \in Int
    BY <1>3, LinesMonotone, LinesStep DEF BlankDots
  <1>7. p.scanline # -1 => BlankDots + LastDot + 1 <= Lines(k)
    <2>1. (VblankEnd + 1 - PostRender) + 1 \in Int
      BY <1>3
    <2>2. Lines((VblankEnd + 1 - PostRender) + 1) = BlankDots + LastDot + 1
      BY <1>3, LinesStep DEF BlankDots
    <2>3. p.scanline # -1 => Lines((VblankEnd + 1 - PostRender) + 1) <= Lines(k)
      BY <1>3, <1>5, <2>1, LinesMonotone
    <2> QED
      BY <2>2, <2>3
  <1>8. Skipped(p) /\ p.scanline = -1 => p.cycle = LastDot
    BY DEF Skipped
  <1> QED
    BY <1>1, <1>4, <1>6, <1>7, <1>8, BlankLong, RasterAssumption

(* The NMI line is up only before the end of the vertical blank.           *)
LEMMA EarlyDots ==
    ASSUME NEW p, PpuOK(p), p.nmi_flag
    PROVE  p.dots <= BlankDots /\ ~Before(p)
  <1>1. /\ p.scanline \in -1 .. VblankEnd /\ p.cycle \in 0 .. LastDot /\ p.dots \in Int
    BY DEF PpuOK, PpuRecord, Scanlines, Dots
  <1>2. CASE p.vertical_blank
    <2>1. \/ p.scanline > NmiScanline
          \/ p.scanline = NmiScanline /\ p.cycle > 0
      BY <1>2 DEF PpuOK, FlagOK
    <2>2. p.scanline >= PostRender + 1 /\ ~Before(p)
      BY <1>1, <2>1, RasterAssumption DEF NmiScanline, Before, Starts
    <2> DEFINE k == p.scanline - PostRender
    <2>3. k \in Int /\ k + 1 \in Int /\ k + 1 <= VblankEnd + 1 - PostRender
      BY <1>1, RasterAssumption
    <2>4. p.dots = Lines(k) + p.cycle
      BY <1>1, <2>2, PlaceKnown, RasterAssumption
    <2> HIDE DEF k
    <2>5. Lines(k + 1) = Lines(k) + LastDot + 1 /\ Lines(k) \in Int
      BY <2>3, LinesStep
    <2>6. Lines(k + 1) <= BlankDots
      BY <2>3, LinesMonotone, RasterAssumption DEF BlankDots
    <2> QED
      BY <1>1, <2>2, <2>4, <2>5, <2>6, BlankLong, RasterAssumption
  <1>3. CASE ~p.vertical_blank
    <2>1. p.scanline = -1 /\ p.cycle = 0
      BY <1>3 DEF PpuOK, FlagOK
    <2>2. ~Skipped(p) /\ ~Before(p)
      BY <2>1, RasterAssumption DEF Skipped, Before, Starts, NmiScanline
    <2>3. p.dots = Place(p)
      BY <2>2 DEF PpuOK, DotsOK
    <2>4. LinesSince(p.scanline) = VblankEnd + 1 - PostRender
      BY <2>1, RasterAssumption DEF LinesSince
    <2>5. p.dots = BlankDots + 0
      BY <2>1, <2>3, <2>4 DEF Place, BlankDots
    <2> QED
      BY <2>2, <2>5, BlankLong
  <1> QED
    BY <1>2, <1>3

LEMMA AgeStep ==
    ASSUME NEW p, PpuOK(p), NEW q, PpuOK(q), Effect(p, q)
    PROVE  Age(p) \in Int /\ Age(q) \in Int /\ Age(q) <= Age(p) + 1
  <1>1. /\ p.scanline \in -1 .. VblankEnd /\ p.cycle \in 0 .. LastDot
        /\ p.dots \in Int /\ q.dots \in Int /\ q.length \in Int
    BY DEF PpuOK, PpuRecord, Scanlines, Dots
  <1>2. p.length \in Int /\ p.length >= 0
    BY DotsBounded, BlankLong DEF PpuOK
  <1>3. Age(p) \in Int /\ Age(q) \in Int
    BY <1>1, <1>2 DEF Age
  <1>4. CASE EndsPicture(p)
    <2>1. ~Before(p) /\ q.scanline = PostRender
      BY <1>1, <1>4, RasterAssumption DEF EndsPicture, Before, Starts, NmiScanline, Effect, Moves
    <2>2. q.dots = 0 /\ q.length = p.dots + 1
      BY <1>4 DEF Effect, Moves
    <2> QED
      BY <1>1, <1>3, <2>1, <2>2 DEF Age, Before
  <1>5. CASE ~EndsPicture(p)
    <2>1. q.dots = p.dots + 1 /\ q.length = p.length
      BY <1>5 DEF Effect, Moves
    <2>2. Before(q) => Before(p)
      <3>1. q.scanline = PostRender => p.scanline = PostRender
        BY <1>1, <1>5, RasterAssumption DEF EndsPicture, NmiScanline, Effect, Moves
      <3>2. Starts(q) => p.scanline = PostRender
        BY <1>1, RasterAssumption DEF Starts, NmiScanline, Effect, Moves
      <3> QED
        BY <3>1, <3>2 DEF Before
    <2> QED
      BY <1>1, <1>2, <1>3, <2>1, <2>2 DEF Age
  <1> QED
    BY <1>3, <1>4, <1>5

(* A CPU cycle as its three dots and its access.                           *)
LEMMA CycleSteps ==
    ASSUME NEW p, PpuOK(p), NEW a \in Access
    PROVE  \E p1, p2, p3 :
             /\ PpuOK(p1) /\ PpuOK(p2) /\ PpuOK(p3) /\ PpuOK(run_ppu(p, a))
             /\ Effect(p, p1) /\ Effect(p1, p2) /\ Effect(p3, run_ppu(p, a))
             /\ Answers(p2, p3) /\ (a = "other" => p3 = p2)
  <1> DEFINE p1 == ppu_exec(p)
             p2 == ppu_exec(p1)
             p3 == access(p2, a)
  <1>1. PpuOK(p1) /\ Effect(p, p1)
    BY DotOK
  <1>2. PpuOK(p2) /\ Effect(p1, p2)
    BY <1>1, DotOK
  <1>3. PpuOK(p3) /\ Answers(p2, p3) /\ (a = "other" => p3 = p2)
    <2>1. PpuOK(p3) /\ Answers(p2, p3)
      BY <1>2, AccessOK
    <2>2. a = "other" => p3 = p2
      BY DEF access
    <2> QED
      BY <2>1, <2>2
  <1>4. run_ppu(p, a) = ppu_exec(p3)
    BY DEF run_ppu
  <1>5. PpuOK(run_ppu(p, a)) /\ Effect(p3, run_ppu(p, a))
    BY <1>3, <1>4, DotOK
  <1> HIDE DEF p1, p2, p3
  <1> QED
    BY <1>1, <1>2, <1>3, <1>5

(* The raster position, typed.                                             *)
LEMMA PlaceTypes ==
    ASSUME NEW p, PpuOK(p)
    PROVE  /\ p.scanline \in -1 .. VblankEnd /\ p.cycle \in 0 .. LastDot
           /\ p.nmi_flag \in BOOLEAN /\ p.nmi_on \in BOOLEAN /\ p.prevent_vbl \in BOOLEAN
           /\ p.on_at_start \in BOOLEAN /\ p.enables \in 0 .. 2 /\ p.dots \in Int
  BY DEF PpuOK, PpuRecord, Scanlines, Dots, Flags, Few

LEMMA CycleAge ==
    ASSUME NEW p, PpuOK(p), NEW a \in Access
    PROVE  /\ Age(p) \in Int /\ Age(run_ppu(p, a)) \in Int
           /\ Age(run_ppu(p, a)) <= Age(p) + 3
  <1> DEFINE r == run_ppu(p, a)
  <1>1. PICK p1, p2, p3 :
             /\ PpuOK(p1) /\ PpuOK(p2) /\ PpuOK(p3) /\ PpuOK(r)
             /\ Effect(p, p1) /\ Effect(p1, p2) /\ Effect(p3, r)
             /\ Answers(p2, p3)
    BY CycleSteps
  <1> HIDE DEF r
  <1>2. Age(p3) = Age(p2)
    BY <1>1 DEF Answers, SameRaster, Age, Before, Starts
  <1>3. /\ Age(p) \in Int /\ Age(p1) \in Int /\ Age(p2) \in Int /\ Age(r) \in Int
        /\ Age(p1) <= Age(p) + 1 /\ Age(p2) <= Age(p1) + 1 /\ Age(r) <= Age(p3) + 1
    BY <1>1, AgeStep
  <1> QED
    BY <1>2, <1>3 DEF r

LEMMA DotBefore ==
    ASSUME NEW p, PpuOK(p), NEW q, PpuOK(q), Moves(p, q), q.cycle # 0, q.scanline # -1
    PROVE  p.scanline = q.scanline /\ p.cycle = q.cycle - 1
  <1>1. p.cycle \in 0 .. LastDot /\ q.cycle \in 0 .. LastDot
    BY PlaceTypes
  <1>2. p.cycle # LastDot
    BY DEF Moves
  <1>3. p.scanline = q.scanline /\ q.cycle = p.cycle + 1
    BY <1>2 DEF Moves
  <1> QED
    BY <1>1, <1>3, RasterAssumption

(* Which dot of a CPU cycle starts the vertical blank, if one does.        *)
LEMMA StartCases ==
    ASSUME NEW p, PpuOK(p), NEW p1, PpuOK(p1), NEW p2, PpuOK(p2), NEW p3, PpuOK(p3),
           NEW r, PpuOK(r),
           Moves(p, p1), Moves(p1, p2), SameRaster(p2, p3), Moves(p3, r)
    PROVE  /\ ~StartsVblank(p, r) =>
                 ~Starts(p) /\ ~Starts(p1) /\ ~Starts(p3) /\ ~InFirstCycle(p2)
           /\ StartsVblank(p, r) =>
                 /\ Starts(p) \/ (p.scanline = PostRender /\ p.cycle >= LastDot - 1)
                 /\ \/ Starts(p3)
                    \/ /\ ~Starts(p3) /\ InFirstCycle(p2)
                       /\ Starts(p1) \/ (Starts(p) /\ ~Starts(p1))
  <1>1. /\ p.scanline \in -1 .. VblankEnd /\ p.cycle \in 0 .. LastDot
        /\ p1.scanline \in -1 .. VblankEnd /\ p1.cycle \in 0 .. LastDot
        /\ p2.scanline \in -1 .. VblankEnd /\ p2.cycle \in 0 .. LastDot
        /\ p3.scanline = p2.scanline /\ p3.cycle = p2.cycle
        /\ r.scanline \in -1 .. VblankEnd /\ r.cycle \in 0 .. LastDot
    BY PlaceTypes DEF SameRaster
  <1>2. NmiScanline = PostRender + 1 /\ NmiScanline # -1 /\ NmiScanline - 1 # VblankEnd
    BY RasterAssumption DEF NmiScanline
  <1>3. ASSUME Starts(p) PROVE /\ p1.scanline = NmiScanline /\ p1.cycle = 1
                               /\ p2.scanline = NmiScanline /\ p2.cycle = 2
                               /\ r.scanline = NmiScanline /\ r.cycle = 3
    BY <1>1, <1>2, <1>3, RasterAssumption DEF Starts, Moves
  <1>4. ASSUME Starts(p1) PROVE /\ p.scanline = PostRender /\ p.cycle = LastDot
                                /\ p2.scanline = NmiScanline /\ p2.cycle = 1
                                /\ r.scanline = NmiScanline /\ r.cycle = 2
    BY <1>1, <1>2, <1>4, RasterAssumption DEF Starts, Moves
  <1>5. ASSUME Starts(p3) PROVE /\ p1.scanline = PostRender /\ p1.cycle = LastDot
                                /\ p.scanline = PostRender /\ p.cycle = LastDot - 1
                                /\ r.scanline = NmiScanline /\ r.cycle = 1
    <2>1. p1.scanline = PostRender /\ p1.cycle = LastDot
      BY <1>1, <1>2, <1>5, RasterAssumption DEF Starts, Moves
    <2>2. r.scanline = NmiScanline /\ r.cycle = 1
      BY <1>1, <1>2, <1>5, RasterAssumption DEF Starts, Moves
    <2>3. p.scanline = PostRender /\ p.cycle = LastDot - 1
      BY <1>1, <1>2, <2>1, RasterAssumption DEF Moves
    <2> QED
      BY <2>1, <2>2, <2>3
  <1>6. ASSUME InFirstCycle(p2) PROVE Starts(p) \/ Starts(p1)
    <2>1. /\ p1.scanline = NmiScanline /\ p1.cycle = p2.cycle - 1 /\ p2.cycle \in {1, 2}
      BY <1>1, <1>2, <1>6, RasterAssumption DEF InFirstCycle, Moves
    <2>2. p1.cycle = 1 => p.scanline = NmiScanline /\ p.cycle = 1 - 1
      BY <1>2, <2>1, DotBefore
    <2> QED
      BY <1>1, <2>1, <2>2 DEF Starts
  <1>7. ASSUME StartsVblank(p, r) PROVE Starts(p) \/ Starts(p1) \/ Starts(p3)
    <2>1. /\ p3.scanline = NmiScanline /\ p3.cycle = r.cycle - 1 /\ r.cycle \in 1 .. 3
      BY <1>1, <1>2, <1>7, RasterAssumption DEF StartsVblank, Moves
    <2>2. p2.cycle # 0 => p1.scanline = NmiScanline /\ p1.cycle = p2.cycle - 1
      BY <1>1, <1>2, <2>1, DotBefore
    <2>3. p2.cycle # 0 /\ p1.cycle # 0 => p.scanline = NmiScanline /\ p.cycle = p1.cycle - 1
      BY <1>2, <2>2, DotBefore
    <2>4. p.scanline = NmiScanline => p.cycle = 0
      BY <1>1, <1>7 DEF StartsVblank
    <2> QED
      BY <1>1, <2>1, <2>2, <2>3, <2>4 DEF Starts
  <1>8. Starts(p) \/ Starts(p1) \/ Starts(p3) => StartsVblank(p, r)
    <2>1. Starts(p) => StartsVblank(p, r)
      BY <1>3, <1>1 DEF StartsVblank, Starts
    <2>2. Starts(p1) => StartsVblank(p, r)
      BY <1>4, <1>1, <1>2 DEF StartsVblank
    <2>3. Starts(p3) => StartsVblank(p, r)
      BY <1>5, <1>1, <1>2 DEF StartsVblank
    <2> QED
      BY <2>1, <2>2, <2>3
  <1>9. ASSUME StartsVblank(p, r), ~Starts(p3)
        PROVE  InFirstCycle(p2) /\ (Starts(p1) \/ (Starts(p) /\ ~Starts(p1)))
    <2>1. Starts(p) => InFirstCycle(p2)
      BY <1>3 DEF InFirstCycle
    <2>2. Starts(p1) => InFirstCycle(p2)
      BY <1>4 DEF InFirstCycle
    <2> QED
      BY <1>7, <1>9, <2>1, <2>2
  <1>10. ASSUME StartsVblank(p, r)
         PROVE  Starts(p) \/ (p.scanline = PostRender /\ p.cycle >= LastDot - 1)
    <2>1. Starts(p1) => p.scanline = PostRender /\ p.cycle >= LastDot - 1
      BY <1>4, RasterAssumption
    <2>2. Starts(p3) => p.scanline = PostRender /\ p.cycle >= LastDot - 1
      BY <1>5, RasterAssumption
    <2> QED
      BY <1>7, <1>10, <2>1, <2>2
  <1> QED
    BY <1>6, <1>8, <1>9, <1>10

(* The CPU cycle in which the vertical blank starts: the line was down,    *)
(* the picture is long over, and the line is up at its end exactly if the  *)
(* NMI was enabled and nothing raced, or has been enabled in this cycle.   *)
LEMMA CycleStarts ==
    ASSUME NEW p, PpuOK(p), NEW a \in Access, StartsVblank(p, run_ppu(p, a))
    PROVE  LET r == run_ppu(p, a)
           IN  /\ ~p.nmi_flag
               /\ Age(p) > BlankDots + 3 * Longest + 9
               /\ r.nmi_flag => r.enables >= 1 \/ (r.on_at_start /\ r.raced = "no")
               /\ r.on_at_start /\ r.raced = "no" => r.nmi_flag
               /\ r.scanline = NmiScanline /\ r.dots <= LastDot + 4
  <1> DEFINE r == run_ppu(p, a)
  <1>1. PICK p1, p2, p3 :
             /\ PpuOK(p1) /\ PpuOK(p2) /\ PpuOK(p3) /\ PpuOK(r)
             /\ Effect(p, p1) /\ Effect(p1, p2) /\ Effect(p3, r)
             /\ Answers(p2, p3)
    BY CycleSteps
  <1>2. StartsVblank(p, r)
    OBVIOUS
  <1> HIDE DEF r
  <1>3. /\ Starts(p) \/ (p.scanline = PostRender /\ p.cycle >= LastDot - 1)
        /\ \/ Starts(p3)
           \/ /\ ~Starts(p3) /\ InFirstCycle(p2)
              /\ Starts(p1) \/ (Starts(p) /\ ~Starts(p1))
    BY <1>1, <1>2, StartCases DEF Effect, Answers
  <1>4. ~p.nmi_flag
    <2>1. p.scanline # -1 /\ ~(p.scanline > NmiScanline) /\ ~(p.scanline = NmiScanline /\ p.cycle > 0)
      BY <1>3, PlaceTypes, RasterAssumption DEF Starts, NmiScanline
    <2> QED
      BY <2>1 DEF PpuOK, FlagOK
  <1>5. Age(p) > BlankDots + 3 * Longest + 9
    <2>1. Before(p) /\ p.scanline >= PostRender
      BY <1>3, PlaceTypes, RasterAssumption DEF Before, Starts, NmiScanline
    <2>2. p.length >= FullFrame - 1 /\ p.dots = Lines(p.scanline - PostRender) + p.cycle
      BY <2>1, PlaceKnown
    <2>3. p.dots >= LastDot - 1
      <3>1. CASE Starts(p)
        <4>1. p.scanline - PostRender = 1 /\ p.cycle = 0
          BY <3>1, RasterAssumption DEF Starts, NmiScanline
        <4>2. Lines(1) = LastDot + 1
          BY RasterAssumption DEF Lines
        <4> QED
          BY <2>2, <4>1, <4>2, RasterAssumption
      <3>2. CASE p.scanline = PostRender /\ p.cycle >= LastDot - 1
        <4>1. p.scanline - PostRender = 0
          BY <3>2, RasterAssumption
        <4> QED
          BY <2>2, <3>2, <4>1, LinesZero, PlaceTypes, RasterAssumption
      <3> QED
        BY <1>3, <3>1, <3>2
    <2>4. p.length \in Int /\ p.dots \in Int
      BY DEF PpuOK, PpuRecord
    <2>5. Age(p) = p.dots + p.length
      BY <2>1 DEF Age
    <2> QED
      BY <2>2, <2>3, <2>4, <2>5, BlankLong, RasterAssumption, LongestBound
  <1>6. r.scanline = NmiScanline /\ r.dots <= LastDot + 4
    <2>1. r.scanline = NmiScanline /\ r.cycle \in 1 .. 3
      BY <1>2 DEF StartsVblank
    <2>2. r.scanline >= PostRender /\ r.scanline - PostRender = 1
      BY <2>1, RasterAssumption DEF NmiScanline
    <2>3. r.dots = Lines(1) + r.cycle
      BY <1>1, <2>2, PlaceKnown
    <2>4. Lines(1) = LastDot + 1
      BY RasterAssumption DEF Lines
    <2> QED
      BY <2>1, <2>3, <2>4, RasterAssumption
  <1>7. r.nmi_flag <=> \/ r.on_at_start /\ r.raced = "no"
                       \/ r.nmi_flag /\ r.enables >= 1
    <2>1. CASE Starts(p3)
      BY <1>1, <2>1 DEF Effect, Signals
    <2>2. CASE ~Starts(p3) /\ InFirstCycle(p2) /\ (Starts(p1) \/ (Starts(p) /\ ~Starts(p1)))
      <3>1. /\ p2.scanline # -1 /\ p3.scanline # -1
        BY <1>1, <2>2, RasterAssumption DEF InFirstCycle, NmiScanline, Answers, SameRaster
      <3>2. p2.enables = 0 /\ (p2.nmi_flag <=> p2.on_at_start /\ p2.raced = "no")
        <4>1. CASE Starts(p1)
          BY <1>1, <4>1 DEF Effect, Signals
        <4>2. CASE Starts(p) /\ ~Starts(p1)
          <5>1. p1.enables = 0 /\ (p1.nmi_flag <=> p1.on_at_start /\ p1.raced = "no")
            BY <1>1, <4>2 DEF Effect, Signals
          <5>2. p1.scanline # -1
            BY <1>1, <2>2, <4>2, PlaceTypes, RasterAssumption
               DEF InFirstCycle, NmiScanline, Effect, Moves, Starts
          <5> QED
            BY <1>1, <4>2, <5>1, <5>2 DEF Effect, Signals, SameHistory
        <4> QED
          BY <2>2, <4>1, <4>2
      <3>3. p3.on_at_start /\ p3.raced = "no" => p3.nmi_flag
        BY <1>1, <2>2, <3>2 DEF Answers
      <3>4. p3.nmi_flag => p3.enables = 1 \/ (p3.on_at_start /\ p3.raced = "no")
        BY <1>1, <2>2, <3>2 DEF Answers, Count
      <3>5. /\ r.on_at_start = p3.on_at_start /\ r.raced = p3.raced /\ r.enables = p3.enables
            /\ r.nmi_flag <=> p3.nmi_flag
        BY <1>1, <2>2, <3>1 DEF Effect, Signals, SameHistory
      <3> QED
        BY <3>3, <3>4, <3>5
    <2> QED
      BY <1>3, <2>1, <2>2
  <1>8. r.nmi_flag => r.enables >= 1 \/ (r.on_at_start /\ r.raced = "no")
    BY <1>7
  <1>9. r.on_at_start /\ r.raced = "no" => r.nmi_flag
    BY <1>7
  <1> QED
    BY <1>4, <1>5, <1>6, <1>8, <1>9 DEF r

(* Any other CPU cycle: no race, and the line rises only by a write of     *)
(* $2000 that enables the NMI.                                             *)
LEMMA CyclePlain ==
    ASSUME NEW p, PpuOK(p), NEW a \in Access, ~StartsVblank(p, run_ppu(p, a))
    PROVE  LET r == run_ppu(p, a)
           IN  /\ r.on_at_start = p.on_at_start /\ r.raced = p.raced
               /\ r.enables = p.enables \/ r.enables = Count(p.enables)
               /\ r.nmi_flag /\ ~p.nmi_flag => a # "other" /\ r.enables = Count(p.enables)
  <1> DEFINE r == run_ppu(p, a)
  <1>1. PICK p1, p2, p3 :
             /\ PpuOK(p1) /\ PpuOK(p2) /\ PpuOK(p3) /\ PpuOK(r)
             /\ Effect(p, p1) /\ Effect(p1, p2) /\ Effect(p3, r)
             /\ Answers(p2, p3) /\ (a = "other" => p3 = p2)
    BY CycleSteps
  <1>2. ~StartsVblank(p, r)
    OBVIOUS
  <1> HIDE DEF r
  <1>3. ~Starts(p) /\ ~Starts(p1) /\ ~Starts(p3) /\ ~InFirstCycle(p2)
    BY <1>1, <1>2, StartCases DEF Effect, Answers
  <1>4. /\ p2.on_at_start = p.on_at_start /\ p2.raced = p.raced /\ p2.enables = p.enables
        /\ p2.nmi_flag => p.nmi_flag
    BY <1>1, <1>3 DEF Effect, Signals, SameHistory
  <1>5. /\ r.on_at_start = p3.on_at_start /\ r.raced = p3.raced /\ r.enables = p3.enables
        /\ r.nmi_flag => p3.nmi_flag
    BY <1>1, <1>3 DEF Effect, Signals, SameHistory
  <1>6. /\ p3.on_at_start = p2.on_at_start /\ p3.raced = p2.raced
        /\ p3.enables = p2.enables \/ p3.enables = Count(p2.enables)
        /\ p3.nmi_flag /\ ~p2.nmi_flag => a # "other" /\ p3.enables = Count(p2.enables)
    BY <1>1, <1>3 DEF Answers
  <1> QED
    BY <1>4, <1>5, <1>6 DEF r

(* A CPU cycle in the vertical blank is three dots of this frame.          *)
LEMMA CycleInBlank ==
    ASSUME NEW p, PpuOK(p), NEW a \in Access, p.scanline >= NmiScanline
    PROVE  /\ run_ppu(p, a).dots = p.dots + 3
           /\ \/ run_ppu(p, a).scanline >= NmiScanline
              \/ run_ppu(p, a).scanline < PostRender
  <1> DEFINE r == run_ppu(p, a)
             Far(x) == x.scanline >= NmiScanline \/ x.scanline = -1
  <1>1. PICK p1, p2, p3 :
             /\ PpuOK(p1) /\ PpuOK(p2) /\ PpuOK(p3) /\ PpuOK(r)
             /\ Effect(p, p1) /\ Effect(p1, p2) /\ Effect(p3, r)
             /\ Answers(p2, p3)
    BY CycleSteps
  <1> HIDE DEF r
  <1>2. ASSUME NEW x, PpuOK(x), Far(x) PROVE ~EndsPicture(x)
    BY <1>2, PlaceTypes, RasterAssumption DEF EndsPicture, NmiScanline
  <1>3. Far(p1) /\ (p1.scanline = -1 => p1.cycle = 0)
    BY <1>1, PlaceTypes, RasterAssumption DEF Effect, Moves, NmiScanline
  <1>4. Far(p2)
    BY <1>1, <1>3, PlaceTypes, RasterAssumption DEF Effect, Moves, NmiScanline
  <1>5. Far(p3)
    BY <1>1, <1>4 DEF Answers, SameRaster
  <1>6. r.scanline >= NmiScanline \/ r.scanline < PostRender
    BY <1>1, <1>5, PlaceTypes, RasterAssumption DEF Effect, Moves, NmiScanline
  <1>7. ~EndsPicture(p) /\ ~EndsPicture(p1) /\ ~EndsPicture(p3)
    BY <1>1, <1>2, <1>3, <1>5
  <1>8. p1.dots = p.dots + 1 /\ p2.dots = p1.dots + 1 /\ p3.dots = p2.dots /\ r.dots = p3.dots + 1
    BY <1>1, <1>7 DEF Effect, Moves, Answers, SameRaster
  <1>9. r.dots = p.dots + 3
    BY <1>8, PlaceTypes
  <1> QED
    BY <1>6, <1>9 DEF r

-----------------------------------------------------------------------------
(* The CPU cycles until a sampled NMI's vector is chosen, at most: a       *)
(* sequence that has not chosen yet serves it; one that has is followed by *)
(* an instruction, perhaps the longest, before irq() is entered, as is an  *)
(* instruction that ends as the line rises.                                *)
Wait(s, l) ==
    IF s \in Sequences THEN IF l >= 4 THEN l - 3 ELSE l + Longest + 4
    ELSE IF s = "none" THEN Longest + 4 ELSE l + 4

Paced == seq = "none" <=> left = 0

Bit(b) == IF b THEN 1 ELSE 0

(* A waiting NMI has a deadline, well before the next vertical blank.      *)
Deadline == need_nmi => Age(ppu) + 3 * Wait(seq, left) <= BlankDots + 3 * Longest + 12

(* The NMI of a vertical blank is either taken or waits within it.         *)
Taken ==
    ppu.on_at_start /\ ppu.raced = "no" /\ nmis = 0 =>
        /\ need_nmi /\ ppu.scanline >= NmiScanline
        /\ ppu.dots + 3 * Wait(seq, left) <= LastDot + 3 * Longest + 25

(* Each NMI taken or waiting has a cause of its own.                       *)
Caused ==
    ppu.enables < 2 =>
        nmis + Bit(need_nmi) <= ppu.enables + Bit(ppu.on_at_start /\ ppu.raced = "no")

Served == /\ Inv /\ Paced /\ prev_nmi_flag = ppu.nmi_flag
          /\ Deadline /\ Taken /\ Caused

LEMMA WaitBounds ==
    ASSUME NEW s, NEW l \in 0 .. Longest, s = "none" <=> l = 0
    PROVE  /\ Wait(s, l) \in 1 .. Longest + 7
           /\ s \notin Sequences => Wait(s, l) <= Longest + 4
  BY LongestBound DEF Wait, Sequences

LEMMA InitServed == Init => Served
  <1> SUFFICES ASSUME Init PROVE Served
    OBVIOUS
  <1>1. Inv
    BY InitInv
  <1>2. /\ ppu.nmi_flag = FALSE /\ ppu.on_at_start = FALSE /\ ppu.enables = 0
    BY DEF Init
  <1>3. /\ prev_nmi_flag = FALSE /\ need_nmi = FALSE /\ seq = "none" /\ left = 0 /\ nmis = 0
    BY DEF Init
  <1>4. Paced
    BY <1>3 DEF Paced
  <1>5. Deadline /\ Taken
    BY <1>2, <1>3 DEF Deadline, Taken
  <1>6. Caused
    BY <1>2, <1>3 DEF Caused, Bit
  <1> QED
    BY <1>1, <1>2, <1>3, <1>4, <1>5, <1>6 DEF Served

(* The next instruction does not lengthen the wait.                        *)
LEMMA ExecServed ==
    ASSUME "hlt" \notin Opcodes, Served, exec
    PROVE  Served'
  <1>1. Inv' /\ Inv
    BY ExecStep DEF Served
  <1>2. /\ seq = "none" /\ seq' \in Opcodes /\ left' \in Lengths(seq')
        /\ UNCHANGED <<ppu, prev_nmi_flag, need_nmi, nmis>>
    BY DEF exec
  <1>3. seq' \in {"op", "cli", "sei", "rti", "brk"}
    BY <1>2, OpcodesAssumption
  <1>4. left' \in 2 .. Longest /\ (seq' = "brk" => left' = 7)
    BY <1>2, <1>3, LongestBound DEF Lengths
  <1>5. Paced'
    BY <1>3, <1>4 DEF Paced, Sequences
  <1>6. Wait(seq, left) = Longest + 4
    BY <1>2 DEF Wait, Sequences
  <1>7. Wait(seq', left') \in Int /\ Wait(seq', left') <= Longest + 4
    <2>1. CASE seq' = "brk"
      BY <1>4, <2>1, LongestBound DEF Wait, Sequences
    <2>2. CASE seq' # "brk"
      <3>1. seq' \notin Sequences /\ seq' # "none" /\ left' \in 0 .. Longest /\ left' # 0
        BY <1>3, <1>4, <2>2 DEF Sequences
      <3> QED
        BY <3>1, WaitBounds
    <2> QED
      BY <2>1, <2>2
  <1>8. Age(ppu) \in Int /\ ppu.dots \in Int
    <2>1. "other" \in Access
      BY DEF Access
    <2> QED
      BY <1>1, <2>1, CycleAge, PlaceTypes DEF Inv
  <1>9. Deadline'
    <2> SUFFICES ASSUME need_nmi' PROVE Age(ppu') + 3 * Wait(seq', left') <= BlankDots + 3 * Longest + 12
      BY DEF Deadline
    <2>1. Age(ppu) + 3 * (Longest + 4) <= BlankDots + 3 * Longest + 12
      BY <1>2, <1>6 DEF Served, Deadline
    <2>2. Age(ppu') = Age(ppu)
      BY <1>2
    <2> QED
      BY <1>7, <1>8, <2>1, <2>2, BlankLong, LongestBound
  <1>10. Taken'
    <2> SUFFICES ASSUME ppu'.on_at_start, ppu'.raced = "no", nmis' = 0
                 PROVE  /\ need_nmi' /\ ppu'.scanline >= NmiScanline
                        /\ ppu'.dots + 3 * Wait(seq', left') <= LastDot + 3 * Longest + 25
      BY DEF Taken
    <2>1. need_nmi /\ ppu.scanline >= NmiScanline /\ ppu.dots + 3 * (Longest + 4) <= LastDot + 3 * Longest + 25
      BY <1>2, <1>6 DEF Served, Taken
    <2> QED
      BY <1>2, <1>7, <1>8, <2>1, RasterAssumption, LongestBound
  <1>11. Caused' /\ prev_nmi_flag' = ppu'.nmi_flag
    BY <1>2 DEF Served, Caused
  <1> QED
    BY <1>1, <1>5, <1>9, <1>10, <1>11 DEF Served

(* A CPU cycle brings a waiting NMI nearer to its vector.                  *)
LEMMA CyclePaced ==
    ASSUME "hlt" \notin Opcodes, Inv, Paced, cpu_cycle
    PROVE  /\ Paced'
           /\ Wait(seq, left) \in 1 .. Longest + 7 /\ Wait(seq', left') \in 1 .. Longest + 7
           /\ need_nmi /\ ~ChoosesVector => Wait(seq', left') <= Wait(seq, left) - 1
           /\ seq \notin Sequences => Wait(seq', left') <= Longest + 4
  <1>1. /\ left \in 1 .. Longest /\ seq \in Opcodes \cup {"irq", "nmi", "none"}
        /\ need_nmi \in BOOLEAN
    BY DEF cpu_cycle, Inv, Executes, Samples
  <1>2. seq \in {"op", "cli", "sei", "rti", "brk", "irq", "nmi"}
    BY <1>1, OpcodesAssumption DEF Paced
  <1>3. seq = "none" <=> left = 0
    BY DEF Paced
  <1>4. CASE left > 1
    <2>1. left' = left - 1 /\ seq' = seq
      BY <1>4 DEF cpu_cycle, finish_instruction
    <2>2. left' \in 1 .. Longest
      BY <1>1, <1>4, <2>1, LongestBound
    <2>3. seq' = "none" <=> left' = 0
      BY <1>2, <2>1, <2>2
    <2>4. need_nmi /\ ~ChoosesVector => Wait(seq', left') <= Wait(seq, left) - 1
      BY <1>1, <1>2, <2>1, LongestBound DEF Wait, ChoosesVector, Sequences
    <2>5. Wait(seq, left) \in 1 .. Longest + 7 /\ Wait(seq', left') \in 1 .. Longest + 7
      BY <1>1, <1>3, <2>2, <2>3, WaitBounds
    <2>6. seq \notin Sequences => Wait(seq', left') <= Longest + 4
      BY <2>1, <2>2, <2>3, WaitBounds
    <2> QED
      BY <2>3, <2>4, <2>5, <2>6 DEF Paced
  <1>5. CASE left = 1
    <2>1. \/ left' = 7 /\ seq' \in {"irq", "nmi"}
          \/ left' = 0 /\ seq' = "none"
      BY <1>5 DEF cpu_cycle, finish_instruction
    <2>2. need_nmi /\ seq \notin Sequences => left' = 7 /\ seq' \in {"irq", "nmi"}
      <3> SUFFICES ASSUME need_nmi, seq \notin Sequences
                   PROVE  left' = 7 /\ seq' \in {"irq", "nmi"}
        OBVIOUS
      <3>1. seq \notin {"brk", "hlt"} /\ seq \notin {"irq", "nmi"}
        BY <1>2 DEF Sequences
      <3>2. prev_need_nmi' = (need_nmi /\ ~(seq \in {"brk", "hlt"} /\ left = 1))
        BY DEF cpu_cycle, sample_interrupts
      <3>3. prev_need_nmi'
        BY <3>1, <3>2
      <3> QED
        BY <1>5, <3>1, <3>3 DEF cpu_cycle, finish_instruction
    <2>3. seq' = "none" <=> left' = 0
      BY <2>1 DEF Sequences
    <2>4. left' = 7 => Wait(seq', left') = 4
      BY <2>1 DEF Wait, Sequences
    <2>5. left' = 0 => Wait(seq', left') = Longest + 4
      BY <2>1 DEF Wait, Sequences
    <2>6. Wait(seq, left) = IF seq \in Sequences THEN Longest + 5 ELSE 5
      BY <1>2, <1>5, LongestBound DEF Wait, Sequences
    <2>7. need_nmi => Wait(seq', left') <= Wait(seq, left) - 1
      <3>1. CASE seq \in Sequences
        BY <2>1, <2>4, <2>5, <2>6, <3>1, LongestBound
      <3>2. CASE seq \notin Sequences
        BY <2>2, <2>4, <2>6, <3>2
      <3> QED
        BY <3>1, <3>2
    <2> QED
      BY <2>1, <2>3, <2>4, <2>5, <2>6, <2>7, LongestBound DEF Paced
  <1> QED
    BY <1>1, <1>4, <1>5

LEMMA CycleServed ==
    ASSUME "hlt" \notin Opcodes, Served, cpu_cycle
    PROVE  Served'
  <1>1. Inv /\ Inv' /\ Paced
    BY CpuCycleStep DEF Served
  <1>2. PICK a \in Access : ppu' = run_ppu(ppu, a) /\ (seq \in Sequences => a = "other")
    BY DEF cpu_cycle, Access
  <1>3. /\ Paced'
        /\ Wait(seq, left) \in 1 .. Longest + 7 /\ Wait(seq', left') \in 1 .. Longest + 7
        /\ need_nmi /\ ~ChoosesVector => Wait(seq', left') <= Wait(seq, left) - 1
        /\ seq \notin Sequences => Wait(seq', left') <= Longest + 4
    BY <1>1, CyclePaced
  <1>4. PpuOK(ppu) /\ PpuOK(ppu')
    BY <1>1 DEF Inv
  <1>5. /\ Age(ppu) \in Int /\ Age(ppu') \in Int /\ Age(ppu') <= Age(ppu) + 3
    BY <1>2, <1>4, CycleAge
  <1>6. /\ ppu.nmi_flag \in BOOLEAN /\ ppu'.nmi_flag \in BOOLEAN
        /\ ppu.dots \in Int /\ ppu'.dots \in Int
        /\ ppu.enables \in 0 .. 2 /\ ppu'.enables \in 0 .. 2
        /\ ppu.scanline \in -1 .. VblankEnd /\ ppu'.scanline \in -1 .. VblankEnd
    BY <1>4, PlaceTypes
  <1>7. /\ need_nmi \in BOOLEAN /\ nmis \in 0 .. 2
    BY <1>1 DEF Inv, Samples, Executes
  <1>8. prev_nmi_flag' = ppu'.nmi_flag
    BY DEF cpu_cycle, sample_interrupts
  <1> DEFINE sampled == need_nmi \/ (~ppu.nmi_flag /\ ppu'.nmi_flag)
             starts == StartsVblank(ppu, ppu')
             chooses == ChoosesVector
  <1>9. /\ need_nmi' <=> sampled /\ ~chooses
        /\ nmis' = IF chooses /\ sampled
                   THEN Count(IF starts THEN 0 ELSE nmis) ELSE (IF starts THEN 0 ELSE nmis)
    <2>1. NmiSampled <=> sampled
      BY DEF NmiSampled, Served
    <2>2. need_nmi' = (NmiSampled /\ ~ChoosesVector)
      BY DEF cpu_cycle, sample_interrupts
    <2>3. nmis' = IF ChoosesVector /\ NmiSampled
                  THEN Count(IF starts THEN 0 ELSE nmis) ELSE (IF starts THEN 0 ELSE nmis)
      BY DEF cpu_cycle
    <2> HIDE DEF sampled, starts
    <2> QED
      BY <2>1, <2>2, <2>3
  <1>10. starts => /\ ~ppu.nmi_flag /\ Age(ppu) > BlankDots + 3 * Longest + 9
                   /\ (ppu'.nmi_flag => ppu'.enables >= 1
                                          \/ (ppu'.on_at_start /\ ppu'.raced = "no"))
                   /\ (ppu'.on_at_start /\ ppu'.raced = "no" => ppu'.nmi_flag)
                   /\ ppu'.scanline = NmiScanline /\ ppu'.dots <= LastDot + 4
    BY <1>2, <1>4, CycleStarts
  <1>11. ~starts => /\ ppu'.on_at_start = ppu.on_at_start /\ ppu'.raced = ppu.raced
                    /\ (ppu'.enables = ppu.enables \/ ppu'.enables = Count(ppu.enables))
                    /\ (ppu'.nmi_flag /\ ~ppu.nmi_flag =>
                            a # "other" /\ ppu'.enables = Count(ppu.enables))
    BY <1>2, <1>4, CyclePlain
  <1>12. ppu.scanline >= NmiScanline =>
           /\ ppu'.dots = ppu.dots + 3
           /\ (ppu'.scanline >= NmiScanline \/ ppu'.scanline < PostRender)
    BY <1>2, <1>4, CycleInBlank
  <1>13. chooses => seq \in Sequences
    BY DEF ChoosesVector
  <1> DEFINE w == Wait(seq, left)
             v == Wait(seq', left')
  <1>14. /\ w \in 1 .. Longest + 7 /\ v \in 1 .. Longest + 7 /\ (need_nmi /\ ~chooses => v <= w - 1)
         /\ (seq \notin Sequences => v <= Longest + 4)
    BY <1>3
  <1>15. need_nmi => Age(ppu) + 3 * w <= BlankDots + 3 * Longest + 12
    BY DEF Served, Deadline
  <1>16. starts => ~need_nmi
    <2> HIDE DEF starts, w
    <2> QED
      BY <1>5, <1>10, <1>14, <1>15, BlankLong, LongestBound
  <1>17. ppu.on_at_start /\ ppu.raced = "no" /\ nmis = 0 =>
           /\ need_nmi /\ ppu.scanline >= NmiScanline
           /\ ppu.dots + 3 * w <= LastDot + 3 * Longest + 25
    BY DEF Served, Taken
  <1>18. Caused
    BY DEF Served
  <1> HIDE DEF starts, chooses, w, v
  <1>19. Deadline'
    <2> SUFFICES ASSUME need_nmi' PROVE Age(ppu') + 3 * v <= BlankDots + 3 * Longest + 12
      BY DEF Deadline, v
    <2>1. sampled /\ ~chooses
      BY <1>9
    <2>2. CASE need_nmi
      BY <1>5, <1>14, <1>15, <2>1, <2>2, BlankLong, LongestBound
    <2>3. CASE ~need_nmi
      <3>1. ~ppu.nmi_flag /\ ppu'.nmi_flag
        BY <2>1, <2>3
      <3>2. ppu'.dots <= BlankDots /\ Age(ppu') = ppu'.dots
        BY <1>4, <3>1, EarlyDots DEF Age
      <3>3. CASE starts
        BY <1>6, <1>10, <1>14, <3>2, <3>3, BlankLong, RasterAssumption, LongestBound
      <3>4. CASE ~starts
        <4>1. seq \notin Sequences
          BY <1>2, <1>11, <3>1, <3>4
        <4> QED
          BY <1>6, <1>14, <3>2, <4>1, BlankLong, LongestBound
      <3> QED
        BY <3>3, <3>4
    <2> QED
      BY <2>2, <2>3
  <1>20. Taken'
    <2> SUFFICES ASSUME ppu'.on_at_start, ppu'.raced = "no", nmis' = 0
                 PROVE  /\ need_nmi' /\ ppu'.scanline >= NmiScanline
                        /\ ppu'.dots + 3 * v <= LastDot + 3 * Longest + 25
      BY DEF Taken, v
    <2>1. ~(chooses /\ sampled) /\ (~starts => nmis = 0)
      <3>1. Count(IF starts THEN 0 ELSE nmis) # 0
        BY <1>7 DEF Count
      <3> HIDE DEF sampled
      <3> QED
        BY <1>7, <1>9, <3>1
    <2>2. CASE starts
      <3>1. sampled
        BY <1>10, <2>2
      <3>2. need_nmi'
        BY <1>9, <2>1, <3>1
      <3> QED
        BY <1>6, <1>10, <1>14, <2>2, <3>2, RasterAssumption, LongestBound DEF NmiScanline
    <2>3. CASE ~starts
      <3>1. need_nmi /\ ppu.scanline >= NmiScanline /\ ppu.dots + 3 * w <= LastDot + 3 * Longest + 25
        BY <1>11, <1>17, <2>1, <2>3
      <3>2. need_nmi' /\ ~chooses
        BY <1>9, <2>1, <3>1
      <3>3. ppu'.dots = ppu.dots + 3 /\ ppu'.dots + 3 * v <= LastDot + 3 * Longest + 25
        BY <1>6, <1>12, <1>14, <3>1, <3>2, RasterAssumption, LongestBound
      <3>4. ~(ppu'.scanline < PostRender)
        <4>1. ppu'.dots < BlankDots
          BY <1>6, <1>14, <3>3, BlankLong, RasterAssumption, LongestBound
        <4>2. ppu'.scanline < PostRender => ppu'.dots >= BlankDots
          BY <1>4, LateDots
        <4> QED
          BY <1>6, <4>1, <4>2, BlankLong
      <3> QED
        BY <1>12, <3>1, <3>2, <3>3, <3>4
    <2> QED
      BY <2>2, <2>3
  <1>21. Caused'
    <2> DEFINE cause == Bit(ppu.on_at_start /\ ppu.raced = "no")
               cause2 == Bit(ppu'.on_at_start /\ ppu'.raced = "no")
    <2> SUFFICES ASSUME ppu'.enables < 2
                 PROVE  nmis' + Bit(need_nmi') <= ppu'.enables + cause2
      BY DEF Caused
    <2>1. cause \in 0 .. 1 /\ cause2 \in 0 .. 1
      BY DEF Bit
    <2>2. Bit(need_nmi) = IF need_nmi THEN 1 ELSE 0
      BY DEF Bit
    <2>3. nmis' + Bit(need_nmi') <= (IF starts THEN 0 ELSE nmis) + Bit(sampled)
      <3> HIDE DEF sampled
      <3> QED
        BY <1>7, <1>9 DEF Count, Bit
    <2>4. nmis' + Bit(need_nmi') \in Int
      <3> HIDE DEF sampled
      <3> QED
        BY <1>7, <1>9 DEF Count, Bit
    <2>5. CASE starts
      <3>1. sampled => ppu'.nmi_flag
        BY <1>16, <2>5
      <3>2. sampled => ppu'.enables >= 1 \/ cause2 = 1
        BY <1>10, <2>5, <3>1 DEF Bit
      <3>3. Bit(sampled) <= ppu'.enables + cause2
        <4> HIDE DEF sampled, cause2
        <4> QED
          BY <1>6, <2>1, <3>2 DEF Bit
      <3> HIDE DEF sampled, cause2
      <3>4. Bit(sampled) \in Int
        BY DEF Bit
      <3> QED
        BY <1>6, <2>1, <2>3, <2>4, <2>5, <3>3, <3>4
    <2>6. CASE ~starts
      <3>1. cause2 = cause
        BY <1>11, <2>6
      <3>2. /\ ppu'.enables = ppu.enables \/ ppu'.enables = Count(ppu.enables)
            /\ (sampled /\ ~need_nmi => ppu'.enables = Count(ppu.enables))
        BY <1>11, <2>6
      <3>3. ppu.enables < 2 /\ Count(ppu.enables) = ppu.enables + 1
        BY <1>6, <3>2 DEF Count
      <3>4. nmis + Bit(need_nmi) <= ppu.enables + cause
        BY <1>18, <3>3 DEF Caused
      <3>5. Bit(sampled) <= Bit(need_nmi) + (ppu'.enables - ppu.enables)
        <4>1. sampled => need_nmi \/ ppu'.enables = ppu.enables + 1
          BY <3>2, <3>3
        <4> HIDE DEF sampled
        <4> QED
          BY <1>6, <3>2, <3>3, <4>1 DEF Bit
      <3> HIDE DEF sampled, cause, cause2
      <3>6. Bit(sampled) \in Int /\ Bit(need_nmi) \in Int
        BY DEF Bit
      <3> QED
        BY <1>6, <1>7, <2>1, <2>3, <2>4, <2>6, <3>1, <3>4, <3>5, <3>6
    <2> QED
      BY <2>5, <2>6
  <1> QED
    BY <1>1, <1>3, <1>8, <1>19, <1>20, <1>21 DEF Served

LEMMA ServedHolds ==
    ASSUME "hlt" \notin Opcodes
    PROVE  Spec => []Served
  <1>1. Served /\ UNCHANGED vars => Served'
    BY InvStep DEF Served, vars, Paced, Deadline, Taken, Caused
  <1>2. Served /\ [Next]_vars => Served'
    BY <1>1, ExecServed, CycleServed DEF Next
  <1> QED
    BY <1>2, InitServed, PTL DEF Spec

(* An NMI that is enabled as the vertical blank begins, by a program that  *)
(* does not race with it, is taken before the vertical blank ends, at      *)
(* whatever point of an instruction or an interrupt sequence it comes, on  *)
(* every raster on which the blank is as long as BlankAssumption says; a   *)
(* CPU that executes HLT takes no interrupts.                              *)
THEOREM NmiIsTaken ==
    ASSUME "hlt" \notin Opcodes
    PROVE  Spec => []NmiNotLost
  <1>1. Served => NmiNotLost
    <2> SUFFICES ASSUME Served, ppu.scanline = 0, ppu.on_at_start, ppu.raced = "no"
                 PROVE  nmis >= 1
      BY DEF NmiNotLost
    <2>1. nmis \in 0 .. 2
      BY DEF Served, Inv, Executes
    <2>2. ~(0 >= NmiScanline)
      BY RasterAssumption DEF NmiScanline
    <2>3. nmis # 0
      BY <2>2 DEF Served, Taken
    <2> QED
      BY <2>1, <2>3
  <1> QED
    BY <1>1, ServedHolds, PTL

(* No NMI is taken twice or left over from the vertical blank before: each *)
(* one has the start of the vertical blank or an enabling write of $2000   *)
(* to itself, although the sampled edge, the taken and the waiting NMI are *)
(* kept in three places.                                                   *)
THEOREM NmisAreCaused ==
    ASSUME "hlt" \notin Opcodes
    PROVE  Spec => []NmiHasCause
  <1>1. Served => NmiHasCause
    <2> SUFFICES ASSUME Served PROVE NmiHasCause
      OBVIOUS
    <2>1. nmis \in 0 .. 2 /\ ppu.enables \in 0 .. 2
      BY PlaceTypes DEF Served, Inv, Executes
    <2>2. ppu.enables < 2 =>
            nmis + Bit(need_nmi) <= ppu.enables + Bit(ppu.on_at_start /\ ppu.raced = "no")
      BY DEF Served, Caused
    <2> QED
      BY <2>1, <2>2 DEF NmiHasCause, Bit
  <1> QED
    BY <1>1, ServedHolds, PTL

=============================================================================
