----------------------------- MODULE MCNmiTiming -----------------------------
(* TLC instance of NmiTiming: thirteen scanlines of seven dots. As on the  *)
(* real raster, a full frame is not a whole number of CPU cycles, so that  *)
(* the accesses fall on every dot in turn, and the vertical blank and the  *)
(* picture are longer than the longest instruction and interrupt sequence. *)
(* IRQ sources have an arbitrary level in every cycle; BRK starts an       *)
(* interrupt sequence of its own, CLI and RTI clear the interrupt flag.    *)
EXTENDS NmiTiming

MCOpcodes == {"op", "cli", "rti", "brk"}
MCIrqLevels == BOOLEAN

=============================================================================
