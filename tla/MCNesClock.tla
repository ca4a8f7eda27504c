----------------------------- MODULE MCNesClock -----------------------------
(***************************************************************************)
(* Every timer board without controllers, and every kind of controllers    *)
(* without a timer: the two share no state.  Nibbles are bits, so that a   *)
(* 16-bit counter has 16 values; a scanline is 8 dots, which as with 341   *)
(* leaves a remainder of 2 after whole CPU cycles.  The keyboard has one   *)
(* row: no key is ever down, so no read tells the rows apart, and two      *)
(* values for $4016 are enough: the strobe, with the Vs. bank, or not.     *)
(***************************************************************************)
EXTENDS NesClock

MCGames ==
    (TimerBoards \X {"unused"}) \cup ({"none"} \X {"nes", "topology", "vs"})

MCPadValues ==
    {[strobe |-> s, column |-> ~s, enable |-> s] : s \in BOOLEAN}

=============================================================================
