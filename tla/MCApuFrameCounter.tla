-------------------------- MODULE MCApuFrameCounter --------------------------
(* TLC instance of ApuFrameCounter: the step tables scaled so that the gap *)
(* between steps is a few cycles, the last three steps of each table being *)
(* as far apart as in STEP_CYCLES_NTSC.                                    *)
EXTENDS ApuFrameCounter

MCStepCycles ==
    [m \in Modes |->
        [s \in Steps |->
            IF m = 0 THEN <<4, 8, 12, 16, 17, 18>>[s + 1]
                     ELSE <<4, 8, 12, 16, 20, 21>>[s + 1]]]
MCLengthLoads == {1, 2}

=============================================================================
