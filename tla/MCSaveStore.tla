----------------------------- MODULE MCSaveStore -----------------------------
(* TLC instance of SaveStore: states of one and of two writes.  With the   *)
(* two running copies of MCTwo, SlotIsWhole fails (README, Disagreements). *)
EXTENDS SaveStore

CONSTANTS i1, i2, rom, other

MCOne == {i1}
MCTwo == {i1, i2}
MCContents == {rom, other}
MCOneContent == {rom}
MCSizes == {1, 2}

=============================================================================
