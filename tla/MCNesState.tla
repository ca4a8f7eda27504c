----------------------------- MODULE MCNesState -----------------------------
(***************************************************************************)
(* Saving and restoring on every board of the mapper factory, but for the  *)
(* three that leave a member out of their state.                           *)
(***************************************************************************)
EXTENDS NesState

Unserialised == {45, 70, 71}
AllMappers == {n \in 0 .. 255 : is_supported(n)} \cup {12}
SoundMappers == AllMappers \ Unserialised

(* Boards of ROMs that nes-db.txt lists with 2 KB of work RAM.  They are   *)
(* among SoundMappers; alone, with RamSizes = {2}, they show how           *)
(* AlwaysSavable fails (README, Disagreements).                            *)
SmallRamMappers == {3, 75, 206}

=============================================================================
