---------------------------- MODULE MCNesAudioRing ---------------------------
(* TLC instance of NesAudioRing: the ring is scaled from eight packets to  *)
(* three, and enough chunks are mixed for it to overflow and wrap twice.   *)
EXTENDS NesAudioRing

=============================================================================
