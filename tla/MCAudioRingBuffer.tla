-------------------------- MODULE MCAudioRingBuffer --------------------------
(* TLC instance of AudioRingBuffer: a ring of 6 samples (3 stereo frames), *)
(* packets that fit, that wrap, that overflow, and that exceed the ring.   *)
EXTENDS AudioRingBuffer

MCPushCounts == {2, 4, 8}
MCPopCounts == {2, 4}

=============================================================================
