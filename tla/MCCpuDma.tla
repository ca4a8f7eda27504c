------------------------------- MODULE MCCpuDma ------------------------------
(* TLC instance of CpuDma: a page of two bytes, samples of one and two     *)
(* bytes, and an odd output period, so that fetches start on get and on    *)
(* put cycles in turn, long enough for a fetch to end before the next one  *)
(* starts and short enough for a fetch to meet a sprite DMA at any point.  *)
EXTENDS CpuDma

MCSampleLengths == {1, 2}
MCOutputPeriods == {9}

=============================================================================
