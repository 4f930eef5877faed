---------------------------- MODULE MCThroughput ----------------------------
(* Two CPUs whose counts a lookup can tear, three frames, a window of two    *)
(* samples, and differences that wrap around far above what can arrive.      *)
EXTENDS Throughput
=============================================================================
