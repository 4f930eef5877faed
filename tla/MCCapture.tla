------------------------------ MODULE MCCapture ------------------------------
(* Two CPUs, so that records are completed out of order, before a ring and a *)
(* channel that few frames fill.                                             *)
EXTENDS Capture

MCCPUs == {1, 2}
=============================================================================
