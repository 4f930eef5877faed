---------------------------- MODULE MCRingBuffer ----------------------------
(* Three slots and three distinguishable packets: the buffer overflows, and  *)
(* every slot is overwritten while a reader still holds its copy.            *)
EXTENDS RingBuffer

CONSTANTS ui, p1, p2, p3
MCReaders == {ui}
MCPackets == {p1, p2, p3}
=============================================================================
