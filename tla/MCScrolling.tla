---------------------------- MODULE MCScrolling ----------------------------
(* A terminal too low for the drill-down, one that has room for three rows of *)
(* the table and one for four; more rows than are shown; a main view that     *)
(* fits and one that does not; a packet history so long that its replacement  *)
(* upsets the estimate of the keys.                                           *)
EXTENDS Scrolling

MCWidths == {80}
MCHeights == {2, 8, 16}
MCLines == {9, 12}
MCContents == {0, 12}
=============================================================================
