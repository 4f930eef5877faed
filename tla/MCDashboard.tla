---------------------------- MODULE MCDashboard ----------------------------
(* A TCP conversation of two hosts, which either end may open, and a UDP one  *)
(* of a host with itself; three flows let one of them expire and be reopened *)
(* beside the other.                                                         *)
EXTENDS Dashboard

MCConversations == {<<{1, 2}, "tcp">>, <<{1}, "udp">>}
MCProtos == <<"", "tcp", "udp">>

\* One key of each meaning: k, j and ctrl+c do in the main view what up, down
\* and q do, and d and h do nothing anywhere.
MCKeys == {"q", "esc", "enter", "up", "down", "p", "f", "s", "?"}
=============================================================================
