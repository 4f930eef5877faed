--------------------------- MODULE MCEventReader ---------------------------
(* A log of three messages, of which the dashboard asks for two: the start   *)
(* alone writes four, so it overflows, and two edges with another message    *)
(* between them fit in.                                                      *)
EXTENDS EventReader
=============================================================================
