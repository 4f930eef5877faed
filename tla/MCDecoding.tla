----------------------------- MODULE MCDecoding -----------------------------
(* Frames that end within and right behind each of the headers, with and     *)
(* without IP options; labels whose bytes could be taken for a length or for *)
(* a pointer; arbitrary bodies of a few bytes, which are too short, just     *)
(* long enough and too long for the questions announced.                     *)
EXTENDS Decoding

MCLengths == {13, 14, 33, 34, 37, 38, 41, 42, 45, 46, 53, 54, 57, 58, 93, 94, 113, 114}
MCLabels == {<<1>>, <<0, 192>>}
MCBytewise == {0, 1, 2, 192}
=============================================================================
