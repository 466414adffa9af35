--------------------------- MODULE MCFrameBuffer ---------------------------
(***************************************************************************)
(* Small pools for TLC.  Four units and frames of one or two: a lap of     *)
(* four small frames ends at the end of the list (MaxFrm = 3) before the   *)
(* bytes do, two large ones end it by size, and laps of different lengths  *)
(* follow each other, so both lap changes and every order of them occur.   *)
(***************************************************************************)
EXTENDS FrameBuffer
=============================================================================
