--------------------------- MODULE MCRecordFiles ---------------------------
(* A small instance of RecordFiles for TLC: two days of two hours.         *)
EXTENDS RecordFiles

MCOrder == <<1, 2>>
MCBounds ==
  {[open |-> 3, event |-> 3, fail |-> 0, stop |-> 0, crash |-> 1, search |-> 0],
   [open |-> 2, event |-> 3, fail |-> 1, stop |-> 1, crash |-> 0, search |-> 0],
   [open |-> 2, event |-> 3, fail |-> 0, stop |-> 0, crash |-> 0, search |-> 1],
   [open |-> 1, event |-> 2, fail |-> 0, stop |-> 0, crash |-> 0, search |-> 2]}
=============================================================================
