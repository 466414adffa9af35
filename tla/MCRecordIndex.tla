--------------------------- MODULE MCRecordIndex ---------------------------
(* A small instance of RecordIndex for TLC. *)
EXTENDS RecordIndex, TLC

Symmetry == Permutations(Kinds)
MCSteps == {0, 1, 4}
MCHours == {0, 1}
MCClocks == {0, 5}
MCBounds ==
  {[frame |-> 4, open |-> 1, search |-> 1, jump |-> 1, crash |-> 0],
   [frame |-> 4, open |-> 2, search |-> 0, jump |-> 1, crash |-> 1],
   [frame |-> 3, open |-> 2, search |-> 1, jump |-> 0, crash |-> 1],
   [frame |-> 3, open |-> 1, search |-> 2, jump |-> 0, crash |-> 0]}
=============================================================================
