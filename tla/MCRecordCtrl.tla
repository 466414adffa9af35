---------------------------- MODULE MCRecordCtrl ----------------------------
(***************************************************************************)
(* A clock of short hours for TLC: it can jump within an hour, across its  *)
(* end, forward and back before the file began, and between the 31st and   *)
(* the next 1st, the two days, which have one number.                      *)
(***************************************************************************)
EXTENDS RecordCtrl

TiedDays == [d \in 0..1 |-> 1]
=============================================================================
