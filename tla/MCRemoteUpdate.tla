-------------------------- MODULE MCRemoteUpdate --------------------------
(* A small instance of RemoteUpdate for TLC.                               *)
EXTENDS RemoteUpdate

MCBounds ==
  {[start |-> 1, command |-> 2, upload |-> 0, lose |-> 2],
   [start |-> 1, command |-> 3, upload |-> 0, lose |-> 1],
   [start |-> 2, command |-> 1, upload |-> 0, lose |-> 0],
   [start |-> 1, command |-> 1, upload |-> 1, lose |-> 0],
   [start |-> 0, command |-> 1, upload |-> 1, lose |-> 1]}
=============================================================================
