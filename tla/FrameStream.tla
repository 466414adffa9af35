---------------------------- MODULE FrameStream ----------------------------
(***************************************************************************)
(* What the frame pool of one stream promises its readers: a broadcast     *)
(* that loses old frames but no new ones, and that gives each reader what  *)
(* is kept in the order it was put.  A reader that is too slow misses      *)
(* frames, and only those that are kept no more; then, and when it is      *)
(* moved, it begins anew at any frame that is kept.                        *)
(*                                                                         *)
(* Rings, laps, slots and bytes are not seen here; FrameBuffer has them,   *)
(* and is shown to implement this.                                         *)
(***************************************************************************)
EXTENDS Integers

CONSTANT Readers

VARIABLES
  published,   \* frames put so far; they are numbered from 1
  kept,        \* those that can still be had
  last,        \* the frame each reader got last, 0 when it begins anew
  busy         \* readers that work on what they were given

streamVars == <<published, kept, last, busy>>

StreamInit ==
  /\ published = 0 /\ kept = {}
  /\ last = [u \in Readers |-> 0] /\ busy = [u \in Readers |-> FALSE]

Put ==
  /\ published' = published + 1
  /\ published' \in kept' /\ kept' \subseteq kept \cup {published'}
  /\ UNCHANGED <<last, busy>>

\* The next in order, unless there is none before it or it is lost.
MayFollow(u, n) ==
  \/ last[u] = 0
  \/ n = last[u] + 1
  \/ n > last[u] + 1 /\ last[u] + 1 \notin kept

Gives(u) ==
  /\ ~busy[u] /\ busy' = [busy EXCEPT ![u] = TRUE]
  /\ UNCHANGED <<published, kept>>

Deliver(u) ==
  /\ Gives(u)
  /\ \E n \in kept : MayFollow(u, n) /\ last' = [last EXCEPT ![u] = n]

\* A reader that begins anew may be given what is no frame.
Stray(u) == Gives(u) /\ last[u] = 0 /\ UNCHANGED last

Finish(u) ==
  /\ busy[u] /\ busy' = [busy EXCEPT ![u] = FALSE]
  /\ UNCHANGED <<published, kept, last>>

Reposition(u) ==
  /\ ~busy[u] /\ last' = [last EXCEPT ![u] = 0]
  /\ UNCHANGED <<published, kept, busy>>

StreamNext ==
  Put \/ \E u \in Readers : Deliver(u) \/ Stray(u) \/ Finish(u) \/ Reposition(u)

StreamSpec == StreamInit /\ [][StreamNext]_streamVars
=============================================================================
