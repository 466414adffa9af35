---------------------------- MODULE RecordIndex ----------------------------
(***************************************************************************)
(* One hour of video on the disk (record/RecordManage.cpp): the 264 file,  *)
(* its index of I frames, and the day's list of events that a client       *)
(* searches.  The recorder appends to the first two.  When it closes the   *)
(* file, when a client searches a day that is being recorded, and when a   *)
(* file that was not closed is repaired, the index is divided into events  *)
(* and each is put into the list; nothing keeps two of them from doing so  *)
(* at once.  When the clock is set within the hour the recorder moves back *)
(* in the files (RederectFilePosition).  A crash loses what stdio had not  *)
(* written.                                                                *)
(*                                                                         *)
(* The recorder is one actor: RecordCtrl shows that its two threads are    *)
(* never in the files at once.  An I frame stands for the frames up to the *)
(* next one, and every such group is one unit long: video[p] is the time   *)
(* of the group at p, and the header is left out of the offsets.           *)
(***************************************************************************)
EXTENDS Integers, Sequences, FiniteSets

CONSTANTS
  HourLen, DayLen,  \* seconds
  Gap,              \* I frames this far apart belong to two events (20 s)
  After,             \* added to the last I frame before a gap (5 s)
  MinIFrames,       \* an index with fewer entries is not divided (5)
  Slack,            \* an end this near to a full hour is moved to it (20 s)
  Slight,           \* and a start this near (8 s)
  JumpLen,          \* a clock that differs by more was set (20 s)
  Kinds,            \* RECORD_KIND
  Hours,            \* hours looked at
  Steps,            \* bound: seconds from one I frame to the next
  Clocks,           \* bound: seconds of the hour the clock is set to
  Bounds            \* bounds: how often each thing of Chances may happen

Chances == {"frame", "open", "search", "jump", "crash"}

ASSUME IndexAssumption ==
  /\ HourLen \in Nat \ {0} /\ DayLen \in Nat /\ DayLen % HourLen = 0
  /\ HourLen < DayLen
  /\ Gap \in Nat /\ After \in Nat /\ MinIFrames \in Nat \ {0}
  /\ {Slack, Slight} \subseteq Nat \ {0, 1} /\ JumpLen \in Nat
  /\ Slack <= HourLen /\ 2 * Slight <= HourLen
  /\ After < Slack /\ After <= Gap /\ After * MinIFrames < HourLen
  /\ Hours \subseteq 0..((DayLen \div HourLen) - 1)
  /\ Steps \subseteq Nat
  /\ Clocks \subseteq 0..(HourLen - 1)
  /\ Bounds \subseteq [Chances -> Nat]

VARIABLES
  hour,                  \* the hour of the file
  now,                   \* time of the newest frame, s since a midnight: the
                         \* file's day is the second day
  video, fpos,           \* the 264 file and its write position (m_pRecFp)
  dirty,                 \* written since it was opened
  m_bNonStop,            \* its header: not closed yet
  m_offset,              \* where the recorder takes that position to be
  idx, ipos,             \* the index file and its write position
  list,                  \* the day's list file
  rpc,                   \* the recorder
  todo,                  \* events a writer of the list has still to put in
  eof,                   \* where it will put the next one, once it has read
  left,                  \* how often each chance may still come
  spoilt                 \* history: what went wrong (see the properties)

fileVars == <<video, fpos, dirty, m_bNonStop, m_offset, idx, ipos>>
listVars == <<list, todo, eof>>
vars == <<hour, now, fileVars, listVars, rpc, left, spoilt>>

-----------------------------------------------------------------------------
Day == 0..(DayLen - 1)
Writers == {"recorder", "search"}
Unread == 0                         \* the list has not been read to its end
Hole == -1                          \* what a file holds where nobody wrote

\* The file s after x was written at p.
Put(s, p, x, hole) ==
  [i \in 1..(IF p > Len(s) THEN p ELSE Len(s)) |->
     IF i = p THEN x ELSE IF i <= Len(s) THEN s[i] ELSE hole]

Entry == [time : Nat, off : Nat, kind : Kinds \cup {"none"}]
Zeroed == [time |-> 0, off |-> 0, kind |-> "none"]   \* cleared by memset
Event == [first : Nat, start : Int, end : Int, from : Nat, to : Nat,
          kind : Kinds \cup {"none"}]
Item == [event : Event, deleted : BOOLEAN]

TypeOK ==
  /\ hour \in Hours /\ now \in Nat
  /\ video \in Seq(Nat \cup {Hole}) /\ fpos \in Nat
  /\ dirty \in BOOLEAN /\ m_bNonStop \in BOOLEAN
  /\ m_offset \in Nat
  /\ idx \in Seq(Entry) /\ ipos \in 1..(Len(idx) + 1)
  /\ list \in Seq(Item)
  /\ rpc \in {"closed", "open", "listing", "down", "repair"}
  /\ todo \in [Writers -> SUBSET Event] /\ eof \in [Writers -> Nat]
  /\ \A w \in Writers : eof[w] # Unread => todo[w] # {} /\ eof[w] <= Len(list) + 1
  /\ left \in [Chances -> Nat]
  /\ spoilt \subseteq {"jumped", "lost", "raced", "met", "stale", "unlisted", "mended"}

Init ==
  /\ hour \in Hours /\ now = DayLen + hour * HourLen - 2
  /\ video = <<>> /\ fpos = 1 /\ dirty = FALSE /\ m_bNonStop = FALSE /\ m_offset = 0
  /\ idx = <<>> /\ ipos = 1
  /\ list = <<>>
  /\ rpc = "closed"
  /\ todo = [w \in Writers |-> {}] /\ eof = [w \in Writers |-> Unread]
  /\ left \in Bounds /\ spoilt = {}

Spend(what) ==
  /\ left[what] > 0
  /\ left' = [left EXCEPT ![what] = @ - 1]

-----------------------------------------------------------------------------
(* ParserEvenFromIframeIndex.  It first mends the times of the index, in   *)
(* the file itself: one of the first entries is not late in the day, and   *)
(* the last is not just after midnight.                                    *)

MendFirst(s) ==
  [i \in 1..Len(s) |->
     IF i <= MinIFrames /\ s[i].time > DayLen - Slack
     THEN [s[i] EXCEPT !.time = After * (i - 1)] ELSE s[i]]

MendLast(s) ==
  [i \in 1..Len(s) |->
     IF i = Len(s) /\ s[i].time < Slack
     THEN [s[i] EXCEPT !.time = DayLen - 1] ELSE s[i]]

Mended(s) == IF Len(s) < MinIFrames THEN MendFirst(s) ELSE MendLast(MendFirst(s))

\* The times are unsigned: one that goes back is far ahead.
Jumps(a, b) == \/ b.time < a.time
               \/ b.time - a.time >= Gap

\* Entries at which an event begins.
Breaks(s, i) == \/ i = 1
                \/ s[i - 1].kind # s[i].kind
                \/ Jumps(s[i - 1], s[i])
Starts(s) == {i \in 1..Len(s) : Breaks(s, i)}

HourOf(t) == t \div HourLen
NextHour(t) == ((HourOf(t) + 1) * HourLen) % DayLen
LastSecond(h) == h * HourLen + HourLen - 1

FixEvenItenStartTime(t) ==
  IF t % HourLen < Slight THEN t - (t % HourLen)
  ELSE IF t % HourLen > HourLen - Slight THEN NextHour(t) ELSE t

FixEvenItenEndTime(t) ==
  IF t % HourLen > HourLen - Slack THEN LastSecond(HourOf(t))
  ELSE IF t % HourLen < Slack
       THEN IF HourOf(t) = 0 THEN DayLen - 1 ELSE LastSecond(HourOf(t) - 1)
       ELSE t

\* The event of the entries i..j-1, where j begins the next one.
ClosedEvent(s, i, j) ==
  LET jump == Jumps(s[j - 1], s[j]) IN
  [first |-> i,
   start |-> IF i = 1 THEN FixEvenItenStartTime(s[i].time) ELSE s[i].time,
   end   |-> IF jump THEN s[j - 1].time + After ELSE s[j].time,
   from  |-> s[i].off,
   to    |-> IF jump /\ s[i].time # s[j - 1].time THEN s[j - 1].off ELSE s[j].off,
   kind  |-> s[i].kind]

\* The event of the entries from i to the last.
LastEvent(s, i) ==
  [first |-> i,
   start |-> s[i].time,
   end   |-> FixEvenItenEndTime(s[Len(s)].time),
   from  |-> s[i].off, to |-> s[Len(s)].off,
   kind  |-> s[i].kind]

Follows(s, i, j) ==                 \* j begins the event after the one of i
  /\ i < j
  /\ \A k \in Starts(s) : ~(i < k /\ k < j)

\* fault: the last event is not closed by the end of the index
EventsButLast(s) ==
  IF Len(s) < MinIFrames THEN {}
  ELSE {ClosedEvent(s, p[1], p[2]) :
          p \in {q \in Starts(s) \X Starts(s) : Follows(s, q[1], q[2])}}

EventsOf(s) ==
  IF Len(s) < MinIFrames THEN {}
  ELSE {ClosedEvent(s, p[1], p[2]) :
          p \in {q \in Starts(s) \X Starts(s) : Follows(s, q[1], q[2])}}
       \cup {LastEvent(s, i) :
          i \in {k \in Starts(s) : /\ \A j \in Starts(s) : j <= k
                                   /\ s[k].time # s[Len(s)].time}}

Parse(w, healed) ==
  /\ idx' = Mended(idx)
  /\ todo' = [todo EXCEPT ![w] = EventsOf(Mended(idx))]
  /\ spoilt' = (spoilt \ healed)
                \cup (IF Mended(idx) # idx THEN {"mended"} ELSE {})
                \cup (IF \E v \in Writers \ {w} : todo[v] # {} THEN {"met"} ELSE {})

-----------------------------------------------------------------------------
(* AddOneEven2List: the list is read to its end, the shorter items of the  *)
(* same start are deleted on the way, and the item is written where the    *)
(* end was.                                                                *)

ComesFirst(w, e) == \A f \in todo[w] : e.first <= f.first

ReplacesShorter(e, item) ==         \* fault: an item of the same length stays
  /\ item.event.start = e.start /\ item.event.end < e.end
  /\ ~item.deleted

Replaces(e, item) ==
  /\ item.event.start = e.start /\ item.event.end <= e.end
  /\ ~item.deleted

\* A search finds the name of the directory in m_IdxFileName, which the
\* recorder clears when it is done with the file: what it still had to put
\* in goes elsewhere.
Named == rpc \in {"open", "listing"}

AddScan(w) ==
  /\ eof[w] = Unread
  /\ \E e \in todo[w] :
       /\ ComesFirst(w, e)
       /\ IF w = "search" /\ ~Named
          THEN todo' = [todo EXCEPT ![w] = @ \ {e}] /\ UNCHANGED <<list, eof>>
          ELSE /\ list' = [i \in 1..Len(list) |->
                             IF Replaces(e, list[i])
                             THEN [list[i] EXCEPT !.deleted = TRUE] ELSE list[i]]
               /\ eof' = [eof EXCEPT ![w] = Len(list) + 1]
               /\ UNCHANGED todo
  /\ UNCHANGED <<hour, now, fileVars, rpc, left, spoilt>>

AddWrite(w) ==
  /\ eof[w] # Unread
  /\ \E e \in todo[w] :
       /\ ComesFirst(w, e)
       /\ LET item == [event |-> e, deleted |-> FALSE]
          IN  list' = Put(list, eof[w], item, item)
       /\ todo' = [todo EXCEPT ![w] = @ \ {e}]
  /\ spoilt' = IF eof[w] <= Len(list) THEN spoilt \cup {"raced"} ELSE spoilt
  /\ eof' = [eof EXCEPT ![w] = Unread]
  /\ UNCHANGED <<hour, now, fileVars, rpc, left>>

-----------------------------------------------------------------------------
(* The recorder.                                                           *)

\* fault: m_offset is that of a new file
OpenAtStart ==
  /\ rpc = "closed" /\ now < DayLen + (hour + 1) * HourLen /\ Spend("open")
  /\ rpc' = "open" /\ m_bNonStop' = TRUE
  /\ fpos' = Len(video) + 1 /\ m_offset' = 1
  /\ ipos' = Len(idx) + 1 /\ dirty' = FALSE
  /\ UNCHANGED <<hour, now, video, idx, listVars, spoilt>>

\* A file that exists is continued: Create264File and CreateIdxFile go to
\* the end of theirs.
OpenRecordFile ==
  /\ rpc = "closed" /\ now < DayLen + (hour + 1) * HourLen /\ Spend("open")
  /\ rpc' = "open" /\ m_bNonStop' = TRUE
  /\ fpos' = Len(video) + 1 /\ m_offset' = Len(video) + 1
  /\ ipos' = Len(idx) + 1 /\ dirty' = FALSE
  /\ UNCHANGED <<hour, now, video, idx, listVars, spoilt>>

\* An I frame d seconds after the last.  Its entry is written first, and at
\* once.  The first frame of a file may be a second older than the hour, and
\* that the hour is over is seen within a second.
WriteRecordFile(d, kind) ==
  /\ rpc = "open" /\ Spend("frame")
  /\ now' = now + d /\ now' <= DayLen + (hour + 1) * HourLen
  /\ idx' = Put(idx, ipos, [time |-> now' % DayLen, off |-> m_offset, kind |-> kind],
                Zeroed)
  /\ ipos' = ipos + 1
  /\ video' = Put(video, fpos, now' % DayLen, Hole)
  /\ fpos' = fpos + 1 /\ m_offset' = m_offset + 1 /\ dirty' = TRUE
  /\ UNCHANGED <<hour, m_bNonStop, listVars, rpc, spoilt>>

\* The clock was set to t within the hour.  What was recorded before t is
\* kept, the entries after it are cleared, and the recorder goes on from the
\* last one kept.  m_offset stays.
WasSet(t) == /\ HourOf(now - DayLen) = hour
             /\ \/ DayLen + t - now > JumpLen
                \/ now - (DayLen + t) > JumpLen
Kept(t) == {i \in 1..Len(idx) : idx[i].time > 0 /\ idx[i].time < t}

RederectUnclamped(t) ==             \* fault: the first entry is not kept free
  /\ rpc = "open" /\ WasSet(t) /\ Spend("jump")
  /\ now' = DayLen + t
  /\ idx' = [i \in 1..Len(idx) |-> IF i \in Kept(t) THEN idx[i] ELSE Zeroed]
  /\ ipos' = Cardinality(Kept(t)) /\ fpos' = 1
  /\ spoilt' = spoilt \cup {"jumped", "stale"}
  /\ UNCHANGED <<hour, video, dirty, m_bNonStop, m_offset, list, todo, eof, rpc>>

RederectKeepsList(t) ==             \* fault: the list is not looked at
  /\ rpc = "open" /\ WasSet(t) /\ Spend("jump")
  /\ now' = DayLen + t
  /\ idx' = [i \in 1..Len(idx) |-> IF i \in Kept(t) THEN idx[i] ELSE Zeroed]
  /\ ipos' = IF Kept(t) = {} THEN 1 ELSE Cardinality(Kept(t))
  /\ fpos' = 1
  /\ spoilt' = spoilt \cup {"jumped"}
  /\ UNCHANGED <<hour, video, dirty, m_bNonStop, m_offset, list, todo, eof, rpc>>

RederectFilePosition(t) ==
  /\ rpc = "open" /\ WasSet(t) /\ Spend("jump")
  /\ now' = DayLen + t
  /\ idx' = [i \in 1..Len(idx) |-> IF i \in Kept(t) THEN idx[i] ELSE Zeroed]
  /\ ipos' = IF Kept(t) = {} THEN 1 ELSE Cardinality(Kept(t))
  /\ \/ Kept(t) = {} /\ fpos' = 1
     \/ \E i \in Kept(t) : (\A j \in Kept(t) : j <= i) /\ fpos' = idx[i].off
  /\ list' = [i \in 1..Len(list) |->
                IF /\ HourOf(list[i].event.end) = HourOf(t)
                   /\ list[i].event.end > t
                THEN [list[i] EXCEPT !.deleted = TRUE] ELSE list[i]]
  /\ spoilt' = spoilt \cup {"jumped"}
                \cup (IF todo["search"] # {} THEN {"stale"} ELSE {})
  /\ UNCHANGED <<hour, video, dirty, m_bNonStop, m_offset, todo, eof, rpc>>

\* fclose, the header, and the events of the whole index.
CloseRecordFile ==
  /\ rpc = "open"
  /\ rpc' = "listing" /\ m_bNonStop' = FALSE
  /\ Parse("recorder", {"raced", "unlisted"})
  /\ UNCHANGED <<hour, now, video, fpos, dirty, m_offset, ipos, list, eof, left>>

ClearRecordInfor ==
  /\ rpc = "listing" /\ todo["recorder"] = {}
  /\ rpc' = "closed"
  /\ UNCHANGED <<hour, now, fileVars, listVars, left, spoilt>>

-----------------------------------------------------------------------------
(* A search of today from its beginning (FindRecordFile, UpdateListFile),  *)
(* a crash, and fixNotCloseFile when the program is started again.         *)

UpdateListFile ==
  /\ Named /\ todo["search"] = {} /\ Spend("search")
  /\ Parse("search", {})
  /\ UNCHANGED <<hour, now, video, fpos, dirty, m_bNonStop, m_offset, ipos, list, eof,
                 rpc>>

\* The index was written with write(); the last frames may still have been
\* in stdio's buffer.
Crash ==
  /\ rpc # "down" /\ Spend("crash")
  /\ rpc' = "down"
  /\ \/ UNCHANGED <<video, spoilt>> /\ m_bNonStop
     \/ /\ rpc = "open" /\ dirty /\ fpos = Len(video) + 1
        /\ video' = SubSeq(video, 1, Len(video) - 1)
        /\ spoilt' = spoilt \cup {"lost"}
     \/ /\ ~m_bNonStop /\ UNCHANGED video
        /\ spoilt' = IF rpc = "listing" \/ \E w \in Writers : eof[w] # Unread
                     THEN spoilt \cup {"unlisted"} ELSE spoilt
  /\ todo' = [w \in Writers |-> {}] /\ eof' = [w \in Writers |-> Unread]
  /\ UNCHANGED <<hour, now, fpos, dirty, m_bNonStop, m_offset, idx, ipos, list>>

fixNotCloseFile ==
  /\ rpc = "down"
  /\ IF m_bNonStop
     THEN rpc' = "repair" /\ Parse("recorder", {"raced", "unlisted"})
     ELSE rpc' = "closed" /\ UNCHANGED <<idx, todo, spoilt>>
  /\ UNCHANGED <<hour, now, video, fpos, dirty, m_bNonStop, m_offset, ipos, list, eof, left>>

RepairDone ==
  /\ rpc = "repair" /\ todo["recorder"] = {}
  /\ rpc' = "closed" /\ m_bNonStop' = FALSE
  /\ UNCHANGED <<hour, now, video, fpos, dirty, m_offset, idx, ipos, listVars, left, spoilt>>

Next ==
  \/ OpenRecordFile \/ CloseRecordFile \/ ClearRecordInfor
  \/ \E d \in Steps, k \in Kinds : WriteRecordFile(d, k)
  \/ \E s \in Clocks : RederectFilePosition(hour * HourLen + s)
  \/ UpdateListFile
  \/ \E w \in Writers : AddScan(w) \/ AddWrite(w)
  \/ Crash \/ fixNotCloseFile \/ RepairDone

Spec == Init /\ [][Next]_vars

-----------------------------------------------------------------------------
AtRest == rpc = "closed" /\ \A w \in Writers : todo[w] = {}
Live == {n \in 1..Len(list) : ~list[n].deleted}

\* Seconds that are not moved to the full hour.
Inside(t) == Slack <= t % HourLen /\ t % HourLen <= HourLen - Slight

\* The I frames of an event that began when the recording ended: there is
\* no event with a length in them.
EndsAtOnce(i) ==
  LET k == CHOOSE j \in Starts(idx) : \A m \in Starts(idx) : m <= j
  IN  i >= k /\ idx[k].time = idx[Len(idx)].time

(* Once the file is closed, or repaired, and nobody writes the list, every
   I frame lies in an event of the list.  Not so when two writers of the
   list met, and when the program ended while it was closing the file: the
   header says by then that nothing has to be repaired.  Nor in a file of
   MinIFrames only, where the last entry is one of the first as well, and is
   mended both ways in turn. *)
Listed ==
  (AtRest /\ Len(idx) > MinIFrames /\ spoilt \cap {"raced", "unlisted"} = {})
    => \A i \in 1..Len(idx) :
         Inside(idx[i].time) /\ ~EndsAtOnce(i)
           => \E n \in Live : /\ list[n].event.start <= idx[i].time
                              /\ idx[i].time <= list[n].event.end

\* A mended time may lie in the first hour of the day, ahead of the clock.
TimesTrue == hour = 0 => "mended" \notin spoilt

\* Not moved to the end of an hour.
EndsEarly(e) == e.end % HourLen <= HourLen - Slack
StartsHere(e) == HourOf(e.start) = hour /\ Inside(e.start)

\* No two kinds were recorded within one second.
StartsApart == \A i, j \in Starts(idx) :
  idx[i].time = idx[j].time /\ Inside(idx[i].time) => i = j

(* The list names a start within the hour only once, however often the growing
   event is put into it.  Not so when a search came in the last seconds of the
   hour: the event it lists then ends with the hour, and stays beside the one
   that turns out to be shorter.  Nor when the kind changed within a second:
   then two events begin with that second. *)
OnePerStart ==
  (spoilt \cap {"met", "jumped"} = {} /\ TimesTrue /\ StartsApart)
    => \A m, n \in Live :
         LET d == list[m].event
             e == list[n].event
         IN  d.start = e.start /\ StartsHere(d) /\ EndsEarly(d) /\ EndsEarly(e) => m = n

(* GetRecordOffset: playback from second t begins with the first I frame of
   that second or a later one. *)
Seek(t) == CHOOSE i \in 1..Len(idx) :
             idx[i].time >= t /\ \A j \in 1..(i - 1) : idx[j].time < t
SeekFinds ==
  spoilt \cap {"jumped", "lost", "mended"} = {}
    => \A t \in Day : (\E i \in 1..Len(idx) : idx[i].time >= t)
         => LET o == idx[Seek(t)].off
            IN  o \in 1..Len(video) /\ video[o] = idx[Seek(t)].time

(* An event of the list is not longer than its file. *)
SizesPossible ==
  \A n \in Live : LET e == list[n].event
                  IN  0 <= e.to - e.from /\ e.to - e.from <= Len(video)
SizesPossibleUnlessJumped == "jumped" \notin spoilt => SizesPossible

(* Setting the clock back takes with it what was listed for later: no event
   of the list ends after the newest frame. *)
NothingAfterNow ==
  ("stale" \notin spoilt /\ TimesTrue)
    => \A n \in Live : LET e == list[n].event
                       IN  HourOf(e.end) = hour /\ Inside(e.end)
                             => DayLen + e.end <= now + After

=============================================================================
