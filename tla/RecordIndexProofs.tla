------------------------- MODULE RecordIndexProofs -------------------------
(***************************************************************************)
(* Proofs about RecordIndex: its types; that what is listed has a possible *)
(* size, and that a seek finds its frame, as long as the clock is not set. *)
(***************************************************************************)
EXTENDS RecordIndex, FiniteSetTheorems, WellFoundedInduction, TLAPS

-----------------------------------------------------------------------------
(* Arithmetic.                                                             *)

LEMMA Remainders ==
  /\ \A t \in Int : t % HourLen \in 0..(HourLen - 1)
  /\ \A t \in Int : t % DayLen \in Day
  /\ \A t \in Int : HourOf(t) \in Int
  BY IndexAssumption DEF Day, HourOf

LEMMA FixesType ==
  ASSUME NEW t \in Int
  PROVE  FixEvenItenStartTime(t) \in Int /\ FixEvenItenEndTime(t) \in Int
  <1>1. /\ HourLen \in Int /\ DayLen \in Int /\ HourOf(t) \in Int
        /\ t % HourLen \in Int
    BY Remainders, IndexAssumption
  <1>2. \A h \in Int : LastSecond(h) \in Int
    BY <1>1 DEF LastSecond
  <1>3. NextHour(t) \in Int
    <2>1. (HourOf(t) + 1) * HourLen \in Int
      BY <1>1
    <2> QED BY <2>1, Remainders DEF NextHour, Day
  <1> QED BY <1>1, <1>2, <1>3 DEF FixEvenItenStartTime, FixEvenItenEndTime

LEMMA PutType ==
  ASSUME NEW S, NEW s \in Seq(S), NEW p \in Nat, NEW x \in S, NEW hole \in S
  PROVE  /\ Put(s, p, x, hole) \in Seq(S)
         /\ Len(Put(s, p, x, hole)) = IF p > Len(s) THEN p ELSE Len(s)
  BY DEF Put

LEMMA PutNext ==
  ASSUME NEW S, NEW s \in Seq(S), NEW x \in S, NEW hole \in S
  PROVE  /\ Len(Put(s, Len(s) + 1, x, hole)) = Len(s) + 1
         /\ \A i \in 1..Len(s) : Put(s, Len(s) + 1, x, hole)[i] = s[i]
         /\ Put(s, Len(s) + 1, x, hole)[Len(s) + 1] = x
  BY DEF Put

LEMMA MendedType ==
  ASSUME NEW s \in Seq(Entry)
  PROVE  /\ Mended(s) \in Seq(Entry) /\ Len(Mended(s)) = Len(s)
         /\ \A i \in 1..Len(s) : /\ Mended(s)[i].off = s[i].off
                                 /\ Mended(s)[i].kind = s[i].kind
  <1>1. ASSUME NEW q \in Seq(Entry)
        PROVE  /\ MendFirst(q) \in Seq(Entry) /\ Len(MendFirst(q)) = Len(q)
               /\ \A i \in 1..Len(q) : MendFirst(q)[i].off = q[i].off
                                       /\ MendFirst(q)[i].kind = q[i].kind
    <2>1. \A i \in 1..Len(q) : q[i] \in Entry /\ After * (i - 1) \in Nat
      BY IndexAssumption
    <2>2. \A i \in 1..Len(q) : [q[i] EXCEPT !.time = After * (i - 1)] \in Entry
      BY <2>1 DEF Entry
    <2> QED BY <2>1, <2>2 DEF MendFirst, Entry
  <1>2. ASSUME NEW q \in Seq(Entry)
        PROVE  /\ MendLast(q) \in Seq(Entry) /\ Len(MendLast(q)) = Len(q)
               /\ \A i \in 1..Len(q) : MendLast(q)[i].off = q[i].off
                                       /\ MendLast(q)[i].kind = q[i].kind
    <2>1. \A i \in 1..Len(q) : q[i] \in Entry /\ DayLen - 1 \in Nat
      BY IndexAssumption
    <2>2. \A i \in 1..Len(q) : [q[i] EXCEPT !.time = DayLen - 1] \in Entry
      BY <2>1 DEF Entry
    <2> QED BY <2>1, <2>2 DEF MendLast, Entry
  <1> QED BY <1>1, <1>2 DEF Mended

LEMMA EventsType ==
  ASSUME NEW s \in Seq(Entry)
  PROVE  EventsOf(s) \subseteq Event
  <1>1. \A i \in 1..Len(s) : /\ s[i].time \in Int /\ s[i].off \in Nat
                             /\ s[i].kind \in Kinds \cup {"none"}
                             /\ s[i].time + After \in Int
    <2>1. After \in Int
      BY IndexAssumption
    <2>2. \A i \in 1..Len(s) : s[i] \in Entry
      OBVIOUS
    <2>3. \A x \in Entry : /\ x.time \in Int /\ x.off \in Nat
                           /\ x.kind \in Kinds \cup {"none"}
      BY DEF Entry
    <2> QED BY <2>1, <2>2, <2>3
  <1>2. ASSUME NEW i \in Starts(s), NEW j \in Starts(s), i < j
        PROVE  ClosedEvent(s, i, j) \in Event
    <2>1. i \in 1..Len(s) /\ j \in 1..Len(s) /\ j - 1 \in 1..Len(s) /\ i \in Nat
      BY <1>2 DEF Starts
    <2>2. FixEvenItenStartTime(s[i].time) \in Int
      BY <1>1, <2>1, FixesType
    <2> QED BY <1>1, <2>1, <2>2 DEF ClosedEvent, Event
  <1>3. ASSUME NEW i \in Starts(s)
        PROVE  LastEvent(s, i) \in Event
    <2>1. i \in 1..Len(s) /\ Len(s) \in 1..Len(s) /\ i \in Nat
      BY DEF Starts
    <2>2. FixEvenItenEndTime(s[Len(s)].time) \in Int
      BY <1>1, <2>1, FixesType
    <2> QED BY <1>1, <2>1, <2>2 DEF LastEvent, Event
  <1> QED BY <1>2, <1>3 DEF EventsOf, Follows

LEMMA ParseType ==
  ASSUME TypeOK, NEW w \in Writers, NEW healed, Parse(w, healed)
  PROVE  /\ idx' \in Seq(Entry) /\ Len(idx') = Len(idx)
         /\ todo' \in [Writers -> SUBSET Event]
         /\ todo' = [todo EXCEPT ![w] = EventsOf(idx')]
         /\ spoilt' \subseteq {"jumped", "lost", "raced", "met", "stale", "unlisted",
                               "mended"}
  BY MendedType, EventsType DEF TypeOK, Parse

-----------------------------------------------------------------------------
(* Types.                                                                  *)

LEMMA InitTypes == Init => TypeOK
  <1> SUFFICES ASSUME Init PROVE TypeOK
    OBVIOUS
  <1>1. now \in Nat
    <2>1. /\ hour \in Nat /\ HourLen \in Nat /\ DayLen \in Nat /\ DayLen >= 2
      BY IndexAssumption DEF Init
    <2>2. hour * HourLen \in Nat
      BY <2>1
    <2> QED BY <2>1, <2>2 DEF Init
  <1>2. left \in [Chances -> Nat]
    BY IndexAssumption DEF Init
  <1>3. /\ video \in Seq(Nat \cup {Hole}) /\ idx \in Seq(Entry) /\ list \in Seq(Item)
        /\ ipos \in 1..(Len(idx) + 1)
    BY DEF Init
  <1>4. /\ todo \in [Writers -> SUBSET Event] /\ eof \in [Writers -> Nat]
        /\ \A w \in Writers : eof[w] = Unread
    BY DEF Init, Unread
  <1> QED BY <1>1, <1>2, <1>3, <1>4 DEF Init, TypeOK

\* What the actions of the recorder share.
LEMMA HourFacts ==
  ASSUME TypeOK
  PROVE  /\ hour * HourLen \in Nat /\ DayLen \in Nat
         /\ \A d \in Steps : d \in Nat
         /\ \A s \in Clocks : hour * HourLen + s \in Nat
         /\ Zeroed \in Entry /\ Writers = {"recorder", "search"}
  <1>1. hour \in Nat /\ HourLen \in Nat /\ DayLen \in Nat
    BY IndexAssumption DEF TypeOK
  <1>2. hour * HourLen \in Nat
    BY <1>1
  <1>3. \A s \in Clocks : s \in Nat
    BY IndexAssumption
  <1> QED BY <1>1, <1>2, <1>3, IndexAssumption DEF Zeroed, Entry, Writers

LEMMA SpendType ==
  ASSUME TypeOK, NEW what \in Chances, Spend(what)
  PROVE  left' \in [Chances -> Nat]
  BY DEF TypeOK, Spend

LEMMA OpenTypes ==
  ASSUME TypeOK, OpenRecordFile PROVE TypeOK'
  <1>1. left' \in [Chances -> Nat]
    BY SpendType DEF OpenRecordFile, Chances
  <1>2. fpos' \in Nat /\ m_offset' \in Nat /\ ipos' \in 1..(Len(idx') + 1)
    <2>1. Len(video) \in Nat /\ Len(idx) \in Nat
      BY DEF TypeOK
    <2> QED BY <2>1 DEF OpenRecordFile
  <1>3. /\ UNCHANGED <<hour, now, video, idx, list, todo, eof, spoilt>>
        /\ rpc' = "open" /\ m_bNonStop' = TRUE /\ dirty' = FALSE
    BY DEF OpenRecordFile, listVars
  <1> QED BY <1>1, <1>2, <1>3 DEF TypeOK

LEMMA WriteTypes ==
  ASSUME TypeOK, NEW d \in Steps, NEW kind \in Kinds, WriteRecordFile(d, kind)
  PROVE  TypeOK'
  <1>1. left' \in [Chances -> Nat]
    BY SpendType DEF WriteRecordFile, Chances
  <1>2. /\ now \in Nat /\ ipos \in Nat /\ ipos >= 1 /\ ipos <= Len(idx) + 1
        /\ Len(idx) \in Nat /\ fpos \in Nat /\ m_offset \in Nat
    BY DEF TypeOK
  <1>3. now' \in Nat
    BY <1>2, HourFacts DEF WriteRecordFile
  <1>4. now' % DayLen \in Nat
    BY <1>3, Remainders DEF Day
  <1>5. PICK e \in Entry : e = [time |-> now' % DayLen, off |-> m_offset, kind |-> kind]
    <2>1. [time |-> now' % DayLen, off |-> m_offset, kind |-> kind] \in Entry
      BY <1>2, <1>4 DEF Entry
    <2> QED BY <2>1
  <1>6. idx' = Put(idx, ipos, e, Zeroed) /\ idx \in Seq(Entry) /\ Zeroed \in Entry
    BY <1>5, HourFacts DEF WriteRecordFile, TypeOK
  <1>7. idx' \in Seq(Entry) /\ Len(idx') = IF ipos > Len(idx) THEN ipos ELSE Len(idx)
    <2>1. Put(idx, ipos, e, Zeroed) \in Seq(Entry)
      <3>1. idx \in Seq(Entry) /\ ipos \in Nat /\ e \in Entry /\ Zeroed \in Entry
        BY <1>2, <1>6
      <3> QED BY <3>1, PutType
    <2>2. Len(Put(idx, ipos, e, Zeroed)) = IF ipos > Len(idx) THEN ipos ELSE Len(idx)
      <3>1. Len(idx) \in Nat
        BY <1>2
      <3> QED BY <1>2, <1>6, <3>1 DEF Put
    <2> QED BY <1>6, <2>1, <2>2
  <1>8. ipos' \in 1..(Len(idx') + 1)
    BY <1>2, <1>7 DEF WriteRecordFile
  <1>9. video' \in Seq(Nat \cup {Hole})
    <2>1. /\ video' = Put(video, fpos, now' % DayLen, Hole) /\ video \in Seq(Nat \cup {Hole})
          /\ now' % DayLen \in Nat \cup {Hole} /\ Hole \in Nat \cup {Hole}
      BY <1>4 DEF WriteRecordFile, TypeOK
    <2> QED BY <1>2, <2>1, PutType
  <1>10. /\ UNCHANGED <<hour, m_bNonStop, list, todo, eof, rpc, spoilt>>
         /\ fpos' \in Nat /\ m_offset' \in Nat /\ dirty' = TRUE
    BY <1>2 DEF WriteRecordFile, listVars
  <1> QED BY <1>1, <1>3, <1>7, <1>8, <1>9, <1>10 DEF TypeOK

\* The recorder has nothing to list while it records, and after a crash.
RecorderIdle == rpc \in {"closed", "open", "down"} => todo["recorder"] = {}

TInv == TypeOK /\ RecorderIdle

LEMMA KeptCounts ==
  ASSUME TypeOK, NEW t
  PROVE  /\ Cardinality(Kept(t)) \in 0..Len(idx)
         /\ Kept(t) # {} => Cardinality(Kept(t)) >= 1
  <1>1. Len(idx) \in Nat /\ Kept(t) \subseteq 1..Len(idx)
    BY DEF TypeOK, Kept
  <1>2. IsFiniteSet(1..Len(idx)) /\ Cardinality(1..Len(idx)) = Len(idx)
    <2>1. 1 \in Int /\ Len(idx) \in Int
      BY <1>1
    <2>2. /\ IsFiniteSet(1..Len(idx))
          /\ Cardinality(1..Len(idx)) = IF 1 > Len(idx) THEN 0 ELSE Len(idx) - 1 + 1
      BY <2>1, FS_Interval
    <2> QED BY <1>1, <2>2
  <1>3. IsFiniteSet(Kept(t)) /\ Cardinality(Kept(t)) <= Len(idx)
    BY <1>1, <1>2, FS_Subset
  <1>4. Cardinality(Kept(t)) \in Nat
    BY <1>3, FS_CardinalityType
  <1>5. Cardinality(Kept(t)) = 0 => Kept(t) = {}
    BY <1>3, FS_EmptySet
  <1> QED BY <1>1, <1>3, <1>4, <1>5

LEMMA RederectTypes ==
  ASSUME TypeOK, NEW t \in Nat, RederectFilePosition(t)
  PROVE  TypeOK'
  <1>1. left' \in [Chances -> Nat]
    BY SpendType DEF RederectFilePosition, Chances
  <1>2. now' \in Nat
    BY HourFacts DEF RederectFilePosition
  <1>3. idx' \in Seq(Entry) /\ Len(idx') = Len(idx)
    BY HourFacts DEF RederectFilePosition, TypeOK
  <1>4. ipos' \in 1..(Len(idx') + 1)
    <2>1. Len(idx) \in Nat
      BY DEF TypeOK
    <2> QED BY <1>3, <2>1, KeptCounts DEF RederectFilePosition
  <1>5. fpos' \in Nat
    <2>1. \A i \in Kept(t) : idx[i].off \in Nat
      <3>1. \A i \in Kept(t) : idx[i] \in Entry
        BY DEF Kept, TypeOK
      <3> QED BY <3>1 DEF Entry
    <2> QED BY <2>1 DEF RederectFilePosition
  <1>6. list' \in Seq(Item) /\ Len(list') = Len(list)
    <2>1. \A i \in 1..Len(list) : /\ list[i] \in Item
                                  /\ [list[i] EXCEPT !.deleted = TRUE] \in Item
      <3>1. \A i \in 1..Len(list) : list[i] \in Item
        BY DEF TypeOK
      <3>2. \A x \in Item : [x EXCEPT !.deleted = TRUE] \in Item
        BY DEF Item
      <3> QED BY <3>1, <3>2
    <2> QED BY <2>1 DEF RederectFilePosition, TypeOK
  <1>7. /\ UNCHANGED <<hour, video, dirty, m_bNonStop, m_offset, todo, eof, rpc>>
        /\ spoilt' \subseteq {"jumped", "lost", "raced", "met", "stale", "unlisted", "mended"}
    BY DEF RederectFilePosition, TypeOK
  <1> QED BY <1>1, <1>2, <1>3, <1>4, <1>5, <1>6, <1>7 DEF TypeOK

\* A writer that has nothing to list has not read the list.
LEMMA ParseKeeps ==
  ASSUME TypeOK, NEW w \in Writers, NEW healed, Parse(w, healed), todo[w] = {},
         UNCHANGED <<hour, now, video, fpos, dirty, m_offset, ipos, list, eof>>,
         m_bNonStop' \in BOOLEAN, left' \in [Chances -> Nat],
         rpc' \in {"closed", "open", "listing", "down", "repair"}
  PROVE  TypeOK'
  <1>1. eof[w] = Unread
    BY DEF TypeOK
  <1>2. \A v \in Writers : v # w => todo'[v] = todo[v]
    BY ParseType DEF TypeOK
  <1>3. \A v \in Writers : eof'[v] # Unread => todo'[v] # {} /\ eof'[v] <= Len(list') + 1
    BY <1>1, <1>2 DEF TypeOK
  <1> QED BY <1>3, ParseType DEF TypeOK

LEMMA CloseTypes ==
  ASSUME TInv, CloseRecordFile PROVE TypeOK'
  BY ParseKeeps DEF TInv, RecorderIdle, CloseRecordFile, TypeOK, Writers

LEMMA SearchTypes ==
  ASSUME TInv, UpdateListFile PROVE TypeOK'
  BY ParseKeeps, SpendType DEF TInv, UpdateListFile, TypeOK, Writers, Chances

LEMMA FixTypes ==
  ASSUME TInv, fixNotCloseFile PROVE TypeOK'
  <1>1. CASE m_bNonStop
    BY <1>1, ParseKeeps DEF TInv, RecorderIdle, fixNotCloseFile, TypeOK, Writers
  <1>2. CASE ~m_bNonStop
    BY <1>2 DEF TInv, fixNotCloseFile, TypeOK
  <1> QED BY <1>1, <1>2

LEMMA QuietTypes ==
  ASSUME TypeOK, ClearRecordInfor \/ RepairDone PROVE TypeOK'
  BY DEF ClearRecordInfor, RepairDone, TypeOK, fileVars, listVars

LEMMA CrashTypes ==
  ASSUME TypeOK, Crash PROVE TypeOK'
  <1>1. left' \in [Chances -> Nat]
    BY SpendType DEF Crash, Chances
  <1>2. video' \in Seq(Nat \cup {Hole})
    <2>1. video \in Seq(Nat \cup {Hole}) /\ Len(video) \in Nat
      BY DEF TypeOK
    <2>2. CASE Len(video) = 0
      <3>1. SubSeq(video, 1, Len(video) - 1) = <<>>
        BY <2>1, <2>2
      <3> QED BY <2>1, <3>1 DEF Crash
    <2>3. CASE Len(video) > 0
      <3>1. SubSeq(video, 1, Len(video) - 1) \in Seq(Nat \cup {Hole})
        BY <2>1, <2>3
      <3> QED BY <2>1, <3>1 DEF Crash
    <2> QED BY <2>1, <2>2, <2>3
  <1>3. /\ todo' \in [Writers -> SUBSET Event] /\ eof' \in [Writers -> Nat]
        /\ \A w \in Writers : eof'[w] = Unread
    BY DEF Crash, Unread
  <1>4. /\ UNCHANGED <<hour, now, fpos, dirty, m_bNonStop, m_offset, idx, ipos, list>>
        /\ rpc' = "down"
        /\ spoilt' \subseteq {"jumped", "lost", "raced", "met", "stale", "unlisted", "mended"}
    BY DEF Crash, TypeOK
  <1> QED BY <1>1, <1>2, <1>3, <1>4 DEF TypeOK

LEMMA ScanTypes ==
  ASSUME TypeOK, NEW w \in Writers, AddScan(w) PROVE TypeOK'
  <1> SUFFICES ASSUME NEW e \in todo[w], ComesFirst(w, e),
                      IF w = "search" /\ ~Named
                      THEN todo' = [todo EXCEPT ![w] = @ \ {e}] /\ UNCHANGED <<list, eof>>
                      ELSE /\ list' = [i \in 1..Len(list) |->
                                         IF Replaces(e, list[i])
                                         THEN [list[i] EXCEPT !.deleted = TRUE]
                                         ELSE list[i]]
                           /\ eof' = [eof EXCEPT ![w] = Len(list) + 1]
                           /\ UNCHANGED todo
               PROVE  TypeOK'
    BY DEF AddScan
  <1>1. /\ eof[w] = Unread /\ UNCHANGED <<hour, now, rpc, left, spoilt>>
        /\ UNCHANGED <<video, fpos, dirty, m_bNonStop, m_offset, idx, ipos>>
    BY DEF AddScan, fileVars
  <1>2. CASE w = "search" /\ ~Named
    <2>1. /\ todo' \in [Writers -> SUBSET Event] /\ UNCHANGED <<list, eof>>
          /\ \A v \in Writers : v # w => todo'[v] = todo[v]
      BY <1>2 DEF TypeOK
    <2> QED BY <1>1, <2>1 DEF TypeOK
  <1>3. CASE ~(w = "search" /\ ~Named)
    <2>1. list' \in Seq(Item) /\ Len(list') = Len(list) /\ Len(list) \in Nat
      <3>1. \A i \in 1..Len(list) : list[i] \in Item
        BY DEF TypeOK
      <3>2. \A x \in Item : [x EXCEPT !.deleted = TRUE] \in Item
        BY DEF Item
      <3>3. /\ list' = [i \in 1..Len(list) |->
                          IF Replaces(e, list[i]) THEN [list[i] EXCEPT !.deleted = TRUE]
                          ELSE list[i]]
            /\ list \in Seq(Item)
        BY <1>3 DEF TypeOK
      <3>4. \A i \in 1..Len(list) :
              (IF Replaces(e, list[i]) THEN [list[i] EXCEPT !.deleted = TRUE]
               ELSE list[i]) \in Item
        BY <3>1, <3>2
      <3> QED BY <3>3, <3>4
    <2>2. /\ eof' \in [Writers -> Nat] /\ UNCHANGED todo /\ eof'[w] = Len(list) + 1
          /\ \A v \in Writers : v # w => eof'[v] = eof[v]
      <3>1. eof' = [eof EXCEPT ![w] = Len(list) + 1] /\ UNCHANGED todo
        BY <1>3
      <3>2. eof \in [Writers -> Nat] /\ Len(list) + 1 \in Nat
        BY <2>1 DEF TypeOK
      <3> QED BY <3>1, <3>2
    <2>3. \A v \in Writers : eof'[v] # Unread => todo'[v] # {} /\ eof'[v] <= Len(list') + 1
      <3>1. \A v \in Writers : eof[v] # Unread => todo[v] # {} /\ eof[v] <= Len(list) + 1
        BY DEF TypeOK
      <3>2. todo[w] # {}
        OBVIOUS
      <3> QED BY <2>1, <2>2, <3>1, <3>2
    <2> QED BY <1>1, <2>1, <2>2, <2>3 DEF TypeOK
  <1> QED BY <1>2, <1>3

LEMMA AddTypes ==
  ASSUME TypeOK, NEW w \in Writers, AddWrite(w) PROVE TypeOK'
  <1>1. PICK e \in todo[w] : /\ list' = Put(list, eof[w], [event |-> e, deleted |-> FALSE],
                                            [event |-> e, deleted |-> FALSE])
                             /\ todo' = [todo EXCEPT ![w] = @ \ {e}]
    BY DEF AddWrite
  <1>2. PICK item \in Item : item = [event |-> e, deleted |-> FALSE]
    BY DEF TypeOK, Item
  <1>3. list \in Seq(Item) /\ Len(list) \in Nat /\ eof[w] \in Nat
    BY DEF TypeOK
  <1>4. list' \in Seq(Item)
    <2>1. list' = Put(list, eof[w], item, item)
      BY <1>1, <1>2
    <2> QED BY <1>3, <2>1, PutType
  <1>5. Len(list') >= Len(list) /\ Len(list') \in Nat
    BY <1>1, <1>3 DEF Put
  <1>6. /\ todo' \in [Writers -> SUBSET Event] /\ eof' \in [Writers -> Nat]
        /\ eof'[w] = Unread
        /\ \A v \in Writers : v # w => todo'[v] = todo[v] /\ eof'[v] = eof[v]
    BY <1>1 DEF AddWrite, TypeOK, Unread
  <1>7. /\ UNCHANGED <<hour, now, rpc, left>>
        /\ UNCHANGED <<video, fpos, dirty, m_bNonStop, m_offset, idx, ipos>>
        /\ spoilt' \subseteq {"jumped", "lost", "raced", "met", "stale", "unlisted", "mended"}
    BY DEF AddWrite, fileVars, TypeOK
  <1>8. \A v \in Writers : eof'[v] # Unread => todo'[v] # {} /\ eof'[v] <= Len(list') + 1
    <2>1. \A v \in Writers : eof[v] # Unread => todo[v] # {} /\ eof[v] <= Len(list) + 1
      BY DEF TypeOK
    <2>2. \A v \in Writers : eof[v] \in Nat
      BY DEF TypeOK
    <2> QED BY <1>3, <1>5, <1>6, <2>1, <2>2
  <1> QED BY <1>4, <1>6, <1>7, <1>8 DEF TypeOK

LEMMA NextIdle ==
  ASSUME TInv, [Next]_vars PROVE RecorderIdle'
  <1>1. ASSUME NEW w \in Writers, AddScan(w) \/ AddWrite(w)
        PROVE  todo'["recorder"] \subseteq todo["recorder"] /\ UNCHANGED rpc
    BY <1>1 DEF AddScan, AddWrite, TInv, TypeOK, Writers
  <1>2. ASSUME UpdateListFile PROVE UNCHANGED <<todo["recorder"], rpc>>
    BY <1>2 DEF UpdateListFile, Parse, TInv, TypeOK, Writers
  <1>3. CASE OpenRecordFile
    BY <1>3 DEF OpenRecordFile, listVars, TInv, RecorderIdle
  <1>4. CASE CloseRecordFile
    BY <1>4 DEF CloseRecordFile, RecorderIdle
  <1>5. CASE ClearRecordInfor \/ RepairDone
    BY <1>5 DEF ClearRecordInfor, RepairDone, listVars, RecorderIdle
  <1>6. CASE \E d \in Steps, k \in Kinds : WriteRecordFile(d, k)
    BY <1>6 DEF WriteRecordFile, listVars, TInv, RecorderIdle
  <1>7. CASE \E s \in Clocks : RederectFilePosition(hour * HourLen + s)
    BY <1>7 DEF RederectFilePosition, TInv, RecorderIdle
  <1>8. CASE UpdateListFile
    BY <1>2, <1>8 DEF TInv, RecorderIdle
  <1>9. CASE \E w \in Writers : AddScan(w) \/ AddWrite(w)
    BY <1>1, <1>9 DEF TInv, RecorderIdle
  <1>10. CASE Crash
    BY <1>10 DEF Crash, Writers, RecorderIdle
  <1>11. CASE fixNotCloseFile
    BY <1>11 DEF fixNotCloseFile, TInv, RecorderIdle
  <1>12. CASE UNCHANGED vars
    BY <1>12 DEF vars, listVars, TInv, RecorderIdle
  <1> QED BY <1>3, <1>4, <1>5, <1>6, <1>7, <1>8, <1>9, <1>10, <1>11, <1>12 DEF Next

LEMMA NextTypes ==
  ASSUME TInv, [Next]_vars PROVE TypeOK'
  <1> USE DEF TInv
  <1>1. CASE \E d \in Steps, k \in Kinds : WriteRecordFile(d, k)
    BY <1>1, WriteTypes
  <1>2. CASE \E s \in Clocks : RederectFilePosition(hour * HourLen + s)
    BY <1>2, HourFacts, RederectTypes
  <1>3. CASE \E w \in Writers : AddScan(w) \/ AddWrite(w)
    BY <1>3, ScanTypes, AddTypes
  <1>4. CASE UNCHANGED vars
    BY <1>4 DEF vars, fileVars, listVars, TypeOK
  <1> QED BY <1>1, <1>2, <1>3, <1>4, OpenTypes, CloseTypes, QuietTypes, SearchTypes,
             CrashTypes, FixTypes DEF Next

\* The types, and that the recorder has nothing to list unless it closes a file.
THEOREM TypesAndIdle == Spec => []TInv
  <1>1. Init => TInv
    BY InitTypes DEF Init, TInv, RecorderIdle, Writers
  <1>2. TInv /\ [Next]_vars => TInv'
    BY NextTypes, NextIdle DEF TInv
  <1> QED BY <1>1, <1>2, PTL DEF Spec

\* Files, index and list have their types, whatever the clock and the crashes.
THEOREM TypeCorrect == Spec => []TypeOK
  BY TypesAndIdle, PTL DEF TInv

-----------------------------------------------------------------------------
(* Positions.                                                              *)

NotSet == "jumped" \notin spoilt

\* The recorder is at the end of both files, and knows it.
AtTheEnd ==
  NotSet /\ rpc = "open"
    => fpos = Len(video) + 1 /\ m_offset = Len(video) + 1 /\ ipos = Len(idx) + 1

\* No offset is larger; a crash may take the last group, and no more.
Highest == IF rpc = "open" /\ dirty THEN Len(video) ELSE Len(video) + 1

Possible(e, hi) == 1 <= e.from /\ e.from <= e.to /\ e.to <= hi
InOrder(s, hi) ==
  /\ \A i \in 1..Len(s) : 1 <= s[i].off /\ s[i].off <= hi
  /\ \A i, j \in 1..Len(s) : i <= j => s[i].off <= s[j].off

OffsetsKnown ==
  NotSet => /\ InOrder(idx, Highest)
            /\ \A w \in Writers : \A e \in todo[w] : Possible(e, Highest)
            /\ \A n \in 1..Len(list) : Possible(list[n].event, Highest)

\* An entry has the time of the group it points to.
EntriesPoint ==
  spoilt \cap {"jumped", "lost", "mended"} = {}
    => \A i \in 1..Len(idx) : /\ idx[i].off \in 1..Len(video)
                              /\ video[idx[i].off] = idx[i].time

PInv == AtTheEnd /\ OffsetsKnown /\ EntriesPoint

LEMMA EventsPossible ==
  ASSUME NEW s \in Seq(Entry), NEW hi \in Nat, InOrder(s, hi)
  PROVE  \A e \in EventsOf(s) : Possible(e, hi)
  <1>1. \A i \in 1..Len(s) : s[i].off \in Nat
    <2>1. \A i \in 1..Len(s) : s[i] \in Entry
      OBVIOUS
    <2> QED BY <2>1 DEF Entry
  <1>2. \A i, j \in 1..Len(s) : i <= j =>
          1 <= s[i].off /\ s[i].off <= s[j].off /\ s[j].off <= hi
    BY DEF InOrder
  <1>3. ASSUME NEW i \in Starts(s), NEW j \in Starts(s), i < j
        PROVE  Possible(ClosedEvent(s, i, j), hi)
    <2>1. i \in 1..Len(s) /\ j \in 1..Len(s) /\ j - 1 \in 1..Len(s) /\ i <= j - 1 /\ i <= j
      BY <1>3 DEF Starts
    <2>2. /\ ClosedEvent(s, i, j).from = s[i].off
          /\ ClosedEvent(s, i, j).to \in {s[j].off, s[j - 1].off}
      BY DEF ClosedEvent
    <2> QED BY <1>2, <2>1, <2>2 DEF Possible
  <1>4. ASSUME NEW i \in Starts(s)
        PROVE  Possible(LastEvent(s, i), hi)
    <2>1. i \in 1..Len(s) /\ Len(s) \in 1..Len(s) /\ i <= Len(s)
      BY DEF Starts
    <2>2. LastEvent(s, i).from = s[i].off /\ LastEvent(s, i).to = s[Len(s)].off
      BY DEF LastEvent
    <2> QED BY <1>2, <2>1, <2>2 DEF Possible
  <1> QED BY <1>3, <1>4 DEF EventsOf, Follows

LEMMA Widened ==
  ASSUME NEW s, NEW lo \in Nat, NEW hi \in Nat, InOrder(s, lo), lo <= hi,
         \A i \in 1..Len(s) : s[i].off \in Nat
  PROVE  InOrder(s, hi)
  <1>1. \A i \in 1..Len(s) : 1 <= s[i].off /\ s[i].off <= lo
    BY DEF InOrder
  <1>2. \A i \in 1..Len(s) : s[i].off <= hi
    BY <1>1
  <1> QED BY <1>1, <1>2 DEF InOrder

\* What a writer of the list is given is possible, and entries stay as they are
\* or are noted to be mended.
LEMMA ParsePossible ==
  ASSUME TypeOK, PInv, NEW w \in Writers, NEW healed, healed \subseteq {"raced", "unlisted"},
         Parse(w, healed), UNCHANGED <<video, list>>, Highest <= Highest', Highest' \in Nat
  PROVE  OffsetsKnown' /\ EntriesPoint'
  <1>1. "jumped" \in spoilt <=> "jumped" \in spoilt'
    BY DEF Parse
  <1>2. Highest \in Nat
    BY DEF Highest, TypeOK
  <1>3. /\ idx' \in Seq(Entry) /\ Len(idx') = Len(idx) /\ Len(idx) \in Nat
        /\ \A i \in 1..Len(idx) : idx'[i].off = idx[i].off /\ idx[i].off \in Nat
    <2>1. idx' \in Seq(Entry) /\ Len(idx') = Len(idx) /\ Len(idx) \in Nat
      BY ParseType DEF TypeOK
    <2>2. \A i \in 1..Len(idx) : idx'[i].off = idx[i].off
      BY MendedType DEF Parse, TypeOK
    <2>3. \A i \in 1..Len(idx) : idx[i] \in Entry
      BY DEF TypeOK
    <2> QED BY <2>1, <2>2, <2>3 DEF Entry
  <1>4. ASSUME NotSet PROVE InOrder(idx', Highest)
    BY <1>3, <1>4 DEF PInv, OffsetsKnown, InOrder
  <1>5. ASSUME NotSet PROVE InOrder(idx', Highest')
    <2>1. \A i \in 1..Len(idx') : idx'[i].off \in Nat
      BY <1>3
    <2> QED BY <1>2, <1>4, <1>5, <2>1, Widened
  <1>6. \A e \in Event : Possible(e, Highest) => Possible(e, Highest')
    BY <1>2 DEF Possible, Event
  <1>7. ASSUME NotSet, NEW v \in Writers, NEW e \in todo'[v] PROVE Possible(e, Highest')
    <2>1. CASE v = w
      <3>1. e \in EventsOf(idx')
        BY <1>7, <2>1, ParseType DEF TypeOK
      <3> QED BY <1>2, <1>3, <1>4, <1>6, <1>7, <3>1, EventsPossible, EventsType
    <2>2. CASE v # w
      <3>1. e \in todo[v] /\ e \in Event
        BY <1>7, <2>2, ParseType DEF TypeOK
      <3> QED BY <1>6, <1>7, <3>1 DEF PInv, OffsetsKnown
    <2> QED BY <2>1, <2>2
  <1>8. ASSUME NotSet, NEW n \in 1..Len(list) PROVE Possible(list[n].event, Highest')
    <2>1. list[n] \in Item
      BY DEF TypeOK
    <2> QED BY <1>6, <1>8, <2>1 DEF PInv, OffsetsKnown, Item
  <1>9. OffsetsKnown'
    BY <1>1, <1>5, <1>7, <1>8 DEF OffsetsKnown, NotSet
  <1>10. EntriesPoint'
    <2>1. "mended" \notin spoilt' => idx' = idx
      BY DEF Parse
    <2>2. spoilt' \cap {"jumped", "lost", "mended"} = {}
            => spoilt \cap {"jumped", "lost", "mended"} = {}
      BY DEF Parse
    <2> QED BY <2>1, <2>2 DEF PInv, EntriesPoint
  <1> QED BY <1>9, <1>10

\* Steps that leave entries, events and lists alone.
LEMMA StillPossible ==
  ASSUME TypeOK, PInv, UNCHANGED <<video, idx, todo, list, spoilt>>,
         Highest <= Highest', Highest' \in Nat
  PROVE  OffsetsKnown' /\ EntriesPoint'
  <1>1. Highest \in Nat
    BY DEF Highest, TypeOK
  <1>2. \A e \in Event : Possible(e, Highest) => Possible(e, Highest')
    BY <1>1 DEF Possible, Event
  <1>3. \A i \in 1..Len(idx) : idx[i].off \in Nat
    <2>1. \A i \in 1..Len(idx) : idx[i] \in Entry
      BY DEF TypeOK
    <2> QED BY <2>1 DEF Entry
  <1>4. InOrder(idx, Highest) => InOrder(idx, Highest')
    BY <1>1, <1>3, Widened
  <1>5. /\ \A w \in Writers : \A e \in todo[w] : e \in Event
        /\ \A n \in 1..Len(list) : list[n] \in Item
    BY DEF TypeOK
  <1>6. \A n \in 1..Len(list) : list[n].event \in Event
    BY <1>5 DEF Item
  <1>7. OffsetsKnown'
    BY <1>2, <1>4, <1>5, <1>6 DEF PInv, OffsetsKnown, NotSet
  <1> QED BY <1>7 DEF PInv, EntriesPoint

LEMMA HighestType ==
  ASSUME TypeOK
  PROVE  Highest \in Nat /\ Highest \in {Len(video), Len(video) + 1} /\ Len(video) \in Nat
  BY DEF TypeOK, Highest

LEMMA OpenPossible ==
  ASSUME TypeOK, PInv, OpenRecordFile PROVE PInv'
  <1>1. Highest' = Len(video) + 1
    BY DEF OpenRecordFile, Highest
  <1>2. OffsetsKnown' /\ EntriesPoint'
    BY <1>1, HighestType, StillPossible DEF OpenRecordFile, listVars
  <1> QED BY <1>2 DEF OpenRecordFile, AtTheEnd, PInv

LEMMA QuietPossible ==
  ASSUME TypeOK, PInv, ClearRecordInfor \/ RepairDone PROVE PInv'
  <1>1. /\ Highest' = Highest /\ rpc' = "closed"
        /\ UNCHANGED <<video, idx, todo, list, spoilt>>
    BY DEF ClearRecordInfor, RepairDone, Highest, fileVars, listVars
  <1> QED BY <1>1, HighestType, StillPossible DEF AtTheEnd, PInv

LEMMA ClosePossible ==
  ASSUME TypeOK, PInv, CloseRecordFile \/ fixNotCloseFile PROVE PInv'
  <1>1. /\ Highest' = Len(video) + 1 /\ rpc' # "open" /\ UNCHANGED <<video, list>>
    BY DEF CloseRecordFile, fixNotCloseFile, Highest
  <1>2. CASE Parse("recorder", {"raced", "unlisted"})
    BY <1>1, <1>2, HighestType, ParsePossible DEF AtTheEnd, PInv, Writers
  <1>3. CASE UNCHANGED <<idx, todo, spoilt>>
    BY <1>1, <1>3, HighestType, StillPossible DEF AtTheEnd, PInv
  <1> QED BY <1>2, <1>3 DEF CloseRecordFile, fixNotCloseFile

LEMMA SearchPossible ==
  ASSUME TypeOK, PInv, UpdateListFile PROVE PInv'
  <1>1. /\ Highest' = Highest /\ UNCHANGED <<video, list, rpc, fpos, m_offset, ipos>>
        /\ Parse("search", {})
    BY DEF UpdateListFile, Highest
  <1>2. OffsetsKnown' /\ EntriesPoint'
    BY <1>1, HighestType, ParsePossible DEF Writers
  <1>3. Len(idx') = Len(idx) /\ ("jumped" \in spoilt <=> "jumped" \in spoilt')
    BY <1>1, ParseType DEF Parse, Writers
  <1> QED BY <1>1, <1>2, <1>3 DEF AtTheEnd, NotSet, PInv

LEMMA ScanPossible ==
  ASSUME TypeOK, PInv, NEW w \in Writers, AddScan(w) PROVE PInv'
  <1>1. /\ UNCHANGED <<video, idx, rpc, dirty, fpos, m_offset, ipos, spoilt>>
    BY DEF AddScan, fileVars
  <1>2. \A v \in Writers : todo'[v] \subseteq todo[v]
    BY DEF AddScan, TypeOK
  <1>3. Len(list') = Len(list) /\ \A n \in 1..Len(list) : list'[n].event = list[n].event
    <2>1. \A n \in 1..Len(list) : list[n] \in Item
      BY DEF TypeOK
    <2>2. \A x \in Item : [x EXCEPT !.deleted = TRUE].event = x.event
      BY DEF Item
    <2>3. list \in Seq(Item)
      BY DEF TypeOK
    <2>4. CASE UNCHANGED list
      BY <2>4
    <2>5. ASSUME NEW e \in todo[w],
                 list' = [i \in 1..Len(list) |->
                            IF Replaces(e, list[i]) THEN [list[i] EXCEPT !.deleted = TRUE]
                            ELSE list[i]]
          PROVE  Len(list') = Len(list) /\ \A n \in 1..Len(list) : list'[n].event = list[n].event
      BY <2>1, <2>2, <2>3, <2>5
    <2> QED BY <2>4, <2>5 DEF AddScan
  <1>4. Highest' = Highest
    BY <1>1 DEF Highest
  <1>5. OffsetsKnown'
    BY <1>1, <1>2, <1>3, <1>4 DEF PInv, OffsetsKnown, NotSet
  <1> QED BY <1>1, <1>5 DEF PInv, AtTheEnd, EntriesPoint, NotSet

LEMMA AddPossible ==
  ASSUME TypeOK, PInv, NEW w \in Writers, AddWrite(w) PROVE PInv'
  <1>1. UNCHANGED <<video, idx, rpc, dirty, fpos, m_offset, ipos>>
    BY DEF AddWrite, fileVars
  <1>2. spoilt' \in {spoilt, spoilt \cup {"raced"}}
    BY DEF AddWrite
  <1>3. Highest' = Highest
    BY <1>1 DEF Highest
  <1>4. \A v \in Writers : todo'[v] \subseteq todo[v]
    BY DEF AddWrite, TypeOK
  <1>5. PICK e \in todo[w] : list' = Put(list, eof[w], [event |-> e, deleted |-> FALSE],
                                        [event |-> e, deleted |-> FALSE])
    BY DEF AddWrite
  <1>6. \A n \in 1..Len(list') : \/ list'[n].event = e
                                 \/ n \in 1..Len(list) /\ list'[n] = list[n]
    <2>1. Len(list) \in Nat /\ eof[w] \in Nat
      BY DEF TypeOK
    <2>2. PICK item : item = [event |-> e, deleted |-> FALSE]
      OBVIOUS
    <2>3. list' = [i \in 1..(IF eof[w] > Len(list) THEN eof[w] ELSE Len(list)) |->
                     IF i = eof[w] THEN item ELSE IF i <= Len(list) THEN list[i] ELSE item]
      BY <1>5, <2>2 DEF Put
    <2> QED BY <2>1, <2>2, <2>3
  <1>7. OffsetsKnown'
    BY <1>1, <1>2, <1>3, <1>4, <1>6 DEF PInv, OffsetsKnown, NotSet
  <1> QED BY <1>1, <1>2, <1>7 DEF PInv, AtTheEnd, EntriesPoint, NotSet

LEMMA RederectPossible ==
  ASSUME NEW t, RederectFilePosition(t) PROVE PInv'
  <1>1. "jumped" \in spoilt'
    BY DEF RederectFilePosition
  <1> QED BY <1>1 DEF PInv, AtTheEnd, OffsetsKnown, EntriesPoint, NotSet

\* The frame goes to the end of the file, its entry to that of the index.
LEMMA WritePossible ==
  ASSUME TypeOK, TypeOK', PInv, NEW d \in Steps, NEW kind \in Kinds, WriteRecordFile(d, kind)
  PROVE  PInv'
  <1>1. /\ rpc = "open" /\ rpc' = "open" /\ dirty' = TRUE
        /\ UNCHANGED <<todo, list, spoilt>>
        /\ ipos' = ipos + 1 /\ fpos' = fpos + 1 /\ m_offset' = m_offset + 1
    BY DEF WriteRecordFile, listVars
  <1>2. SUFFICES ASSUME NotSet PROVE PInv'
    BY <1>1 DEF PInv, AtTheEnd, OffsetsKnown, EntriesPoint, NotSet
  <1>3. /\ fpos = Len(video) + 1 /\ m_offset = Len(video) + 1 /\ ipos = Len(idx) + 1
    BY <1>1, <1>2 DEF PInv, AtTheEnd
  <1>4. /\ Len(video) \in Nat /\ Len(idx) \in Nat
        /\ video \in Seq(Nat \cup {Hole}) /\ idx \in Seq(Entry)
    BY DEF TypeOK
  <1>5. PICK time : time = now' % DayLen
    OBVIOUS
  <1>6. PICK e : e = [time |-> time, off |-> Len(video) + 1, kind |-> kind]
    OBVIOUS
  <1>7. idx' = Put(idx, Len(idx) + 1, e, Zeroed) /\ video' = Put(video, Len(video) + 1, time, Hole)
    BY <1>3, <1>5, <1>6 DEF WriteRecordFile
  <1>8. /\ Len(video') = Len(video) + 1 /\ video'[Len(video) + 1] = time
        /\ \A i \in 1..Len(video) : video'[i] = video[i]
    BY <1>4, <1>7 DEF Put
  <1>9. /\ Len(idx') = Len(idx) + 1 /\ idx'[Len(idx) + 1] = e
        /\ \A i \in 1..Len(idx) : idx'[i] = idx[i]
    BY <1>4, <1>7 DEF Put
  <1>10. Highest' = Len(video) + 1 /\ Highest <= Len(video) + 1 /\ Highest \in Nat
    BY <1>1, <1>8, HighestType DEF Highest
  <1>11. AtTheEnd'
    BY <1>1, <1>3, <1>8, <1>9 DEF AtTheEnd
  <1>12. \A i \in 1..Len(idx) : idx[i].off \in Nat
    <2>1. \A i \in 1..Len(idx) : idx[i] \in Entry
      BY <1>4
    <2> QED BY <2>1 DEF Entry
  <1>13. e.off = Len(video) + 1 /\ e.time = time
    BY <1>6
  <1>14. InOrder(idx', Len(video) + 1)
    <2>1. /\ \A i \in 1..Len(idx) : 1 <= idx[i].off /\ idx[i].off <= Highest
          /\ \A i, j \in 1..Len(idx) : i <= j => idx[i].off <= idx[j].off
      BY <1>2 DEF PInv, OffsetsKnown, InOrder
    <2>2. \A i \in 1..Len(idx') : i \in 1..Len(idx) \/ i = Len(idx) + 1
      BY <1>4, <1>9
    <2>3. \A i \in 1..Len(idx') : 1 <= idx'[i].off /\ idx'[i].off <= Len(video) + 1
      BY <1>4, <1>9, <1>10, <1>12, <1>13, <2>1, <2>2
    <2>4. ASSUME NEW i \in 1..Len(idx'), NEW j \in 1..Len(idx'), i <= j
          PROVE  idx'[i].off <= idx'[j].off
      <3>1. CASE j = Len(idx) + 1
        BY <1>9, <1>13, <2>3, <3>1
      <3>2. CASE j \in 1..Len(idx)
        BY <1>4, <1>9, <2>1, <2>2, <2>4, <3>2
      <3> QED BY <2>2, <3>1, <3>2
    <2> QED BY <2>3, <2>4 DEF InOrder
  <1>15. \A x \in Event : Possible(x, Highest) => Possible(x, Len(video) + 1)
    BY <1>4, <1>10 DEF Possible, Event
  <1>16. OffsetsKnown'
    <2>1. /\ \A w \in Writers : \A x \in todo[w] : x \in Event
          /\ \A n \in 1..Len(list) : list[n] \in Item
      BY DEF TypeOK
    <2>2. \A n \in 1..Len(list) : list[n].event \in Event
      BY <2>1 DEF Item
    <2> QED BY <1>1, <1>2, <1>10, <1>14, <1>15, <2>1, <2>2 DEF PInv, OffsetsKnown
  <1>17. EntriesPoint'
    <2>1. SUFFICES ASSUME spoilt \cap {"jumped", "lost", "mended"} = {},
                          NEW i \in 1..Len(idx')
                   PROVE  idx'[i].off \in 1..Len(video') /\ video'[idx'[i].off] = idx'[i].time
      BY <1>1 DEF EntriesPoint
    <2>2. CASE i \in 1..Len(idx)
      <3>1. idx[i].off \in 1..Len(video) /\ video[idx[i].off] = idx[i].time
        BY <2>1, <2>2 DEF PInv, EntriesPoint
      <3> QED BY <1>4, <1>8, <1>9, <2>2, <3>1
    <2>3. CASE i = Len(idx) + 1
      BY <1>4, <1>8, <1>9, <1>13, <2>3
    <2> QED BY <1>4, <1>9, <2>2, <2>3
  <1> QED BY <1>11, <1>16, <1>17 DEF PInv

\* A crash takes the last group only when it was written since the file was
\* opened: then no offset was beyond it.
LEMMA CrashPossible ==
  ASSUME TypeOK, PInv, Crash PROVE PInv'
  <1>1. /\ rpc' = "down" /\ UNCHANGED <<idx, list>>
        /\ \A w \in Writers : todo'[w] = {}
    BY DEF Crash
  <1>2. Highest \in Nat /\ Len(video) \in Nat
    BY HighestType
  <1>3. "jumped" \in spoilt' <=> "jumped" \in spoilt
    BY DEF Crash
  <1>4. NotSet => Highest <= Highest' /\ Highest' \in Nat
    <2>1. CASE UNCHANGED video
      BY <1>1, <1>2, <2>1 DEF Highest
    <2>2. CASE /\ rpc = "open" /\ dirty /\ fpos = Len(video) + 1
               /\ video' = SubSeq(video, 1, Len(video) - 1)
      <3>1. Highest = Len(video) /\ Highest' = Len(video') + 1
        BY <1>1, <2>2 DEF Highest
      <3>2. Len(video') + 1 >= Len(video) /\ Len(video') \in Nat
        <4>1. video \in Seq(Nat \cup {Hole})
          BY DEF TypeOK
        <4> QED BY <1>2, <2>2, <4>1
      <3> QED BY <1>2, <3>1, <3>2
    <2> QED BY <2>1, <2>2 DEF Crash
  <1>5. /\ \A i \in 1..Len(idx) : idx[i].off \in Nat
        /\ \A n \in 1..Len(list) : list[n].event \in Event
    <2>1. /\ \A i \in 1..Len(idx) : idx[i] \in Entry
          /\ \A n \in 1..Len(list) : list[n] \in Item
      BY DEF TypeOK
    <2> QED BY <2>1 DEF Entry, Item
  <1>6. NotSet => \A x \in Event : Possible(x, Highest) => Possible(x, Highest')
    BY <1>2, <1>4 DEF Possible, Event
  <1>7. NotSet /\ InOrder(idx, Highest) => InOrder(idx, Highest')
    BY <1>2, <1>4, <1>5 DEF InOrder
  <1>8. OffsetsKnown'
    BY <1>1, <1>3, <1>5, <1>6, <1>7 DEF PInv, OffsetsKnown, NotSet
  <1>9. EntriesPoint'
    <2>1. CASE UNCHANGED video
      <3>1. spoilt' \cap {"jumped", "lost", "mended"} = {}
              => spoilt \cap {"jumped", "lost", "mended"} = {}
        BY DEF Crash
      <3> QED BY <1>1, <2>1, <3>1 DEF PInv, EntriesPoint
    <2>2. CASE "lost" \in spoilt'
      BY <2>2 DEF EntriesPoint
    <2> QED BY <2>1, <2>2 DEF Crash
  <1> QED BY <1>1, <1>8, <1>9 DEF PInv, AtTheEnd

\* As long as the clock is not set, offsets and entries are where the frames are.
THEOREM Positions == Spec => []PInv
  <1>1. Init => PInv
    BY DEF Init, PInv, AtTheEnd, OffsetsKnown, EntriesPoint, InOrder
  <1>2. ASSUME TInv, TInv', PInv, [Next]_vars PROVE PInv'
    <2> USE DEF TInv
    <2>1. CASE \E d \in Steps, k \in Kinds : WriteRecordFile(d, k)
      BY <1>2, <2>1, WritePossible
    <2>2. CASE \E t \in Clocks : RederectFilePosition(hour * HourLen + t)
      BY <2>2, RederectPossible
    <2>3. CASE \E w \in Writers : AddScan(w) \/ AddWrite(w)
      BY <1>2, <2>3, ScanPossible, AddPossible
    <2>4. CASE UNCHANGED vars
      BY <1>2, <2>4 DEF vars, fileVars, listVars, PInv, AtTheEnd, OffsetsKnown, EntriesPoint,
                        NotSet, Highest
    <2> QED BY <1>2, <2>1, <2>2, <2>3, <2>4, OpenPossible, QuietPossible, ClosePossible,
               SearchPossible, CrashPossible DEF Next
  <1> QED BY <1>1, <1>2, TypesAndIdle, PTL DEF Spec

\* As long as the clock is not set, no event of the list is longer than its
\* file, or shorter than nothing: also after a crash that took its end.
THEOREM SizesFit == Spec => []SizesPossibleUnlessJumped
  <1>1. TypeOK /\ PInv => SizesPossibleUnlessJumped
    <2> SUFFICES ASSUME TypeOK, PInv, NotSet, NEW n \in Live
                 PROVE  /\ 0 <= list[n].event.to - list[n].event.from
                        /\ list[n].event.to - list[n].event.from <= Len(video)
      BY DEF SizesPossibleUnlessJumped, SizesPossible, NotSet
    <2>1. n \in 1..Len(list) /\ list[n] \in Item
      BY DEF Live, TypeOK
    <2>2. list[n].event \in Event
      BY <2>1 DEF Item
    <2>3. Possible(list[n].event, Highest)
      BY <2>1 DEF PInv, OffsetsKnown
    <2> QED BY <2>2, <2>3, HighestType DEF Possible, Event
  <1> QED BY <1>1, TypeCorrect, Positions, PTL

\* A set of numbers has a first one.
LEMMA FirstOne ==
  ASSUME NEW S \in SUBSET Nat, S # {}
  PROVE  \E i \in S : \A j \in S : i <= j
  <1>1. PICK i \in S : \A j \in S : ~(<<j, i>> \in OpToRel(<, Nat))
    BY WFMin, NatLessThanWellFounded, Zenon
  <1>2. \A j \in S : i \in Nat /\ j \in Nat
    OBVIOUS
  <1>3. OpToRel(<, Nat) = {p \in Nat \X Nat : p[1] < p[2]}
    BY Zenon DEF OpToRel
  <1>4. \A j \in Nat : <<j, i>> \in {p \in Nat \X Nat : p[1] < p[2]} <=> i \in Nat /\ j < i
    OBVIOUS
  <1>5. \A j \in S : ~(j < i)
    BY <1>1, <1>2, <1>3, <1>4, Zenon
  <1> QED BY <1>2, <1>5

\* Playback from a second begins with a frame of that time: GetRecordOffset's
\* offset is where the frame of its entry is.
THEOREM SeeksItsFrame == Spec => []SeekFinds
  <1>1. TypeOK /\ PInv => SeekFinds
    <2> SUFFICES ASSUME TypeOK, PInv, spoilt \cap {"jumped", "lost", "mended"} = {},
                        NEW t \in Day, \E i \in 1..Len(idx) : idx[i].time >= t
                 PROVE  LET o == idx[Seek(t)].off
                        IN  o \in 1..Len(video) /\ video[o] = idx[Seek(t)].time
      BY DEF SeekFinds
    <2> DEFINE S == {i \in 1..Len(idx) : idx[i].time >= t}
    <2>1. Len(idx) \in Nat /\ S \in SUBSET Nat /\ S # {}
      BY DEF TypeOK
    <2>2. PICK i \in S : \A j \in S : i <= j
      BY <2>1, FirstOne
    <2>3. \A j \in 1..Len(idx) : idx[j].time \in Nat
      <3>1. \A j \in 1..Len(idx) : idx[j] \in Entry
        BY DEF TypeOK
      <3> QED BY <3>1 DEF Entry
    <2>4. t \in Int
      BY IndexAssumption DEF Day
    <2>5. \A j \in 1..(i - 1) : idx[j].time < t
      BY <2>1, <2>2, <2>3, <2>4
    <2>6. Seek(t) \in 1..Len(idx)
      BY <2>2, <2>5 DEF Seek
    <2> QED BY <2>6 DEF PInv, EntriesPoint
  <1> QED BY <1>1, TypeCorrect, Positions, PTL

=============================================================================
