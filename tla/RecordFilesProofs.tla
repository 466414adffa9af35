------------------------- MODULE RecordFilesProofs -------------------------
(***************************************************************************)
(* What RecordFiles promises for every length of a day, every disk, every  *)
(* number of searches and however often anything may happen.               *)
(*                                                                         *)
(* The recorder and the cleaner keep off each other: the control thread    *)
(* waits while a file is opened, closed or listed.  So a day the cleaner   *)
(* has chosen stays the oldest until it is through, and the file it has    *)
(* just deleted stays deleted.  A search may put events into any list at   *)
(* any time; it moves no item that is there.                               *)
(***************************************************************************)
EXTENDS RecordFiles, FiniteSetTheorems, WellFoundedInduction, TLAPS

-----------------------------------------------------------------------------
(* Hours and days.                                                         *)

LEMMA Quotient ==
  ASSUME NEW a \in Nat, NEW h \in Nat \ {0}
  PROVE  a \div h \in Nat /\ h * (a \div h) <= a /\ a < h * (a \div h) + h
  BY Z3

LEMMA NextMultiple ==
  ASSUME NEW a \in Nat, NEW b \in Nat, NEW h \in Nat \ {0}, a + 1 <= b
  PROVE  h * a + h <= h * b
  BY Z3

LEMMA QuotientBelow ==
  ASSUME NEW f \in Nat, NEW h \in Nat \ {0}, NEW l \in Nat, f \in 0..(h * l - 1)
  PROVE  (f \div h) + 1 \in 1..l
  <1> DEFINE q == f \div h
  <1>1. q \in Nat /\ h * q <= f /\ f < h * q + h
    BY Quotient
  <1>2. h * q < h * l
    BY <1>1
  <1>3. ASSUME q >= l PROVE FALSE
    <2>1. CASE q = l
      BY <1>1, <1>2, <2>1
    <2>2. CASE l + 1 <= q
      BY <1>1, <1>2, <2>2, NextMultiple
    <2> QED BY <1>3, <1>1, <2>1, <2>2
  <1> QED BY <1>1, <1>3

LEMMA QuotientMonotonic ==
  ASSUME NEW a \in Nat, NEW b \in Nat, a <= b, NEW h \in Nat \ {0}
  PROVE  (a \div h) + 1 <= (b \div h) + 1
  <1> DEFINE q == a \div h
             r == b \div h
  <1>1. /\ q \in Nat /\ h * q <= a /\ a < h * q + h
        /\ r \in Nat /\ h * r <= b /\ b < h * r + h
    BY Quotient
  <1>2. ASSUME r + 1 <= q PROVE FALSE
    <2>1. h * r + h <= h * q
      BY <1>1, <1>2, NextMultiple
    <2>2. h * q \in Nat /\ h * r \in Nat
      BY <1>1
    <2> QED BY <1>1, <2>1, <2>2
  <1> QED BY <1>1, <1>2

\* Every hour has its day, a later hour no earlier one.
LEMMA DayType ==
  /\ \A f \in Times : DayOf(f) \in Days /\ f \in Nat
  /\ \A f, g \in Times : f <= g => DayOf(f) <= DayOf(g)
  /\ Days = 1..Len(Order) /\ 1 \in Days /\ 0 \in Times /\ Days \subseteq Nat
  /\ NoFile \notin Times /\ TheList \notin Times /\ NoDay \notin Days
  <1>1. DayHours \in Nat \ {0} /\ Len(Order) \in Nat \ {0} /\ Days = 1..Len(Order)
    BY FilesAssumption DEF Days
  <1>2. ASSUME NEW f \in Times PROVE DayOf(f) \in Days /\ f \in Nat
    <2>1. f \in 0..(DayHours * Len(Order) - 1) /\ DayHours * Len(Order) \in Nat
      BY <1>1, <1>2 DEF Times
    <2>2. f \in Nat
      BY <2>1
    <2>3. (f \div DayHours) + 1 \in 1..Len(Order)
      BY <1>1, <2>1, <2>2, QuotientBelow
    <2> QED BY <1>1, <2>2, <2>3 DEF DayOf
  <1>3. ASSUME NEW f \in Times, NEW g \in Times, f <= g PROVE DayOf(f) <= DayOf(g)
    BY <1>1, <1>2, <1>3, QuotientMonotonic DEF DayOf
  <1>4. 0 \in Times
    <2>1. DayHours * Len(Order) >= 1
      BY <1>1, NextMultiple, 0 \in Nat
    <2> QED BY <1>1, <2>1 DEF Times
  <1>5. NoFile \notin Times /\ TheList \notin Times /\ NoDay \notin Days
    BY <1>1, <1>2 DEF NoFile, TheList, NoDay
  <1> QED BY <1>1, <1>2, <1>3, <1>4, <1>5

-----------------------------------------------------------------------------
(* The inductive invariant.                                                *)

\* While its events are listed the closed file is there, and the index has them.
RecorderKnows ==
  /\ rpc = "listing" => recFile \in files \ m_bNonStop /\ pending <= events[recFile]
  /\ rpc \in {"stopped", "down", "repair"} => recFile = NoFile

\* The cleaner's day is there and the oldest, until it is through; what it has
\* deleted last it is still marking.
CleanerKnows ==
  /\ cpc # "idle" => /\ cday \in dirs /\ \A e \in dirs : Order[cday] <= Order[e]
                     /\ rpc \in {"stopped", "recording", "failed"}
  /\ cpc \in {"scan", "mark"} => cpos >= 1
  /\ cpc = "mark" => /\ cpos \in 1..Len(list[cday])
                     /\ cfile \notin files /\ list[cday][cpos].file = cfile

InTheirDay == \A d \in Days : \A i \in 1..Len(list[d]) : DayOf(list[d][i].file) = d

IInv == TypeOK /\ RecorderKnows /\ CleanerKnows /\ InTheirDay

DiskType ==
  /\ dirs \subseteq Days /\ files \subseteq Times
  /\ m_bNonStop \subseteq files /\ \A f \in files : DayOf(f) \in dirs
  /\ lists \subseteq dirs /\ list \in [Days -> Seq(Item)]
  /\ events \in [Times -> 0..MaxEvents]
RecType ==
  /\ rpc \in {"stopped", "recording", "listing", "failed", "down", "repair"}
  /\ recFile \in Times \cup {NoFile} /\ pending \in 0..MaxEvents
CleanType ==
  /\ cpc \in {"idle", "scan", "mark", "deldir"} /\ cday \in Days \cup {NoDay}
  /\ cpos \in Nat /\ cfile \in Times \cup {NoFile}
  /\ cmust \subseteq Times \cup {TheList}
SearchRec == [day : Days \cup {NoDay}, got : SUBSET Nat, twice : BOOLEAN,
              due : SUBSET Nat, alone : BOOLEAN]
SearchType == m_s32IdxOffset \in Nat /\ search \in [Sessions -> SearchRec]
RestType ==
  /\ time \in Times /\ left \in [Chances -> Nat]
  /\ startDay \in Days /\ excused \subseteq Times

LEMMA TypeParts ==
  TypeOK <=> DiskType /\ RecType /\ CleanType /\ SearchType /\ RestType
  BY DEF TypeOK, DiskType, RecType, CleanType, SearchType, SearchRec, RestType

LEMMA TypePartsNext ==
  TypeOK' <=> DiskType' /\ RecType' /\ CleanType' /\ SearchType' /\ RestType'
  BY TypeParts, PTL

LEMMA SpendType ==
  ASSUME RestType, NEW what \in Chances, Spend(what)
  PROVE  left' \in [Chances -> Nat]
  BY DEF RestType, Spend

LEMMA Concatenation ==
  ASSUME NEW S, NEW s \in Seq(S), NEW t \in Seq(S)
  PROVE  /\ s \o t \in Seq(S) /\ Len(s \o t) = Len(s) + Len(t)
         /\ \A i \in 1..Len(s) : (s \o t)[i] = s[i]
         /\ \A i \in (Len(s) + 1)..(Len(s) + Len(t)) : (s \o t)[i] = t[i - Len(s)]
  OBVIOUS

\* Events put into the list of f's day: no item moves, and the new ones are
\* f's and there to be found.
Grown(f, from, to) ==
  LET d == DayOf(f)
  IN  /\ list' \in [Days -> Seq(Item)]
      /\ \A e \in Days \ {d} : list'[e] = list[e]
      /\ Len(list'[d]) = Len(list[d]) + (to - from + 1)
      /\ \A i \in 1..Len(list[d]) :
           /\ list'[d][i].file = list[d][i].file
           /\ list[d][i].file # f => list'[d][i] = list[d][i]
           /\ list[d][i].deleted => list'[d][i].deleted
      /\ \A i \in (Len(list[d]) + 1)..Len(list'[d]) :
           list'[d][i].file = f /\ ~list'[d][i].deleted
      /\ from > to => list'[d] = list[d]
      /\ lists \subseteq lists' /\ lists' \subseteq dirs
      /\ from <= to => d \in lists'

LEMMA Enlisted ==
  ASSUME TypeOK, NEW f \in files, NEW from \in Nat \ {0}, NEW to \in 0..MaxEvents,
         from <= to + 1, Enlist(f, from, to)
  PROVE  Grown(f, from, to)
  <1> DEFINE d == DayOf(f)
  <1>0. f \in Times /\ d \in dirs
    BY DEF TypeOK
  <1> DEFINE n == Len(list[d])
             old == [i \in 1..n |->
                       IF list[d][i].file = f /\ list[d][i].event \in from..to
                       THEN [list[d][i] EXCEPT !.deleted = TRUE] ELSE list[d][i]]
             new == [i \in 1..(to - from + 1) |->
                       [file |-> f, event |-> from + i - 1, deleted |-> FALSE]]
  <1>1. /\ d \in Days /\ list \in [Days -> Seq(Item)] /\ n \in Nat
        /\ lists \subseteq dirs
    <2>1. d \in Days
      BY <1>0, DayType
    <2>2. list \in [Days -> Seq(Item)] /\ lists \subseteq dirs
      BY DEF TypeOK
    <2>3. list[d] \in Seq(Item)
      BY <2>1, <2>2
    <2> QED BY <2>1, <2>2, <2>3
  <1>2. \A i \in 1..n : list[d][i] \in Item
    BY <1>1
  <1>3. \A it \in Item : /\ [it EXCEPT !.deleted = TRUE] \in Item
                         /\ [it EXCEPT !.deleted = TRUE].file = it.file
                         /\ [it EXCEPT !.deleted = TRUE].deleted
    BY DEF Item
  <1>4. /\ old \in Seq(Item) /\ Len(old) = n
        /\ \A i \in 1..n : /\ old[i].file = list[d][i].file
                           /\ list[d][i].file # f => old[i] = list[d][i]
                           /\ list[d][i].deleted => old[i].deleted
    <2>1. \A i \in 1..n : old[i] \in Item
      BY <1>2, <1>3
    <2>2. old \in [1..n -> Item]
      BY <2>1
    <2>3. old \in Seq(Item) /\ Len(old) = n
      BY <1>1, <2>2
    <2>4. \A i \in 1..n : /\ old[i].file = list[d][i].file
                          /\ list[d][i].file # f => old[i] = list[d][i]
                          /\ list[d][i].deleted => old[i].deleted
      BY <1>2, <1>3
    <2> QED BY <2>3, <2>4
  <1>5. /\ new \in Seq(Item) /\ Len(new) = to - from + 1 /\ Len(new) \in Nat
        /\ \A i \in 1..Len(new) : new[i].file = f /\ ~new[i].deleted
    <2>0. MaxEvents \in Nat /\ to - from + 1 \in Nat
      BY FilesAssumption
    <2>1. \A i \in 1..(to - from + 1) : from + i - 1 \in 1..MaxEvents
      BY <2>0
    <2>2. new \in [1..(to - from + 1) -> Item]
      BY <1>0, <2>1 DEF Item
    <2> QED BY <2>0, <2>2
  <1>6. list' = [list EXCEPT ![d] = old \o new]
    BY DEF Enlist, WithEvents
  <1> HIDE DEF old, new
  <1>7. /\ old \o new \in Seq(Item) /\ Len(old \o new) = n + (to - from + 1)
        /\ \A i \in 1..n : (old \o new)[i] = old[i]
        /\ \A i \in (n + 1)..(n + (to - from + 1)) : (old \o new)[i] = new[i - n]
    <2>1. /\ old \o new \in Seq(Item) /\ Len(old \o new) = Len(old) + Len(new)
          /\ \A i \in 1..Len(old) : (old \o new)[i] = old[i]
          /\ \A i \in (Len(old) + 1)..(Len(old) + Len(new)) :
               (old \o new)[i] = new[i - Len(old)]
      <3>1. old \in Seq(Item) /\ new \in Seq(Item)
        BY <1>4, <1>5
      <3> QED BY <3>1, Concatenation
    <2>2. Len(old) = n /\ Len(new) = to - from + 1
      BY <1>4, <1>5
    <2> QED BY <2>1, <2>2
  <1>8. list'[d] = old \o new /\ \A e \in Days \ {d} : list'[e] = list[e]
    BY <1>1, <1>6
  <1>9. list' \in [Days -> Seq(Item)]
    BY <1>1, <1>6, <1>7
  <1>10. \A i \in (n + 1)..(n + (to - from + 1)) : i - n \in 1..Len(new)
    BY <1>1, <1>5
  <1>11. ASSUME from > to PROVE list'[d] = list[d]
    <2>1. to - from + 1 = 0 /\ from..to = {}
      BY <1>11, FilesAssumption
    <2>2. \A i \in 1..n : old[i] = list[d][i]
      BY <2>1 DEF old
    <2>3. Len(list'[d]) = n /\ list'[d] \in Seq(Item) /\ list[d] \in Seq(Item)
      BY <1>1, <1>7, <1>8, <2>1
    <2>4. \A i \in 1..n : list'[d][i] = list[d][i]
      BY <1>7, <1>8, <2>2
    <2> QED BY <2>3, <2>4
  <1>12. /\ lists \subseteq lists' /\ lists' \subseteq dirs
         /\ from <= to => d \in lists'
    BY <1>0, <1>1 DEF Enlist
  <1>13. \A i \in 1..n :
           /\ list'[d][i].file = list[d][i].file
           /\ list[d][i].file # f => list'[d][i] = list[d][i]
           /\ list[d][i].deleted => list'[d][i].deleted
    BY <1>4, <1>7, <1>8
  <1>14. \A i \in (n + 1)..Len(list'[d]) : list'[d][i].file = f /\ ~list'[d][i].deleted
    <2> SUFFICES ASSUME NEW i \in (n + 1)..(n + (to - from + 1))
                 PROVE  list'[d][i].file = f /\ ~list'[d][i].deleted
      BY <1>7, <1>8
    <2>1. list'[d][i] = new[i - n] /\ i - n \in 1..Len(new)
      BY <1>7, <1>8, <1>10
    <2> QED BY <1>5, <2>1
  <1>15. Len(list'[d]) = n + (to - from + 1)
    BY <1>7, <1>8
  <1> QED BY <1>8, <1>9, <1>11, <1>12, <1>13, <1>14, <1>15 DEF Grown

LEMMA EnlistKeeps ==
  ASSUME TypeOK, InTheirDay, NEW f \in files, NEW from \in Nat \ {0},
         NEW to \in 0..MaxEvents, from <= to + 1, Enlist(f, from, to)
  PROVE  /\ list' \in [Days -> Seq(Item)] /\ lists \subseteq lists' /\ lists' \subseteq dirs
         /\ \A e \in Days :
              /\ Len(list[e]) <= Len(list'[e])
              /\ \A i \in 1..Len(list[e]) : list'[e][i].file = list[e][i].file
         /\ \A e \in Days : \A i \in 1..Len(list'[e]) : DayOf(list'[e][i].file) = e
  <1> DEFINE d == DayOf(f)
  <1>1. /\ f \in Times /\ d \in dirs /\ d \in Days /\ list \in [Days -> Seq(Item)]
        /\ d = DayOf(f)
    BY DayType DEF TypeOK
  <1> HIDE DEF d
  <1>2. /\ list' \in [Days -> Seq(Item)]
        /\ \A e \in Days \ {d} : list'[e] = list[e]
        /\ Len(list'[d]) = Len(list[d]) + (to - from + 1)
        /\ \A i \in 1..Len(list[d]) : list'[d][i].file = list[d][i].file
        /\ \A i \in (Len(list[d]) + 1)..Len(list'[d]) : list'[d][i].file = f
        /\ lists \subseteq lists' /\ lists' \subseteq dirs
    <2>1. /\ list' \in [Days -> Seq(Item)]
          /\ \A e \in Days \ {d} : list'[e] = list[e]
          /\ Len(list'[d]) = Len(list[d]) + (to - from + 1)
          /\ \A i \in 1..Len(list[d]) :
               /\ list'[d][i].file = list[d][i].file
               /\ list[d][i].file # f => list'[d][i] = list[d][i]
          /\ \A i \in (Len(list[d]) + 1)..Len(list'[d]) :
               list'[d][i].file = f /\ ~list'[d][i].deleted
          /\ lists \subseteq lists' /\ lists' \subseteq dirs
      <3>1. Grown(f, from, to)
        BY Enlisted
      <3> QED BY <1>1, <3>1 DEF Grown
    <2> QED BY <2>1
  <1>3. \A e \in Days : Len(list[e]) \in Nat /\ Len(list'[e]) \in Nat
    <2>1. \A e \in Days : list[e] \in Seq(Item) /\ list'[e] \in Seq(Item)
      BY <1>1, <1>2
    <2> QED BY <2>1
  <1>4. Len(list[d]) <= Len(list'[d])
    BY <1>1, <1>2, <1>3, FilesAssumption
  <1>5. \A e \in Days : /\ Len(list[e]) <= Len(list'[e])
                        /\ \A i \in 1..Len(list[e]) : list'[e][i].file = list[e][i].file
    <2> TAKE e \in Days
    <2>1. CASE e = d
      BY <1>2, <1>4, <2>1
    <2>2. CASE e # d
      BY <1>2, <1>3, <2>2
    <2> QED BY <2>1, <2>2
  <1>6. ASSUME NEW e \in Days, NEW i \in 1..Len(list'[e]) PROVE DayOf(list'[e][i].file) = e
    <2>1. CASE i \in 1..Len(list[e])
      BY <1>5, <2>1 DEF InTheirDay
    <2>2. CASE i \notin 1..Len(list[e])
      <3>1. e = d /\ i \in (Len(list[d]) + 1)..Len(list'[d])
        BY <1>1, <1>2, <1>3, <1>6, <2>2
      <3>2. list'[e][i].file = f
        BY <1>2, <3>1
      <3> QED BY <3>1, <3>2 DEF d
    <2> QED BY <2>1, <2>2
  <1> QED BY <1>2, <1>5, <1>6

\* A list that only grew leaves the cleaner's place in it.
LEMMA CleanerStays ==
  ASSUME TypeOK, CleanerKnows, UNCHANGED <<dirs, cleanVars>>,
         rpc' \in {"stopped", "recording", "failed"} \/ cpc = "idle",
         files' \subseteq files \/ cpc = "idle",
         \A e \in Days :
           /\ Len(list[e]) <= Len(list'[e])
           /\ \A i \in 1..Len(list[e]) : list'[e][i].file = list[e][i].file,
         list' \in [Days -> Seq(Item)]
  PROVE  CleanerKnows'
  <1>1. UNCHANGED <<cpc, cday, cpos, cfile>>
    BY DEF cleanVars
  <1>2. CASE cpc = "idle"
    BY <1>1, <1>2 DEF CleanerKnows
  <1>3. CASE cpc # "idle"
    <2>1. cday \in Days /\ Len(list[cday]) \in Nat /\ Len(list'[cday]) \in Nat
      <3>1. cday \in Days /\ list \in [Days -> Seq(Item)]
        BY <1>3 DEF CleanerKnows, TypeOK
      <3>2. list[cday] \in Seq(Item) /\ list'[cday] \in Seq(Item)
        BY <3>1
      <3> QED BY <3>1, <3>2
    <2>2. cpc = "mark" => cpos \in 1..Len(list'[cday]) /\ list'[cday][cpos].file = cfile
      BY <2>1 DEF CleanerKnows
    <2> QED BY <1>1, <1>3, <2>2 DEF CleanerKnows
  <1> QED BY <1>2, <1>3

-----------------------------------------------------------------------------
(* The recorder's steps.                                                   *)

LEMMA RecSteps ==
  ASSUME TypeOK, NEW from, NEW to, RecStep(from, to)
  PROVE  /\ rpc = from /\ rpc' = to /\ cpc = "idle" /\ cpc' = "idle"
         /\ CleanType' /\ SearchType' /\ CleanerKnows' /\ UNCHANGED <<time, startDay>>
  BY TypeParts DEF RecStep, cleanVars, searchVars, CleanType, SearchType, CleanerKnows

LEMMA Recorder ==
  ASSUME IInv,
         \/ OpenRecordFile \/ OpenFails \/ WriteRecordFile \/ CloseRecordFile
         \/ AddOneEven2List \/ ClearRecordInfor
  PROVE  IInv'
  <1>1. /\ TypeOK /\ RecorderKnows /\ CleanerKnows /\ InTheirDay
        /\ DiskType /\ RecType /\ CleanType /\ SearchType /\ RestType
    BY TypeParts DEF IInv
  <1>2. ASSUME DiskType', RecType', CleanType', SearchType', RestType',
               RecorderKnows', CleanerKnows', InTheirDay'
        PROVE  IInv'
    BY <1>2, TypePartsNext DEF IInv
  <1>3. Today \in Days /\ time \in Times /\ Today = DayOf(time)
    BY <1>1, DayType DEF RestType, Today
  <1>4. CASE OpenRecordFile
    <2>1. DiskType'
      BY <1>1, <1>3, <1>4 DEF OpenRecordFile, DiskType
    <2>2. RestType'
      BY <1>1, <1>4, SpendType, RecSteps DEF OpenRecordFile, RestType, Chances
    <2>3. RecType' /\ RecorderKnows'
      BY <1>1, <1>3, <1>4, RecSteps DEF OpenRecordFile, RecType, RecorderKnows
    <2>4. InTheirDay'
      BY <1>1, <1>4 DEF OpenRecordFile, InTheirDay
    <2> QED BY <1>1, <1>2, <1>4, <2>1, <2>2, <2>3, <2>4, RecSteps DEF OpenRecordFile
  <1>5. CASE OpenFails
    <2>1. DiskType'
      <3>1. CASE NoDirectory
        BY <1>1, <3>1 DEF NoDirectory, DiskType, diskVars
      <3>2. CASE NoRecordFile
        BY <1>1, <1>3, <3>2 DEF NoRecordFile, DiskType
      <3>3. CASE NoIndex
        <4>1. events' \in [Times -> 0..MaxEvents]
          BY <1>1, <3>3, FilesAssumption DEF NoIndex, DiskType
        <4> QED BY <1>1, <1>3, <3>3, <4>1 DEF NoIndex, DiskType
      <3>4. CASE NoList
        BY <1>1, <1>3, <3>4 DEF NoList, DiskType
      <3> QED BY <1>5, <3>1, <3>2, <3>3, <3>4 DEF OpenFails
    <2>2. RestType'
      <3>1. /\ UNCHANGED <<time, startDay>> /\ Spend("fail")
            /\ excused' \in {excused, excused \ {time}}
        BY <1>5 DEF OpenFails, NoDirectory, NoRecordFile, NoIndex, NoList, RecStep
      <3> QED BY <1>1, <3>1, SpendType DEF RestType, Chances
    <2>3. RecType' /\ RecorderKnows'
      BY <1>1, <1>3, <1>5
      DEF OpenFails, NoDirectory, NoRecordFile, NoIndex, NoList, RecStep, RecType, RecorderKnows
    <2>4. InTheirDay'
      BY <1>1, <1>5
      DEF OpenFails, NoDirectory, NoRecordFile, NoIndex, NoList, InTheirDay, diskVars
    <2>5. CleanType' /\ SearchType' /\ CleanerKnows'
      BY <1>1, <1>5, RecSteps DEF OpenFails, NoDirectory, NoRecordFile, NoIndex, NoList
    <2> QED BY <1>2, <2>1, <2>2, <2>3, <2>4, <2>5
  <1>6. CASE WriteRecordFile
    <2>1. recFile \in Times /\ events[recFile] + 1 \in 0..MaxEvents
      BY <1>1, <1>6, FilesAssumption DEF WriteRecordFile, DiskType
    <2>2. DiskType'
      BY <1>1, <1>6, <2>1 DEF WriteRecordFile, DiskType
    <2>3. RestType'
      BY <1>1, <1>6, SpendType, RecSteps DEF WriteRecordFile, RestType, Chances
    <2>4. RecType' /\ RecorderKnows'
      BY <1>1, <1>6, RecSteps DEF WriteRecordFile, RecType, RecorderKnows
    <2>5. InTheirDay'
      BY <1>1, <1>6 DEF WriteRecordFile, InTheirDay
    <2> QED BY <1>1, <1>2, <1>6, <2>2, <2>3, <2>4, <2>5, RecSteps DEF WriteRecordFile
  <1>7. CASE CloseRecordFile
    <2>1. DiskType' /\ InTheirDay'
      BY <1>1, <1>7 DEF CloseRecordFile, DiskType, InTheirDay
    <2>2. CASE recFile \in files
      <3>1. RecStep("recording", "listing") /\ recFile \in Times
        BY <1>1, <1>7, <2>2 DEF CloseRecordFile, DiskType
      <3>2. RestType'
        BY <1>1, <1>7, <2>2, <3>1, RecSteps DEF CloseRecordFile, RestType
      <3>3. RecType' /\ RecorderKnows'
        <4>1. /\ rpc' = "listing" /\ UNCHANGED <<recFile, files, events>>
              /\ m_bNonStop' = m_bNonStop \ {recFile} /\ pending' = events[recFile]
              /\ events[recFile] \in 0..MaxEvents /\ 0..MaxEvents \subseteq Int
          BY <1>1, <1>7, <2>2, <3>1, RecSteps, FilesAssumption DEF CloseRecordFile, DiskType
        <4> QED BY <1>1, <2>2, <4>1 DEF RecType, RecorderKnows
      <3> QED BY <1>1, <1>2, <2>1, <3>1, <3>2, <3>3, RecSteps
    <2>3. CASE recFile \notin files
      <3>1. RecStep("recording", "stopped")
        BY <1>7, <2>3 DEF CloseRecordFile
      <3>2. RestType'
        BY <1>1, <1>7, <2>3, <3>1, RecSteps DEF CloseRecordFile, RestType
      <3>3. RecType' /\ RecorderKnows'
        BY <1>1, <1>7, <2>3, <3>1, RecSteps DEF CloseRecordFile, RecType, RecorderKnows
      <3> QED BY <1>1, <1>2, <2>1, <3>1, <3>2, <3>3, RecSteps
    <2> QED BY <2>2, <2>3
  <1>8. CASE AddOneEven2List
    <2> DEFINE e == events[recFile] - pending + 1
    <2>1. /\ RecStep("listing", "listing") /\ pending > 0 /\ Enlist(recFile, e, e)
          /\ pending' = pending - 1
          /\ UNCHANGED <<dirs, files, m_bNonStop, events, recFile, left, excused>>
      BY <1>8 DEF AddOneEven2List
    <2>2. recFile \in files \ m_bNonStop /\ pending <= events[recFile]
      BY <1>1, <2>1, RecSteps DEF RecorderKnows
    <2>3. events[recFile] \in 0..MaxEvents /\ pending \in 0..MaxEvents /\ MaxEvents \in Nat
      BY <1>1, <2>2, FilesAssumption DEF DiskType, RecType
    <2>4. e \in Nat \ {0} /\ e \in 0..MaxEvents /\ e <= e + 1
      BY <2>1, <2>2, <2>3
    <2> HIDE DEF e
    <2>5. /\ list' \in [Days -> Seq(Item)] /\ lists' \subseteq dirs /\ InTheirDay'
      BY <1>1, <2>1, <2>2, <2>4, EnlistKeeps DEF InTheirDay
    <2>6. DiskType'
      BY <1>1, <2>1, <2>5 DEF DiskType
    <2>7. RestType'
      BY <1>1, <2>1, RecSteps DEF RestType
    <2>8. RecType' /\ RecorderKnows'
      <3>1. pending - 1 \in 0..MaxEvents /\ pending - 1 <= events[recFile]
        BY <2>1, <2>2, <2>3
      <3> QED BY <1>1, <2>1, <2>2, <3>1, RecSteps DEF RecType, RecorderKnows
    <2> QED BY <1>1, <1>2, <2>1, <2>5, <2>6, <2>7, <2>8, RecSteps
  <1>9. CASE ClearRecordInfor
    <2>1. DiskType' /\ InTheirDay'
      BY <1>1, <1>9 DEF ClearRecordInfor, diskVars, DiskType, InTheirDay
    <2>2. RestType' /\ RecType' /\ RecorderKnows'
      BY <1>1, <1>9, RecSteps DEF ClearRecordInfor, RestType, RecType, RecorderKnows
    <2> QED BY <1>1, <1>2, <1>9, <2>1, <2>2, RecSteps DEF ClearRecordInfor
  <1> QED BY <1>4, <1>5, <1>6, <1>7, <1>8, <1>9

-----------------------------------------------------------------------------
(* The cleaner's steps.                                                    *)

LEMMA CleanSteps ==
  ASSUME TypeOK, RecorderKnows, NEW from, CleanStep(from)
  PROVE  /\ cpc = from /\ rpc \in {"stopped", "recording", "failed"} /\ rpc' = rpc
         /\ RecType' /\ RecorderKnows'
         /\ UNCHANGED <<recFile, m_s32IdxOffset, left, startDay, time>>
  BY TypeParts DEF CleanStep, recVars, RecType, RecorderKnows

\* The item the cleaner looks at is one of its day.
LEMMA HereType ==
  ASSUME IInv, cpc = "scan", ~AtEnd
  PROVE  /\ cday \in Days /\ cpos \in 1..Len(list[cday]) /\ Here \in Item
         /\ Here.file \in Times /\ DayOf(Here.file) = cday
  <1>1. cday \in Days /\ cpos \in Nat \ {0} /\ list \in [Days -> Seq(Item)]
    BY DEF IInv, CleanerKnows, TypeOK
  <1>2. list[cday] \in Seq(Item) /\ Len(list[cday]) \in Nat
    BY <1>1
  <1>3. cpos \in 1..Len(list[cday])
    BY <1>1, <1>2 DEF AtEnd
  <1>4. Here \in Item
    BY <1>2, <1>3 DEF Here
  <1> QED BY <1>1, <1>3, <1>4 DEF Item, IInv, InTheirDay, Here

LEMMA EntriesType ==
  ASSUME TypeOK, NEW d \in Days
  PROVE  Entries(d) \subseteq Times \cup {TheList} /\ FilesOf(d) \subseteq Times
  BY DEF TypeOK, Entries, FilesOf

LEMMA MarkKeeps ==
  ASSUME IInv, NEW b \in BOOLEAN, MarkItem(b)
  PROVE  IInv'
  <1>1. /\ TypeOK /\ RecorderKnows /\ CleanerKnows /\ InTheirDay
        /\ DiskType /\ RecType /\ CleanType /\ SearchType /\ RestType
    BY TypeParts DEF IInv
  <1>2. /\ CleanStep("mark")
        /\ list' = [list EXCEPT ![cday][cpos].deleted = TRUE]
        /\ UNCHANGED <<search, dirs, files, m_bNonStop, lists, events, cday, cfile, excused>>
    BY DEF MarkItem
  <1>3. /\ cday \in Days /\ cday \in dirs /\ cpos \in 1..Len(list[cday])
        /\ list \in [Days -> Seq(Item)]
        /\ cfile \notin files /\ list[cday][cpos].file = cfile
        /\ \A e \in dirs : Order[cday] <= Order[e]
    BY <1>1, <1>2, CleanSteps DEF CleanerKnows, DiskType
  <1>4. /\ Len(list[cday]) \in Nat /\ list[cday] \in Seq(Item) /\ list[cday][cpos] \in Item
    BY <1>3
  <1>5. /\ [list[cday][cpos] EXCEPT !.deleted = TRUE] \in Item
        /\ [list[cday][cpos] EXCEPT !.deleted = TRUE].file = list[cday][cpos].file
    BY <1>4 DEF Item
  <1>6. /\ list' \in [Days -> Seq(Item)] /\ Len(list'[cday]) = Len(list[cday])
        /\ \A e \in Days \ {cday} : list'[e] = list[e]
        /\ \A i \in 1..Len(list[cday]) : list'[cday][i].file = list[cday][i].file
    <2> DEFINE new == [list[cday] EXCEPT ![cpos] =
                         [list[cday][cpos] EXCEPT !.deleted = TRUE]]
    <2>1. list' = [list EXCEPT ![cday] = new]
      BY <1>2, <1>3
    <2>2. new \in Seq(Item) /\ Len(new) = Len(list[cday])
      BY <1>3, <1>4, <1>5
    <2>3. \A i \in 1..Len(list[cday]) : new[i].file = list[cday][i].file
      BY <1>3, <1>4, <1>5
    <2> HIDE DEF new
    <2> QED BY <1>3, <2>1, <2>2, <2>3
  <1>7. DiskType' /\ InTheirDay'
    <2>1. DiskType'
      BY <1>1, <1>2, <1>6 DEF DiskType
    <2>2. InTheirDay'
      BY <1>1, <1>3, <1>6 DEF InTheirDay
    <2> QED BY <2>1, <2>2
  <1>8. SearchType' /\ RestType'
    BY <1>1, <1>2, CleanSteps DEF SearchType, RestType
  <1>9. CleanType' /\ CleanerKnows'
    <2>1. CASE cpos = Len(list[cday])
      <3>1. cpc' = "deldir" /\ cmust' = Entries(cday) /\ cpos' = cpos
        BY <2>1 DEF MarkItem, BeginDelDir
      <3> QED BY <1>1, <1>2, <1>3, <3>1, CleanSteps, EntriesType DEF CleanType, CleanerKnows
    <2>2. CASE cpos # Len(list[cday])
      <3>1. cpos + 1 \in 1..Len(list[cday]) /\ cpos + 2 \in Nat \ {0} /\ cpos + 1 \in Nat \ {0}
        BY <1>3, <1>4, <2>2
      <3>2. /\ UNCHANGED cmust
            /\ \/ /\ list[cday][cpos + 1].file = cfile
                  /\ cpc' = "mark" /\ cpos' = cpos + 1
               \/ cpc' \in {"idle", "scan"} /\ cpos' = cpos + 2
        BY <2>2 DEF MarkItem
      <3>3. CleanType'
        BY <1>1, <1>2, <3>1, <3>2 DEF CleanType
      <3>4. cpc' = "mark" =>
              cpos' \in 1..Len(list'[cday]) /\ list'[cday][cpos'].file = cfile
        BY <1>6, <3>1, <3>2
      <3> QED BY <1>1, <1>2, <1>3, <3>1, <3>2, <3>3, <3>4, CleanSteps DEF CleanerKnows
    <2> QED BY <2>1, <2>2
  <1> QED BY <1>1, <1>2, <1>7, <1>8, <1>9, CleanSteps, TypePartsNext DEF IInv

LEMMA DelEntryKeeps ==
  ASSUME IInv, DelEntry
  PROVE  IInv'
  <1>1. /\ TypeOK /\ RecorderKnows /\ CleanerKnows /\ InTheirDay
        /\ DiskType /\ RecType /\ CleanType /\ SearchType /\ RestType
    BY TypeParts DEF IInv
  <1>2. PICK e \in Entries(cday) :
          /\ cmust' = cmust \ {e}
          /\ files' = files \ {e} /\ m_bNonStop' = m_bNonStop \ {e}
          /\ events' = [f \in Times |-> IF f = e THEN 0 ELSE events[f]]
          /\ IF e = TheList
             THEN /\ lists' = lists \ {cday} /\ list' = [list EXCEPT ![cday] = <<>>]
                  /\ excused' = excused \cup FilesOf(cday)
                  /\ search' = [s \in Sessions |->
                                   [search[s] EXCEPT !.alone = @ /\ search[s].day # cday]]
             ELSE UNCHANGED <<lists, list, excused, search>>
    BY DEF DelEntry
  <1>3. CleanStep("deldir") /\ UNCHANGED <<dirs, cpc, cday, cpos, cfile>>
    BY DEF DelEntry
  <1>4. cday \in Days /\ FilesOf(cday) \subseteq Times
    <2>1. cday \in Days
      BY <1>1, <1>3, CleanSteps DEF CleanerKnows, DiskType
    <2> QED BY <1>1, <2>1, EntriesType
  <1>5. /\ list' \in [Days -> Seq(Item)] /\ lists' \subseteq dirs
        /\ \A d \in Days : \A i \in 1..Len(list'[d]) : DayOf(list'[d][i].file) = d
        /\ search' \in [Sessions -> SearchRec] /\ excused' \subseteq Times
    <2>1. CASE e = TheList
      <3>1. list' = [list EXCEPT ![cday] = <<>>] /\ lists' = lists \ {cday}
            /\ excused' = excused \cup FilesOf(cday)
        BY <1>2, <2>1
      <3>2. /\ list' \in [Days -> Seq(Item)]
            /\ \A d \in Days \ {cday} : list'[d] = list[d]
            /\ list'[cday] = <<>> /\ Len(list'[cday]) = 0
        BY <1>1, <1>4, <3>1 DEF DiskType
      <3>3. \A d \in Days : \A i \in 1..Len(list'[d]) : DayOf(list'[d][i].file) = d
        BY <1>1, <3>2 DEF InTheirDay
      <3>4. search' \in [Sessions -> SearchRec]
        <4>1. \A s \in Sessions :
                [search[s] EXCEPT !.alone = @ /\ search[s].day # cday] \in SearchRec
          <5> TAKE s \in Sessions
          <5>1. search[s] \in SearchRec
            BY <1>1 DEF SearchType
          <5>2. (search[s].alone /\ search[s].day # cday) \in BOOLEAN
            OBVIOUS
          <5>3. \A b \in BOOLEAN : [search[s] EXCEPT !.alone = b] \in SearchRec
            BY <5>1 DEF SearchRec
          <5> QED BY <5>2, <5>3
        <4>2. search' = [s \in Sessions |->
                           [search[s] EXCEPT !.alone = @ /\ search[s].day # cday]]
          BY <1>2, <2>1
        <4> QED BY <4>1, <4>2
      <3> QED BY <1>1, <1>4, <3>1, <3>2, <3>3, <3>4 DEF DiskType, RestType
    <2>2. CASE e # TheList
      <3>1. UNCHANGED <<lists, list, excused, search>>
        BY <1>2, <2>2
      <3> QED BY <1>1, <3>1 DEF DiskType, RestType, SearchType, InTheirDay
    <2> QED BY <2>1, <2>2
  <1>6. events' \in [Times -> 0..MaxEvents]
    <2>1. 0 \in 0..MaxEvents
      BY FilesAssumption
    <2> QED BY <1>1, <1>2, <2>1 DEF DiskType
  <1>7. DiskType'
    BY <1>1, <1>2, <1>3, <1>5, <1>6 DEF DiskType
  <1>8. CleanType' /\ CleanerKnows'
    BY <1>1, <1>2, <1>3, CleanSteps DEF CleanType, CleanerKnows
  <1>9. RestType' /\ SearchType' /\ InTheirDay'
    BY <1>1, <1>3, <1>5, CleanSteps DEF RestType, SearchType, InTheirDay
  <1> QED BY <1>1, <1>3, <1>7, <1>8, <1>9, CleanSteps, TypePartsNext DEF IInv

LEMMA CleanerKeeps ==
  ASSUME IInv, Cleaner
  PROVE  IInv'
  <1>1. /\ TypeOK /\ RecorderKnows /\ CleanerKnows /\ InTheirDay
        /\ DiskType /\ RecType /\ CleanType /\ SearchType /\ RestType
    BY TypeParts DEF IInv
  <1>2. ASSUME DiskType', RecType', CleanType', SearchType', RestType',
               RecorderKnows', CleanerKnows', InTheirDay'
        PROVE  IInv'
    BY <1>2, TypePartsNext DEF IInv
  <1>3. ASSUME NEW d \in Days, DelOldRecord(d) PROVE IInv'
    <2>1. DiskType' /\ InTheirDay' /\ SearchType' /\ RestType'
      BY <1>1, <1>3, CleanSteps
         DEF DelOldRecord, diskVars, DiskType, InTheirDay, SearchType, RestType
    <2>2. CleanType' /\ CleanerKnows'
      BY <1>1, <1>3, CleanSteps DEF DelOldRecord, diskVars, Oldest, CleanType, CleanerKnows
    <2> QED BY <1>1, <1>2, <1>3, <2>1, <2>2, CleanSteps DEF DelOldRecord
  <1>4. CASE SkipItem
    <2>1. DiskType' /\ InTheirDay' /\ SearchType' /\ RestType'
      BY <1>1, <1>4, CleanSteps
         DEF SkipItem, diskVars, DiskType, InTheirDay, SearchType, RestType
    <2>2. CleanType' /\ CleanerKnows'
      BY <1>1, <1>4, CleanSteps DEF SkipItem, diskVars, CleanType, CleanerKnows
    <2> QED BY <1>1, <1>2, <1>4, <2>1, <2>2, CleanSteps DEF SkipItem
  <1>5. CASE DeleteFile
    <2>1. /\ cday \in Days /\ cpos \in 1..Len(list[cday]) /\ Here.file \in Times
          /\ DayOf(Here.file) = cday
      BY <1>5, HereType, CleanSteps, <1>1 DEF DeleteFile
    <2>2. DiskType' /\ InTheirDay' /\ SearchType' /\ RestType'
      BY <1>1, <1>5, CleanSteps DEF DeleteFile, DiskType, InTheirDay, SearchType, RestType
    <2>3. CleanType' /\ CleanerKnows'
      BY <1>1, <1>5, <2>1, CleanSteps DEF DeleteFile, Here, CleanType, CleanerKnows
    <2> QED BY <1>1, <1>2, <1>5, <2>2, <2>3, CleanSteps DEF DeleteFile
  <1>6. ASSUME NEW b \in BOOLEAN, MarkItem(b) PROVE IInv'
    BY <1>6, MarkKeeps
  <1>7. CASE EndOfList
    <2>1. DiskType' /\ InTheirDay' /\ SearchType' /\ RestType'
      BY <1>1, <1>7, CleanSteps
         DEF EndOfList, diskVars, DiskType, InTheirDay, SearchType, RestType
    <2>2. cday \in Days
      BY <1>1, <1>7, CleanSteps DEF EndOfList, CleanerKnows, DiskType
    <2>3. CleanType' /\ CleanerKnows'
      BY <1>1, <1>7, <2>2, CleanSteps, EntriesType
         DEF EndOfList, BeginDelDir, diskVars, CleanType, CleanerKnows
    <2> QED BY <1>1, <1>2, <1>7, <2>1, <2>3, CleanSteps DEF EndOfList
  <1>8. CASE DelEntry
    BY <1>8, DelEntryKeeps
  <1>9. CASE RemoveDir
    <2>1. /\ CleanStep("deldir") /\ cpc' = "idle"
          /\ UNCHANGED <<search, files, m_bNonStop, lists, list, cday, cpos, cfile, cmust, excused>>
      BY <1>9 DEF RemoveDir
    <2>2. events' \in [Times -> 0..MaxEvents]
      <3>1. 0 \in 0..MaxEvents
        BY FilesAssumption
      <3> QED BY <1>1, <1>9, <3>1 DEF RemoveDir, DiskType
    <2>3. /\ dirs' \subseteq dirs /\ lists \subseteq dirs' /\ \A f \in files : DayOf(f) \in dirs'
      <3>1. CASE Entries(cday) = {}
        <4>1. cday \notin lists /\ \A f \in files : DayOf(f) # cday
          BY <3>1 DEF Entries, FilesOf, HasList
        <4> QED BY <1>1, <1>9, <3>1, <4>1 DEF RemoveDir, DiskType
      <3>2. CASE Entries(cday) # {}
        BY <1>1, <1>9, <3>2 DEF RemoveDir, DiskType
      <3> QED BY <3>1, <3>2
    <2>4. DiskType' /\ InTheirDay' /\ SearchType' /\ RestType'
      BY <1>1, <2>1, <2>2, <2>3, CleanSteps DEF DiskType, InTheirDay, SearchType, RestType
    <2>5. CleanType' /\ CleanerKnows'
      BY <1>1, <2>1 DEF CleanType, CleanerKnows
    <2> QED BY <1>1, <1>2, <2>1, <2>4, <2>5, CleanSteps
  <1> QED BY <1>3, <1>4, <1>5, <1>6, <1>7, <1>8, <1>9 DEF Cleaner

-----------------------------------------------------------------------------
(* Searches, and the end and the start of the recorder.                    *)

LEMMA FoundType ==
  ASSUME TypeOK, NEW d \in Days
  PROVE  /\ Len(list[d]) \in Nat /\ Found(d) \subseteq Nat
         /\ \A from \in Nat, max \in Nat : /\ Answer(d, from, max) \subseteq Nat
                                           /\ CursorAfter(d, from, max) \in Nat
  <1>1. list[d] \in Seq(Item) /\ Len(list[d]) \in Nat
    BY DEF TypeOK
  <1>2. Found(d) \subseteq Nat
    BY <1>1 DEF Found
  <1>3. ASSUME NEW from \in Nat, NEW max \in Nat
        PROVE  Answer(d, from, max) \subseteq Nat /\ CursorAfter(d, from, max) \in Nat
    <2>1. Answer(d, from, max) \subseteq Nat
      BY <1>2 DEF Answer
    <2> DEFINE S == {i \in 1..Len(list[d]) : \E j \in Answer(d, from, max) : i <= j}
    <2>2. IsFiniteSet(1..Len(list[d])) /\ S \subseteq 1..Len(list[d])
      BY <1>1, FS_Interval
    <2>3. Cardinality(S) \in Nat
      BY <2>2, FS_Subset, FS_CardinalityType
    <2>4. CursorAfter(d, from, max) \in Nat
      BY <1>1, <2>3 DEF CursorAfter
    <2> QED BY <2>1, <2>4
  <1> QED BY <1>1, <1>2, <1>3

LEMMA DisturbType ==
  ASSUME TypeOK, NEW s \in Sessions
  PROVE  /\ Disturb(s) \in [Sessions -> SearchRec]
         /\ \A r \in SearchRec : [Disturb(s) EXCEPT ![s] = r] \in [Sessions -> SearchRec]
         /\ NoSearch \in SearchRec /\ Disturb(s)[s] = search[s]
  <1>1. \A t \in Sessions : search[t] \in SearchRec
    BY DEF TypeOK, SearchRec
  <1>2. \A r \in SearchRec : [r EXCEPT !.alone = FALSE] \in SearchRec
    BY DEF SearchRec
  <1>3. Disturb(s) \in [Sessions -> SearchRec] /\ Disturb(s)[s] = search[s]
    BY <1>1, <1>2 DEF Disturb
  <1>4. NoSearch \in SearchRec
    BY DEF NoSearch, SearchRec
  <1> QED BY <1>3, <1>4

LEMMA SearchSteps ==
  ASSUME IInv, SearchStep, list' \in [Days -> Seq(Item)], lists' \subseteq dirs,
         \A e \in Days :
           /\ Len(list[e]) <= Len(list'[e])
           /\ \A i \in 1..Len(list[e]) : list'[e][i].file = list[e][i].file,
         \A e \in Days : \A i \in 1..Len(list'[e]) : DayOf(list'[e][i].file) = e,
         SearchType', left' \in [Chances -> Nat]
  PROVE  IInv'
  <1>1. /\ TypeOK /\ RecorderKnows /\ CleanerKnows /\ InTheirDay
        /\ DiskType /\ RecType /\ CleanType /\ SearchType /\ RestType
    BY TypeParts DEF IInv
  <1>2. UNCHANGED <<time, dirs, files, m_bNonStop, events, rpc, recFile, pending, cpc, cday,
                    cpos, cfile, cmust, startDay, excused>>
    BY DEF SearchStep, recVars, cleanVars
  <1>3. DiskType'
    BY <1>1, <1>2 DEF DiskType
  <1>4. RecType' /\ CleanType' /\ RestType' /\ RecorderKnows'
    BY <1>1, <1>2 DEF RecType, CleanType, RestType, RecorderKnows
  <1>5. CleanerKnows'
    <2>1. rpc' \in {"stopped", "recording", "failed"} \/ cpc = "idle"
      BY <1>1, <1>2 DEF CleanerKnows
    <2>2. UNCHANGED <<dirs, cleanVars>> /\ files' \subseteq files
      BY <1>2 DEF cleanVars
    <2> QED BY <1>1, <2>1, <2>2, CleanerStays
  <1>6. InTheirDay'
    BY DEF InTheirDay
  <1> QED BY <1>3, <1>4, <1>5, <1>6, TypePartsNext DEF IInv

LEMMA SameLists ==
  ASSUME IInv, UNCHANGED <<list, lists>>
  PROVE  /\ list' \in [Days -> Seq(Item)] /\ lists' \subseteq dirs
         /\ \A e \in Days :
              /\ Len(list[e]) <= Len(list'[e])
              /\ \A i \in 1..Len(list[e]) : list'[e][i].file = list[e][i].file
         /\ \A e \in Days : \A i \in 1..Len(list'[e]) : DayOf(list'[e][i].file) = e
  <1>1. list \in [Days -> Seq(Item)] /\ lists \subseteq dirs
    BY DEF IInv, TypeOK
  <1>2. \A e \in Days : Len(list[e]) \in Nat
    <2>1. \A e \in Days : list[e] \in Seq(Item)
      BY <1>1
    <2> QED BY <2>1
  <1> QED BY <1>1, <1>2 DEF IInv, InTheirDay

LEMMA SearchKeeps ==
  ASSUME IInv, NEW s \in Sessions,
         SearchOn(s) \/ \E d \in Days : SearchFromStart(s, d) \/ HaveRecordFile(s, d)
  PROVE  IInv'
  <1>1. TypeOK /\ InTheirDay /\ Batch \in Nat /\ MaxEvents \in Nat /\ m_s32IdxOffset \in Nat
        /\ RestType
    BY FilesAssumption, TypeParts DEF IInv, TypeOK
  <1>2. ASSUME NEW d \in Days, SearchFromStart(s, d) PROVE IInv'
    <2>1. /\ list' \in [Days -> Seq(Item)] /\ lists' \subseteq dirs
          /\ \A e \in Days :
               /\ Len(list[e]) <= Len(list'[e])
               /\ \A i \in 1..Len(list[e]) : list'[e][i].file = list[e][i].file
          /\ \A e \in Days : \A i \in 1..Len(list'[e]) : DayOf(list'[e][i].file) = e
      <3>1. CASE BeingRecorded(d) /\ recFile \in files
        <4>1. Enlist(recFile, 1, events[recFile])
          BY <1>2, <3>1 DEF SearchFromStart
        <4>2. events[recFile] \in 0..MaxEvents /\ 1 <= events[recFile] + 1
          BY <1>1, <3>1 DEF TypeOK
        <4>3. recFile \in files /\ 1 \in Nat \ {0} /\ TypeOK /\ InTheirDay
          BY <1>1, <3>1
        <4> QED BY <4>1, <4>2, <4>3, EnlistKeeps
      <3>2. CASE ~(BeingRecorded(d) /\ recFile \in files)
        <4>1. UNCHANGED <<list, lists>>
          BY <1>2, <3>2 DEF SearchFromStart
        <4> QED BY <4>1, SameLists
      <3> QED BY <3>1, <3>2
    <2>2. SearchType'
      <3>1. [NoSearch EXCEPT !.day = d, !.due = Found(d)] \in SearchRec
        BY <1>1, FoundType DEF NoSearch, SearchRec
      <3>2. m_s32IdxOffset' = 1 /\ search' \in [Sessions -> SearchRec]
        BY <1>1, <1>2, <3>1, DisturbType DEF SearchFromStart
      <3> QED BY <3>2 DEF SearchType
    <2>3. SearchStep /\ left' \in [Chances -> Nat]
      BY <1>1, <1>2, SpendType DEF SearchFromStart, Chances
    <2> QED BY <2>1, <2>2, <2>3, SearchSteps
  <1>3. ASSUME NEW d \in Days, HaveRecordFile(s, d) PROVE IInv'
    <2>1. UNCHANGED <<list, lists>> /\ SearchStep /\ left' \in [Chances -> Nat]
      BY <1>1, <1>3, SpendType DEF HaveRecordFile, Chances
    <2>2. SearchType'
      BY <1>1, <1>3, FoundType, DisturbType DEF HaveRecordFile, SearchType
    <2> QED BY <2>1, <2>2, SameLists, SearchSteps
  <1>4. CASE SearchOn(s)
    <2> DEFINE d == search[s].day
               answer == Answer(d, m_s32IdxOffset, Batch)
    <2>1. /\ d # NoDay /\ SearchStep
          /\ m_s32IdxOffset' = CursorAfter(d, m_s32IdxOffset, Batch)
          /\ search' = [Disturb(s) EXCEPT ![s] =
                          IF Cardinality(answer) < Batch THEN NoSearch
                          ELSE [search[s] EXCEPT !.got = @ \cup answer,
                                                !.twice = @ \/ search[s].got \cap answer # {}]]
          /\ UNCHANGED <<lists, list, left>>
      BY <1>4 DEF SearchOn
    <2>2. d \in Days /\ search[s] \in SearchRec
      BY <1>1, <2>1 DEF TypeOK, SearchRec
    <2>3. answer \subseteq Nat /\ m_s32IdxOffset' \in Nat
      BY <1>1, <2>1, <2>2, FoundType
    <2> HIDE DEF answer
    <2>4. [search[s] EXCEPT !.got = @ \cup answer,
                            !.twice = @ \/ search[s].got \cap answer # {}] \in SearchRec
      <3>1. (search[s].twice \/ search[s].got \cap answer # {}) \in BOOLEAN
        OBVIOUS
      <3>2. search[s].got \cup answer \in SUBSET Nat
        BY <2>2, <2>3 DEF SearchRec
      <3>3. \A b \in BOOLEAN, g \in SUBSET Nat :
              [search[s] EXCEPT !.got = g, !.twice = b] \in SearchRec
        BY <2>2 DEF SearchRec
      <3> QED BY <3>1, <3>2, <3>3
    <2>5. search' \in [Sessions -> SearchRec]
      <3> DEFINE more == [search[s] EXCEPT !.got = @ \cup answer,
                                           !.twice = @ \/ search[s].got \cap answer # {}]
                 rec == IF Cardinality(answer) < Batch THEN NoSearch ELSE more
      <3>1. rec \in SearchRec
        <4>1. NoSearch \in SearchRec
          BY <1>1, DisturbType
        <4> QED BY <2>4, <4>1
      <3>2. Disturb(s)[s] = search[s] /\ s \in DOMAIN Disturb(s)
        BY <1>1, DisturbType
      <3>3. search' = [Disturb(s) EXCEPT ![s] = rec]
        BY <2>1, <3>2
      <3> HIDE DEF rec
      <3> QED BY <1>1, <3>1, <3>3, DisturbType
    <2>6. SearchType'
      BY <2>3, <2>5 DEF SearchType
    <2>7. left' \in [Chances -> Nat]
      BY <1>1, <2>1 DEF RestType
    <2> QED BY <2>1, <2>6, <2>7, SameLists, SearchSteps
  <1> QED BY <1>2, <1>3, <1>4

LEMMA SystemKeeps ==
  ASSUME IInv,
         \/ Tick \/ StopRecordSystem \/ Crash \/ StartRecordSystem \/ RepairDone
         \/ \E f \in m_bNonStop : RepairFile(f)
         \/ UNCHANGED vars
  PROVE  IInv'
  <1>1. /\ TypeOK /\ RecorderKnows /\ CleanerKnows /\ InTheirDay
        /\ DiskType /\ RecType /\ CleanType /\ SearchType /\ RestType
    BY TypeParts DEF IInv
  <1>2. ASSUME DiskType', RecType', CleanType', SearchType', RestType',
               RecorderKnows', CleanerKnows', InTheirDay'
        PROVE  IInv'
    BY <1>2, TypePartsNext DEF IInv
  <1>3. ASSUME UNCHANGED diskVars PROVE DiskType' /\ InTheirDay'
    BY <1>1, <1>3 DEF diskVars, DiskType, InTheirDay
  <1>4. ASSUME UNCHANGED searchVars PROVE SearchType'
    BY <1>1, <1>4 DEF searchVars, SearchType
  <1>5. ASSUME UNCHANGED <<diskVars, cleanVars>>,
               cpc = "idle" \/ rpc' \in {"stopped", "recording", "failed"}
        PROVE  CleanType' /\ CleanerKnows'
    BY <1>1, <1>5 DEF diskVars, cleanVars, CleanType, CleanerKnows
  <1>6. ASSUME UNCHANGED <<diskVars, recVars>> PROVE RecType' /\ RecorderKnows'
    BY <1>1, <1>6 DEF diskVars, recVars, RecType, RecorderKnows
  <1>7. 0 \in 0..MaxEvents /\ Days \subseteq Int
    BY FilesAssumption, DayType
  <1>8. cpc # "idle" => rpc \in {"stopped", "recording", "failed"}
    BY <1>1 DEF CleanerKnows
  <1>9. CASE Tick
    <2>1. UNCHANGED <<diskVars, recVars, cleanVars, searchVars>>
      BY <1>9 DEF Tick
    <2>2. UNCHANGED rpc
      BY <2>1 DEF recVars
    <2>3. RestType'
      BY <1>1, <1>9 DEF Tick, RestType
    <2>4. DiskType' /\ InTheirDay' /\ RecType' /\ RecorderKnows' /\ SearchType'
      BY <1>3, <1>4, <1>6, <2>1
    <2>5. CleanType' /\ CleanerKnows'
      BY <1>5, <1>8, <2>1, <2>2
    <2> QED BY <1>2, <2>3, <2>4, <2>5
  <1>10. CASE StopRecordSystem
    <2>1. UNCHANGED <<diskVars, cleanVars, searchVars>> /\ cpc = "idle"
      BY <1>10 DEF StopRecordSystem
    <2>2. RestType'
      BY <1>1, <1>10, SpendType DEF StopRecordSystem, RestType, Chances
    <2>3. RecType' /\ RecorderKnows'
      BY <1>7, <1>10 DEF StopRecordSystem, RecType, RecorderKnows
    <2>4. DiskType' /\ InTheirDay' /\ SearchType'
      BY <1>3, <1>4, <2>1
    <2>5. CleanType' /\ CleanerKnows'
      BY <1>5, <2>1
    <2> QED BY <1>2, <2>2, <2>3, <2>4, <2>5
  <1>11. CASE Crash
    <2>1. UNCHANGED diskVars
      BY <1>11 DEF Crash
    <2>2. RestType'
      <3>1. left' \in [Chances -> Nat] /\ UNCHANGED <<time, startDay>>
        BY <1>1, <1>11, SpendType DEF Crash, Chances
      <3>2. excused' \subseteq Times
        <4>1. rpc = "listing" => recFile \in Times
          BY <1>1 DEF RecorderKnows, DiskType
        <4> QED BY <1>1, <1>11, <4>1 DEF Crash, RestType
      <3> QED BY <1>1, <3>1, <3>2 DEF RestType
    <2>3. RecType' /\ RecorderKnows'
      BY <1>7, <1>11 DEF Crash, RecType, RecorderKnows
    <2>4. CleanType' /\ CleanerKnows'
      BY <1>11 DEF Crash, CleanType, CleanerKnows
    <2>5. SearchType'
      <3>1. \A s \in Sessions : NoSearch \in SearchRec
        BY <1>1, DisturbType
      <3> QED BY <1>11, <3>1 DEF Crash, SearchType
    <2> QED BY <1>2, <1>3, <2>1, <2>2, <2>3, <2>4, <2>5
  <1>12. CASE StartRecordSystem
    <2>1. UNCHANGED <<diskVars, cleanVars, searchVars>> /\ cpc = "idle"
      BY <1>8, <1>12 DEF StartRecordSystem
    <2>2. RestType'
      BY <1>1, <1>12, DayType DEF StartRecordSystem, RestType, Today
    <2>3. RecType' /\ RecorderKnows'
      BY <1>1, <1>12 DEF StartRecordSystem, RecType, RecorderKnows
    <2>4. DiskType' /\ InTheirDay' /\ SearchType'
      BY <1>3, <1>4, <2>1
    <2>5. CleanType' /\ CleanerKnows'
      BY <1>5, <2>1
    <2> QED BY <1>2, <2>2, <2>3, <2>4, <2>5
  <1>13. CASE RepairDone
    <2>1. UNCHANGED <<diskVars, cleanVars, searchVars>> /\ rpc' = "stopped"
      BY <1>13 DEF RepairDone
    <2>2. RestType'
      BY <1>1, <1>13 DEF RepairDone, RestType
    <2>3. RecType' /\ RecorderKnows'
      BY <1>1, <1>13 DEF RepairDone, RecType, RecorderKnows
    <2>4. DiskType' /\ InTheirDay' /\ SearchType'
      BY <1>3, <1>4, <2>1
    <2>5. CleanType' /\ CleanerKnows'
      BY <1>5, <2>1
    <2> QED BY <1>2, <2>2, <2>3, <2>4, <2>5
  <1>14. ASSUME NEW f \in m_bNonStop, RepairFile(f) PROVE IInv'
    <2>1. /\ f \in files /\ f \in Times /\ events[f] \in 0..MaxEvents
          /\ 1 <= events[f] + 1 /\ Enlist(f, 1, events[f])
      <3>1. f \in files /\ f \in Times /\ events[f] \in 0..MaxEvents
        BY <1>1 DEF DiskType
      <3>2. 1 <= events[f] + 1
        BY <3>1, FilesAssumption
      <3> QED BY <1>14, <3>1, <3>2 DEF RepairFile
    <2>2. /\ list' \in [Days -> Seq(Item)] /\ lists' \subseteq dirs
          /\ \A e \in Days :
               /\ Len(list[e]) <= Len(list'[e])
               /\ \A i \in 1..Len(list[e]) : list'[e][i].file = list[e][i].file
          /\ \A e \in Days : \A i \in 1..Len(list'[e]) : DayOf(list'[e][i].file) = e
      BY <1>1, <2>1, EnlistKeeps
    <2>3. /\ cpc = "idle" /\ rpc = "repair" /\ m_bNonStop' = m_bNonStop \ {f}
          /\ UNCHANGED <<time, dirs, files, events, recVars, cleanVars, searchVars, left,
                         startDay>>
      BY <1>8, <1>14 DEF RepairFile
    <2>4. DiskType' /\ InTheirDay'
      BY <1>1, <2>2, <2>3 DEF DiskType, InTheirDay
    <2>5. RecType' /\ RecorderKnows'
      BY <1>1, <2>3 DEF recVars, RecType, RecorderKnows
    <2>6. CleanType' /\ CleanerKnows'
      BY <1>1, <2>3 DEF cleanVars, CleanType, CleanerKnows
    <2>7. RestType'
      BY <1>1, <1>14, <2>1, <2>3 DEF RepairFile, RestType
    <2> QED BY <1>2, <1>4, <2>3, <2>4, <2>5, <2>6, <2>7
  <1>15. CASE UNCHANGED vars
    <2>1. UNCHANGED <<diskVars, recVars, cleanVars, searchVars, time, left, startDay, excused>>
      BY <1>15 DEF vars
    <2>2. RestType' /\ UNCHANGED rpc
      BY <1>1, <2>1 DEF RestType, recVars
    <2>4. DiskType' /\ InTheirDay' /\ RecType' /\ RecorderKnows' /\ SearchType'
      BY <1>3, <1>4, <1>6, <2>1
    <2>5. CleanType' /\ CleanerKnows'
      BY <1>5, <1>8, <2>1, <2>2
    <2> QED BY <1>2, <2>2, <2>4, <2>5
  <1> QED BY <1>9, <1>10, <1>11, <1>12, <1>13, <1>14, <1>15

-----------------------------------------------------------------------------
LEMMA InitIInv == Init => IInv
  <1> SUFFICES ASSUME Init PROVE IInv
    OBVIOUS
  <1>1. /\ 0 \in Times /\ 1 \in Days /\ 0 \in 0..MaxEvents /\ <<>> \in Seq(Item)
        /\ left \in [Chances -> Nat]
    BY DayType, FilesAssumption DEF Init
  <1>2. list \in [Days -> Seq(Item)] /\ events \in [Times -> 0..MaxEvents]
    BY <1>1 DEF Init
  <1>3. search \in [Sessions -> SearchRec]
    BY DEF Init, NoSearch, SearchRec
  <1>4. TypeOK
    <2>1. DiskType
      BY <1>2 DEF Init, DiskType
    <2>2. RecType /\ CleanType /\ SearchType /\ RestType
      BY <1>1, <1>3 DEF Init, RecType, CleanType, SearchType, RestType
    <2> QED BY <2>1, <2>2, TypeParts
  <1>5. InTheirDay
    <2>1. \A d \in Days : Len(list[d]) = 0
      BY DEF Init
    <2> QED BY <2>1 DEF InTheirDay
  <1> QED BY <1>4, <1>5 DEF Init, IInv, RecorderKnows, CleanerKnows

LEMMA NextIInv == IInv /\ [Next]_vars => IInv'
  BY Recorder, CleanerKeeps, SearchKeeps, SystemKeeps DEF Next

LEMMA Invariant == Spec => []IInv
  BY InitIInv, NextIInv, PTL DEF Spec

\* Directories, files, headers and lists fit together, whatever the recorder,
\* the cleaner, the searches and a crash do: every file has its directory, every
\* open one is there, every list is in a directory.
THEOREM TypeCorrect == Spec => []TypeOK
  <1>1. IInv => TypeOK
    BY DEF IInv
  <1> QED BY <1>1, Invariant, PTL

-----------------------------------------------------------------------------
(* Which file goes.                                                        *)

LEMMA OnlyTheCleanerDeletes ==
  ASSUME IInv, [Next]_vars, NEW f \in files \ files'
  PROVE  /\ cpc \in {"scan", "deldir"} /\ DayOf(f) = cday /\ Oldest(cday)
         /\ cpc = "scan" => f # recFile
  <1>1. cpc # "idle" => Oldest(cday)
    BY DEF IInv, CleanerKnows, Oldest
  <1>2. CASE \/ OpenRecordFile \/ OpenFails \/ WriteRecordFile \/ CloseRecordFile
             \/ AddOneEven2List \/ ClearRecordInfor
    <2>1. files \subseteq files'
      BY <1>2 DEF OpenRecordFile, OpenFails, NoDirectory, NoRecordFile, NoIndex, NoList,
                  WriteRecordFile, CloseRecordFile,
                  AddOneEven2List, ClearRecordInfor, diskVars
    <2> QED BY <2>1
  <1>3. CASE Cleaner
    <2>1. CASE DeleteFile
      <3>1. cpc = "scan" /\ ~AtEnd /\ ~Skipped /\ f = Here.file
        BY <2>1 DEF DeleteFile, CleanStep
      <3> QED BY <1>1, <3>1, HereType DEF Skipped
    <2>2. CASE DelEntry
      <3>1. PICK e \in Entries(cday) : files' = files \ {e}
        BY <2>2 DEF DelEntry
      <3>2. f = e /\ f # TheList /\ cpc = "deldir"
        BY <2>2, <3>1, DayType DEF DelEntry, CleanStep, IInv, TypeOK
      <3>3. DayOf(f) = cday
        BY <3>1, <3>2 DEF Entries, FilesOf
      <3> QED BY <1>1, <3>2, <3>3
    <2>3. CASE ~DeleteFile /\ ~DelEntry
      <3>1. files' = files
        BY <1>3, <2>3 DEF Cleaner, DelOldRecord, SkipItem, MarkItem, EndOfList, RemoveDir,
                          diskVars
      <3> QED BY <3>1
    <2> QED BY <2>1, <2>2, <2>3
  <1>4. CASE \/ \E s \in Sessions, d \in Days : SearchFromStart(s, d) \/ HaveRecordFile(s, d)
             \/ \E s \in Sessions : SearchOn(s)
    <2>1. SearchStep
      BY <1>4 DEF SearchFromStart, HaveRecordFile, SearchOn
    <2> QED BY <2>1 DEF SearchStep
  <1>5. CASE \/ Tick \/ StopRecordSystem \/ Crash \/ StartRecordSystem \/ RepairDone
             \/ \E g \in m_bNonStop : RepairFile(g)
             \/ UNCHANGED vars
    <2>1. files' = files
      BY <1>5 DEF Tick, StopRecordSystem, Crash, StartRecordSystem, RepairDone, RepairFile,
                  vars, diskVars
    <2> QED BY <2>1
  <1> QED BY <1>2, <1>3, <1>4, <1>5 DEF Next

\* What goes is of the oldest day there is; only at the end of a month may the
\* day before still be there.
THEOREM DeletesOldestDayFirst == Spec => OldestDayFirst
  <1>1. ASSUME IInv, [Next]_vars
        PROVE  \A f \in files \ files' : \A e \in dirs :
                 e < DayOf(f) => Order[e] = Order[DayOf(f)]
    <2> SUFFICES ASSUME NEW f \in files \ files', NEW e \in dirs, e < DayOf(f)
                 PROVE  Order[e] = Order[DayOf(f)]
      OBVIOUS
    <2>1. DayOf(f) \in dirs /\ Order[DayOf(f)] <= Order[e]
      BY <1>1, OnlyTheCleanerDeletes DEF Oldest
    <2>2. e \in Days /\ DayOf(f) \in Days
      BY <1>1, <2>1 DEF IInv, TypeOK
    <2>3. Order[e] <= Order[DayOf(f)] /\ Order[e] \in Nat /\ Order[DayOf(f)] \in Nat
      BY <2>2, FilesAssumption DEF Days
    <2> QED BY <2>1, <2>3
  <1> QED BY <1>1, Invariant, PTL DEF Spec, OldestDayFirst

\* The file that is being recorded goes only with its whole directory (DelDir),
\* and while that is the oldest, whatever the cleaner has freed.
THEOREM DeletesRecordedFileLast == Spec => RecordedFileLast
  <1>1. ASSUME IInv, [Next]_vars
        PROVE  (recFile \in files \ files')
                 => cpc = "deldir" /\ cday = DayOf(recFile) /\ Oldest(cday)
    BY <1>1, OnlyTheCleanerDeletes
  <1> QED BY <1>1, Invariant, PTL DEF Spec, RecordedFileLast

-----------------------------------------------------------------------------
(* Which files stay open.                                                  *)

\* No file is of a later hour than the clock shows, so what was open when a
\* start began to repair is of its day or of one before.
OpenKnown ==
  /\ \A f \in files : f <= time
  /\ rpc = "repair" => \A f \in m_bNonStop : DayOf(f) <= startDay
  /\ OpenFilesAreOld

LEMMA NextOpenKnown ==
  ASSUME IInv, IInv', OpenKnown, [Next]_vars
  PROVE  OpenKnown'
  <1>1. /\ time \in Times /\ files \subseteq Times /\ m_bNonStop \subseteq files
        /\ Times \subseteq Int /\ time' \in Times
        /\ \A f \in Times : DayOf(f) \in Int
    <2>1. /\ time \in Times /\ files \subseteq Times /\ m_bNonStop \subseteq files
          /\ time' \in Times
      BY DEF IInv, TypeOK
    <2>2. \A f \in Times : f \in Nat /\ DayOf(f) \in Days
      BY DayType
    <2>3. Days \subseteq Nat
      BY DayType
    <2>4. \A f \in Times : f \in Int /\ DayOf(f) \in Int
      <3> SUFFICES ASSUME NEW f \in Times PROVE f \in Int /\ DayOf(f) \in Int
        OBVIOUS
      <3>1. f \in Nat /\ DayOf(f) \in Nat
        BY <2>2, <2>3
      <3> QED BY <3>1
    <2>5. Times \subseteq Int
      BY DEF Times
    <2> QED BY <2>1, <2>4, <2>5
  <1>2. CASE OpenRecordFile \/ OpenFails
    <2>1. /\ rpc = "stopped" /\ rpc' \in {"recording", "failed"}
          /\ recFile' = time \/ m_bNonStop' = m_bNonStop
          /\ UNCHANGED <<time, startDay>>
          /\ files' \subseteq files \cup {time} /\ m_bNonStop' \subseteq m_bNonStop \cup {time}
      BY <1>2 DEF OpenRecordFile, OpenFails, NoDirectory, NoRecordFile, NoIndex, NoList,
                  RecStep, diskVars
    <2>2. recFile = NoFile
      BY <2>1 DEF IInv, RecorderKnows
    <2>3. \A f \in m_bNonStop : DayOf(f) < startDay
      BY <1>1, <2>1, <2>2, DayType DEF OpenKnown, OpenFilesAreOld
    <2>4. \A f \in files' : f <= time'
      BY <1>1, <2>1 DEF OpenKnown
    <2>5. OpenFilesAreOld'
      BY <2>1, <2>3 DEF OpenFilesAreOld
    <2> QED BY <2>1, <2>4, <2>5 DEF OpenKnown
  <1>3. CASE WriteRecordFile \/ AddOneEven2List
    <2>1. rpc' = rpc /\ UNCHANGED <<files, m_bNonStop, recFile, time, startDay>>
      BY <1>3 DEF WriteRecordFile, AddOneEven2List, RecStep
    <2> QED BY <2>1 DEF OpenKnown, OpenFilesAreOld
  <1>4. CASE CloseRecordFile
    <2>1. /\ rpc = "recording" /\ rpc' \in {"listing", "stopped"}
          /\ UNCHANGED <<files, time, startDay>>
          /\ m_bNonStop' \subseteq m_bNonStop /\ recFile \notin m_bNonStop'
      BY <1>1, <1>4 DEF CloseRecordFile, RecStep
    <2> QED BY <2>1 DEF OpenKnown, OpenFilesAreOld
  <1>5. CASE ClearRecordInfor
    <2>1. /\ rpc = "listing" /\ rpc' = "stopped"
          /\ UNCHANGED <<files, m_bNonStop, time, startDay>>
      BY <1>5 DEF ClearRecordInfor, RecStep, diskVars
    <2>2. recFile \notin m_bNonStop
      BY <2>1 DEF IInv, RecorderKnows
    <2> QED BY <2>1, <2>2 DEF OpenKnown, OpenFilesAreOld
  <1>6. CASE Cleaner
    <2>1. CleanStep(cpc)
      BY <1>6 DEF Cleaner, DelOldRecord, SkipItem, DeleteFile, MarkItem, EndOfList, DelEntry,
                  RemoveDir, CleanStep
    <2>2. rpc' = rpc /\ UNCHANGED <<recFile, time, startDay>>
      BY <2>1 DEF CleanStep, recVars
    <2>3. files' \subseteq files /\ m_bNonStop' \subseteq m_bNonStop
      BY <1>6 DEF Cleaner, DelOldRecord, SkipItem, DeleteFile, MarkItem, EndOfList, DelEntry,
                  RemoveDir, diskVars
    <2> QED BY <2>2, <2>3 DEF OpenKnown, OpenFilesAreOld
  <1>7. CASE \/ \E s \in Sessions, d \in Days : SearchFromStart(s, d) \/ HaveRecordFile(s, d)
             \/ \E s \in Sessions : SearchOn(s)
    <2>1. SearchStep
      BY <1>7 DEF SearchFromStart, HaveRecordFile, SearchOn
    <2> QED BY <2>1 DEF SearchStep, recVars, OpenKnown, OpenFilesAreOld
  <1>8. CASE Tick
    <2>1. time' = time + 1 /\ UNCHANGED <<files, m_bNonStop, rpc, recFile, startDay>>
      BY <1>8 DEF Tick, diskVars, recVars
    <2> QED BY <1>1, <2>1 DEF OpenKnown, OpenFilesAreOld
  <1>9. CASE StopRecordSystem \/ Crash
    BY <1>9 DEF StopRecordSystem, Crash, diskVars, OpenKnown, OpenFilesAreOld
  <1>10. CASE StartRecordSystem
    <2>1. rpc' = "repair" /\ startDay' = DayOf(time) /\ UNCHANGED <<files, m_bNonStop, time>>
      BY <1>10 DEF StartRecordSystem, diskVars, Today
    <2>2. \A f \in m_bNonStop : DayOf(f) <= DayOf(time)
      BY <1>1, DayType DEF OpenKnown
    <2> QED BY <2>1, <2>2 DEF OpenKnown, OpenFilesAreOld
  <1>11. CASE RepairDone
    <2>1. /\ rpc = "repair" /\ rpc' = "stopped" /\ \A f \in m_bNonStop : DayOf(f) # startDay
          /\ UNCHANGED <<files, m_bNonStop, time, startDay>>
      BY <1>11 DEF RepairDone, diskVars
    <2>2. startDay \in Int
      BY DayType DEF IInv, TypeOK
    <2>3. \A f \in m_bNonStop : DayOf(f) < startDay
      BY <1>1, <2>1, <2>2 DEF OpenKnown
    <2> QED BY <2>1, <2>3 DEF OpenKnown, OpenFilesAreOld
  <1>12. CASE \E f \in m_bNonStop : RepairFile(f)
    BY <1>12 DEF RepairFile, recVars, OpenKnown, OpenFilesAreOld
  <1>13. CASE UNCHANGED vars
    BY <1>13 DEF vars, diskVars, recVars, OpenKnown, OpenFilesAreOld
  <1> QED BY <1>2, <1>3, <1>4, <1>5, <1>6, <1>7, <1>8, <1>9, <1>10, <1>11, <1>12, <1>13 DEF Next

\* After a start no file of its day is open but the one that is recorded.
THEOREM StartRepairs == Spec => []OpenFilesAreOld
  <1>1. Init => OpenKnown
    BY DEF Init, OpenKnown, OpenFilesAreOld
  <1>2. OpenKnown => OpenFilesAreOld
    BY DEF OpenKnown
  <1>3. Spec => [](IInv /\ OpenKnown)
    BY <1>1, InitIInv, NextIInv, NextOpenKnown, PTL DEF Spec
  <1> QED BY <1>2, <1>3, PTL

-----------------------------------------------------------------------------
(* What is in the lists.                                                   *)

HasItem(f) ==
  /\ HasList(DayOf(f))
  /\ \E i \in 1..Len(list[DayOf(f)]) :
       list[DayOf(f)][i].file = f /\ ~list[DayOf(f)][i].deleted

\* From the first event that is put in, the file that is being closed has its
\* item; before that there is one to come.
ClosingIsListed ==
  rpc = "listing" /\ recFile \notin excused
    => (pending = events[recFile] /\ events[recFile] > 0) \/ HasItem(recFile)

ListsKnown == ClosingIsListed /\ ClosedIsListed

LEMMA GrownLists ==
  ASSUME TypeOK, NEW f \in Times, NEW from \in Nat, NEW to \in Nat, Grown(f, from, to)
  PROVE  /\ \A g \in Times : HasItem(g) => HasItem(g)'
         /\ from <= to => HasItem(f)'
  <1> DEFINE d == DayOf(f)
  <1>1. d \in Days /\ list[d] \in Seq(Item) /\ Len(list[d]) \in Nat
    BY DayType DEF TypeOK
  <1>2. /\ \A e \in Days \ {d} : list'[e] = list[e]
        /\ Len(list'[d]) = Len(list[d]) + (to - from + 1)
        /\ \A i \in 1..Len(list[d]) :
             list[d][i].file # f => list'[d][i] = list[d][i]
        /\ \A i \in (Len(list[d]) + 1)..Len(list'[d]) :
             list'[d][i].file = f /\ ~list'[d][i].deleted
        /\ from > to => list'[d] = list[d]
        /\ lists \subseteq lists'
        /\ from <= to => d \in lists'
    BY DEF Grown
  <1>3. ASSUME from <= to PROVE HasItem(f)'
    <2>1. Len(list[d]) + 1 \in (Len(list[d]) + 1)..Len(list'[d])
          /\ Len(list[d]) + 1 \in 1..Len(list'[d])
      <3>1. /\ Len(list'[d]) = Len(list[d]) + (to - from + 1)
            /\ Len(list[d]) \in Nat /\ to - from + 1 \in Nat \ {0}
        BY <1>1, <1>2, <1>3
      <3>2. \A n \in Nat, k \in Nat \ {0} : n + 1 \in (n + 1)..(n + k) /\ n + 1 \in 1..(n + k)
        OBVIOUS
      <3> QED BY <3>1, <3>2
    <2>2. list'[d][Len(list[d]) + 1].file = f /\ ~list'[d][Len(list[d]) + 1].deleted
      BY <1>2, <2>1
    <2> QED BY <1>2, <1>3, <2>1, <2>2 DEF HasItem, HasList
  <1>4. ASSUME NEW g \in Times, HasItem(g) PROVE HasItem(g)'
    <2>1. CASE DayOf(g) # d
      <3>1. list'[DayOf(g)] = list[DayOf(g)] /\ DayOf(g) \in lists'
        BY <1>2, <1>4, <2>1, DayType DEF HasItem, HasList
      <3> QED BY <1>4, <3>1 DEF HasItem, HasList
    <2>2. CASE DayOf(g) = d /\ g # f
      <3>1. PICK i \in 1..Len(list[d]) : list[d][i].file = g /\ ~list[d][i].deleted
        BY <1>4, <2>2 DEF HasItem
      <3>2. list'[d][i] = list[d][i] /\ d \in lists'
        BY <1>2, <1>4, <2>2, <3>1 DEF HasItem, HasList
      <3>3. i \in 1..Len(list'[d])
        <4>1. CASE from <= to
          BY <1>1, <1>2, <4>1
        <4>2. CASE from > to
          BY <1>2, <4>2
        <4> QED BY <4>1, <4>2
      <3> QED BY <2>2, <3>1, <3>2, <3>3 DEF HasItem, HasList
    <2>3. CASE g = f
      <3>1. CASE from <= to
        BY <1>3, <2>3, <3>1
      <3>2. CASE from > to
        <4>1. list'[d] = list[d] /\ d \in lists'
          BY <1>2, <1>4, <2>3, <3>2 DEF HasItem, HasList
        <4> QED BY <1>4, <2>3, <4>1 DEF HasItem, HasList
      <3> QED BY <3>1, <3>2
    <2> QED BY <2>1, <2>2, <2>3
  <1> QED BY <1>3, <1>4

\* A step after which nothing closed is new, and every item still there.
LEMMA ListsStay ==
  ASSUME ListsKnown, IInv,
         \A f \in Times : HasItem(f) => HasItem(f)',
         files' \ (m_bNonStop' \cup excused') \subseteq files \ (m_bNonStop \cup excused),
         UNCHANGED <<rpc, recFile, pending>> \/ (rpc # "listing" /\ rpc' # "listing"),
         rpc = "listing" => UNCHANGED events,
         excused \subseteq excused' \/ rpc' # "listing"
  PROVE  ListsKnown'
  <1>1. ClosedIsListed'
    <2> SUFFICES ASSUME NEW f \in files' \ (m_bNonStop' \cup excused'),
                        ~(rpc' = "listing" /\ f = recFile')
                 PROVE  HasItem(f)'
      BY DEF ClosedIsListed, HasItem
    <2>1. f \in files \ (m_bNonStop \cup excused) /\ f \in Times
      BY DEF IInv, TypeOK
    <2>2. ~(rpc = "listing" /\ f = recFile)
      OBVIOUS
    <2> QED BY <2>1, <2>2 DEF ListsKnown, ClosedIsListed, HasItem
  <1>2. ClosingIsListed'
    <2> SUFFICES ASSUME rpc' = "listing", recFile' \notin excused'
                 PROVE  (pending' = events'[recFile'] /\ events'[recFile'] > 0)
                          \/ HasItem(recFile)'
      BY DEF ClosingIsListed
    <2>1. /\ UNCHANGED <<rpc, recFile, pending, events>> /\ rpc = "listing"
          /\ recFile \notin excused
      OBVIOUS
    <2>2. PICK g \in Times : g = recFile
      BY <2>1 DEF IInv, RecorderKnows, TypeOK
    <2>3. (pending = events[g] /\ events[g] > 0) \/ HasItem(g)
      BY <2>1, <2>2 DEF ListsKnown, ClosingIsListed, HasItem
    <2>4. (pending' = events'[g] /\ events'[g] > 0) \/ HasItem(g)'
      BY <2>1, <2>3
    <2> QED BY <2>1, <2>2, <2>4 DEF HasItem
  <1> QED BY <1>1, <1>2 DEF ListsKnown

LEMMA SameItems ==
  ASSUME UNCHANGED list, lists \subseteq lists'
  PROVE  \A f \in Times : HasItem(f) => HasItem(f)'
  BY DEF HasItem, HasList

LEMMA RecorderLists ==
  ASSUME IInv, ListsKnown,
         \/ OpenRecordFile \/ OpenFails \/ WriteRecordFile \/ CloseRecordFile
         \/ AddOneEven2List \/ ClearRecordInfor
  PROVE  ListsKnown'
  <1>0. /\ TypeOK /\ RecorderKnows /\ files \subseteq Times /\ m_bNonStop \subseteq files
        /\ events \in [Times -> 0..MaxEvents] /\ MaxEvents \in Nat
        /\ \A f \in files \ (m_bNonStop \cup excused) :
             (rpc = "listing" /\ f = recFile) \/ HasItem(f)
    BY FilesAssumption DEF IInv, TypeOK, ListsKnown, ClosedIsListed, HasItem
  <1>1. CASE OpenRecordFile \/ OpenFails
    <2>1. /\ rpc # "listing" /\ rpc' # "listing" /\ UNCHANGED list /\ lists \subseteq lists'
          /\ files' \ (m_bNonStop' \cup excused') \subseteq files \ (m_bNonStop \cup excused)
      BY <1>1 DEF OpenRecordFile, OpenFails, NoDirectory, NoRecordFile, NoIndex, NoList,
                  RecStep, diskVars
    <2> QED BY <1>0, <2>1, SameItems, ListsStay
  <1>2. CASE WriteRecordFile
    <2>1. /\ rpc # "listing" /\ rpc' # "listing" /\ UNCHANGED <<list, lists>>
          /\ files' \ (m_bNonStop' \cup excused') \subseteq files \ (m_bNonStop \cup excused)
      BY <1>2 DEF WriteRecordFile, RecStep
    <2> QED BY <1>0, <2>1, SameItems, ListsStay
  <1>3. CASE CloseRecordFile
    <2>1. rpc = "recording" /\ UNCHANGED <<files, list, lists, events>>
      BY <1>3 DEF CloseRecordFile, RecStep
    <2>2. \A f \in Times : HasItem(f) => HasItem(f)'
      BY <2>1, SameItems
    <2>3. CASE recFile \in files
      <3>1. /\ rpc' = "listing" /\ recFile' = recFile /\ pending' = events[recFile]
            /\ m_bNonStop' = m_bNonStop \ {recFile}
            /\ excused' = IF events[recFile] = 0 THEN excused \cup {recFile} ELSE excused
        BY <1>3, <2>3 DEF CloseRecordFile, RecStep
      <3>2. ClosingIsListed'
        <4>1. events[recFile] \in 0..MaxEvents
          BY <1>0, <2>3
        <4>2. recFile' \notin excused' => events[recFile] > 0
          BY <1>0, <3>1, <4>1
        <4> QED BY <2>1, <3>1, <4>2 DEF ClosingIsListed
      <3>3. ASSUME NEW f \in files' \ (m_bNonStop' \cup excused'), f # recFile
            PROVE  HasItem(f)'
        <4>1. f \in files \ (m_bNonStop \cup excused) /\ f \in Times
          BY <1>0, <2>1, <3>1, <3>3
        <4> QED BY <1>0, <2>1, <2>2, <4>1
      <3>4. ClosedIsListed'
        BY <3>1, <3>3 DEF ClosedIsListed, HasItem
      <3> QED BY <3>2, <3>4 DEF ListsKnown
    <2>4. CASE recFile \notin files
      <3>1. rpc' = "stopped" /\ UNCHANGED <<m_bNonStop, excused>>
        BY <1>3, <2>4 DEF CloseRecordFile, RecStep
      <3>2. files' \ (m_bNonStop' \cup excused') \subseteq files \ (m_bNonStop \cup excused)
        BY <2>1, <3>1
      <3> QED BY <1>0, <2>1, <2>2, <3>1, <3>2, ListsStay
    <2> QED BY <2>3, <2>4
  <1>4. CASE AddOneEven2List
    <2> DEFINE e == events[recFile] - pending + 1
    <2>1. /\ rpc = "listing" /\ rpc' = "listing" /\ pending > 0 /\ Enlist(recFile, e, e)
          /\ pending' = pending - 1
          /\ UNCHANGED <<files, m_bNonStop, events, recFile, excused>>
      BY <1>4 DEF AddOneEven2List, RecStep
    <2>2. /\ recFile \in files /\ recFile \in Times
          /\ pending <= events[recFile] /\ pending \in 0..MaxEvents
          /\ events[recFile] \in 0..MaxEvents
      BY <1>0, <2>1 DEF RecorderKnows, TypeOK
    <2>3. e \in Nat \ {0} /\ e \in 0..MaxEvents /\ e <= e + 1
      BY <1>0, <2>1, <2>2
    <2> HIDE DEF e
    <2>4. PICK g \in Times : g = recFile
      BY <2>2
    <2>5. Grown(g, e, e)
      BY <1>0, <2>1, <2>2, <2>3, <2>4, Enlisted
    <2>6. HasItem(g)' /\ \A f \in Times : HasItem(f) => HasItem(f)'
      BY <1>0, <2>3, <2>5, GrownLists
    <2>7. ClosingIsListed'
      BY <2>1, <2>4, <2>6 DEF ClosingIsListed, HasItem
    <2>8. ASSUME NEW f \in files' \ (m_bNonStop' \cup excused'), f # recFile
          PROVE  HasItem(f)'
      <3>1. f \in files \ (m_bNonStop \cup excused) /\ f \in Times
        BY <1>0, <2>1, <2>8
      <3> QED BY <1>0, <2>6, <2>8, <3>1
    <2>9. ClosedIsListed'
      BY <2>1, <2>8 DEF ClosedIsListed, HasItem
    <2> QED BY <2>7, <2>9 DEF ListsKnown
  <1>5. CASE ClearRecordInfor
    <2>1. /\ rpc = "listing" /\ rpc' = "stopped" /\ pending = 0
          /\ UNCHANGED <<files, m_bNonStop, lists, list, events, excused>>
      BY <1>5 DEF ClearRecordInfor, RecStep, diskVars
    <2>2. \A f \in Times : HasItem(f) => HasItem(f)'
      BY <2>1, SameItems
    <2>3. PICK g \in Times : g = recFile
      BY <1>0, <2>1 DEF RecorderKnows
    <2>4. g \notin excused => HasItem(g)
      <3>1. pending = events[g] /\ events[g] > 0 => FALSE
        BY <2>1
      <3> QED BY <2>1, <2>3, <3>1 DEF ListsKnown, ClosingIsListed, HasItem
    <2>5. ASSUME NEW f \in files' \ (m_bNonStop' \cup excused') PROVE HasItem(f)'
      <3>1. f \in files \ (m_bNonStop \cup excused) /\ f \in Times
        BY <1>0, <2>1
      <3>2. f = g \/ HasItem(f)
        BY <1>0, <2>3, <3>1
      <3>3. HasItem(f)
        BY <2>4, <3>1, <3>2
      <3> QED BY <2>2, <3>1, <3>3
    <2>6. ClosedIsListed'
      BY <2>5 DEF ClosedIsListed, HasItem
    <2> QED BY <2>1, <2>6 DEF ListsKnown, ClosingIsListed
  <1> QED BY <1>1, <1>2, <1>3, <1>4, <1>5

LEMMA CleanerLists ==
  ASSUME IInv, ListsKnown, Cleaner
  PROVE  ListsKnown'
  <1>0. /\ TypeOK /\ CleanerKnows /\ files \subseteq Times /\ list \in [Days -> Seq(Item)]
        /\ \A f \in Times : DayOf(f) \in Days
    BY DayType DEF IInv, TypeOK
  <1>1. rpc # "listing" /\ rpc' # "listing"
    BY DEF Cleaner, DelOldRecord, SkipItem, DeleteFile, MarkItem, EndOfList, DelEntry,
           RemoveDir, CleanStep, recVars
  <1>2. ASSUME \A f \in files' \ (m_bNonStop' \cup excused') :
                 /\ f \in files \ (m_bNonStop \cup excused)
                 /\ HasItem(f) => HasItem(f)'
        PROVE  ListsKnown'
    <2>1. \A f \in files' \ (m_bNonStop' \cup excused') : HasItem(f)'
      BY <1>1, <1>2 DEF ListsKnown, ClosedIsListed, HasItem
    <2> QED BY <1>1, <2>1 DEF ListsKnown, ClosingIsListed, ClosedIsListed, HasItem
  <1>3. CASE (\E d \in Days : DelOldRecord(d)) \/ SkipItem \/ EndOfList \/ RemoveDir \/ DeleteFile
    <2>1. /\ UNCHANGED <<lists, list, excused>>
          /\ files' \ m_bNonStop' \subseteq files \ m_bNonStop
      BY <1>3 DEF DelOldRecord, SkipItem, EndOfList, RemoveDir, DeleteFile, diskVars
    <2> QED BY <1>2, <2>1 DEF HasItem, HasList
  <1>4. ASSUME NEW b \in BOOLEAN, MarkItem(b) PROVE ListsKnown'
    <2>1. /\ cpc = "mark" /\ list' = [list EXCEPT ![cday][cpos].deleted = TRUE]
          /\ UNCHANGED <<files, m_bNonStop, lists, excused>>
      BY <1>4 DEF MarkItem, CleanStep
    <2>2. /\ cday \in Days /\ cfile \notin files /\ list[cday][cpos].file = cfile
          /\ cpos \in 1..Len(list[cday]) /\ list[cday] \in Seq(Item)
      BY <1>0, <2>1 DEF CleanerKnows, TypeOK
    <2> DEFINE new == [list[cday] EXCEPT ![cpos] =
                         [list[cday][cpos] EXCEPT !.deleted = TRUE]]
    <2>3. list' = [list EXCEPT ![cday] = new]
      BY <1>0, <2>1, <2>2
    <2>4. Len(new) = Len(list[cday]) /\ \A i \in 1..Len(list[cday]) : i # cpos => new[i] = list[cday][i]
      BY <2>2
    <2> HIDE DEF new
    <2>5. ASSUME NEW f \in files, HasItem(f) PROVE HasItem(f)'
      <3>1. PICK i \in 1..Len(list[DayOf(f)]) :
              list[DayOf(f)][i].file = f /\ ~list[DayOf(f)][i].deleted
        BY <2>5 DEF HasItem
      <3>2. DayOf(f) \in Days /\ DayOf(f) \in lists'
        BY <1>0, <2>1, <2>5 DEF HasItem, HasList
      <3>3. CASE DayOf(f) = cday
        <4>1. i # cpos
          BY <2>2, <3>1, <3>3
        <4>2. list'[cday] = new
          BY <1>0, <2>2, <2>3
        <4>3. i \in 1..Len(list'[DayOf(f)]) /\ list'[DayOf(f)][i] = list[DayOf(f)][i]
          BY <2>4, <3>1, <3>3, <4>1, <4>2
        <4> QED BY <3>1, <3>2, <4>3 DEF HasItem, HasList
      <3>4. CASE DayOf(f) # cday
        <4>1. list'[DayOf(f)] = list[DayOf(f)]
          BY <1>0, <2>3, <3>2, <3>4
        <4> QED BY <3>1, <3>2, <4>1 DEF HasItem, HasList
      <3> QED BY <3>3, <3>4
    <2> QED BY <1>2, <2>1, <2>5
  <1>5. CASE DelEntry
    <2>1. PICK e \in Entries(cday) :
            /\ files' = files \ {e} /\ m_bNonStop' = m_bNonStop \ {e}
            /\ IF e = TheList
               THEN /\ lists' = lists \ {cday} /\ list' = [list EXCEPT ![cday] = <<>>]
                    /\ excused' = excused \cup FilesOf(cday)
               ELSE UNCHANGED <<lists, list, excused>>
      BY <1>5 DEF DelEntry
    <2>2. CASE e = TheList
      <3>1. /\ lists' = lists \ {cday} /\ list' = [list EXCEPT ![cday] = <<>>]
            /\ excused' = excused \cup FilesOf(cday)
        BY <2>1, <2>2
      <3>2. ASSUME NEW f \in files' \ (m_bNonStop' \cup excused')
            PROVE  /\ f \in files \ (m_bNonStop \cup excused)
                   /\ HasItem(f) => HasItem(f)'
        <4>1. f \in files \ (m_bNonStop \cup excused) /\ f \in Times /\ DayOf(f) # cday
          BY <1>0, <2>1, <3>1, <3>2 DEF FilesOf
        <4>2. list'[DayOf(f)] = list[DayOf(f)]
          BY <1>0, <3>1, <4>1
        <4> QED BY <3>1, <4>1, <4>2 DEF HasItem, HasList
      <3> QED BY <1>2, <3>2
    <2>3. CASE e # TheList
      <3>1. UNCHANGED <<lists, list, excused>>
        BY <2>1, <2>3
      <3> QED BY <1>2, <2>1, <3>1 DEF HasItem, HasList
    <2> QED BY <2>2, <2>3
  <1> QED BY <1>3, <1>4, <1>5 DEF Cleaner

LEMMA SearchLists ==
  ASSUME IInv, ListsKnown, NEW s \in Sessions,
         SearchOn(s) \/ \E d \in Days : SearchFromStart(s, d) \/ HaveRecordFile(s, d)
  PROVE  ListsKnown'
  <1>1. UNCHANGED <<files, m_bNonStop, events, rpc, recFile, pending, excused>>
    BY DEF SearchOn, SearchFromStart, HaveRecordFile, SearchStep, recVars
  <1>2. \A f \in Times : HasItem(f) => HasItem(f)'
    <2>1. CASE UNCHANGED <<lists, list>>
      BY <2>1, SameItems
    <2>2. CASE recFile \in files /\ Enlist(recFile, 1, events[recFile])
      <3>1. /\ TypeOK /\ recFile \in Times /\ events[recFile] \in 0..MaxEvents
            /\ MaxEvents \in Nat
        BY <2>2, FilesAssumption DEF IInv, TypeOK
      <3>2. /\ events[recFile] \in Nat /\ 1 \in Nat \ {0} /\ 1 \in Nat
            /\ 1 <= events[recFile] + 1
        BY <3>1
      <3>3. PICK g \in files : g = recFile
        BY <2>2
      <3>4. PICK n \in 0..MaxEvents : n = events[recFile]
        BY <3>1
      <3>5. Grown(g, 1, n)
        BY <2>2, <3>1, <3>2, <3>3, <3>4, Enlisted
      <3> QED BY <3>1, <3>2, <3>3, <3>4, <3>5, GrownLists
    <2> QED BY <2>1, <2>2 DEF SearchOn, SearchFromStart, HaveRecordFile
  <1> QED BY <1>1, <1>2, ListsStay

LEMMA SystemLists ==
  ASSUME IInv, ListsKnown,
         \/ Tick \/ StopRecordSystem \/ Crash \/ StartRecordSystem \/ RepairDone
         \/ \E f \in m_bNonStop : RepairFile(f)
         \/ UNCHANGED vars
  PROVE  ListsKnown'
  <1>1. CASE \/ Tick \/ StopRecordSystem \/ StartRecordSystem \/ RepairDone
             \/ UNCHANGED vars
    <2>1. /\ UNCHANGED <<files, m_bNonStop, lists, list, events, excused>>
          /\ UNCHANGED <<rpc, recFile, pending>> \/ (rpc # "listing" /\ rpc' # "listing")
      BY <1>1 DEF Tick, StopRecordSystem, StartRecordSystem, RepairDone, vars, diskVars, recVars
    <2> QED BY <2>1, SameItems, ListsStay
  <1>2. CASE Crash
    <2>1. /\ rpc' = "down" /\ UNCHANGED <<files, m_bNonStop, lists, list, events>>
          /\ excused' = IF rpc = "listing" THEN excused \cup {recFile} ELSE excused
      BY <1>2 DEF Crash, diskVars
    <2>2. ASSUME NEW f \in files' \ (m_bNonStop' \cup excused') PROVE HasItem(f)'
      <3>1. f \in files \ (m_bNonStop \cup excused) /\ ~(rpc = "listing" /\ f = recFile)
        BY <2>1, <2>2
      <3> QED BY <2>1, <3>1 DEF ListsKnown, ClosedIsListed, HasItem, HasList
    <2> QED BY <2>1, <2>2 DEF ListsKnown, ClosingIsListed, ClosedIsListed, HasItem
  <1>3. ASSUME NEW f \in m_bNonStop, RepairFile(f) PROVE ListsKnown'
    <2>1. /\ TypeOK /\ f \in files /\ f \in Times /\ events[f] \in 0..MaxEvents
          /\ events[f] \in Nat /\ 1 <= events[f] + 1 /\ 1 \in Nat \ {0} /\ 1 \in Nat
      BY SMTT(30), FilesAssumption DEF IInv, TypeOK
    <2>2. /\ rpc = "repair" /\ rpc' = "repair" /\ Enlist(f, 1, events[f])
          /\ excused' = IF events[f] = 0 THEN excused \cup {f} ELSE excused
          /\ m_bNonStop' = m_bNonStop \ {f} /\ UNCHANGED <<files, events>>
      BY <1>3 DEF RepairFile, recVars
    <2>3. PICK n \in 0..MaxEvents : n = events[f]
      BY <2>1
    <2>4. Grown(f, 1, n)
      BY <2>1, <2>2, <2>3, Enlisted
    <2>5. /\ \A g \in Times : HasItem(g) => HasItem(g)'
          /\ 1 <= n => HasItem(f)'
      BY <2>1, <2>3, <2>4, GrownLists
    <2>6. ASSUME NEW g \in files' \ (m_bNonStop' \cup excused') PROVE HasItem(g)'
      <3>1. CASE g = f
        BY <2>1, <2>2, <2>3, <2>5, <2>6, <3>1
      <3>2. CASE g # f
        <4>1. g \in files \ (m_bNonStop \cup excused) /\ g \in Times
          BY <2>2, <2>6, <3>2 DEF IInv, TypeOK
        <4>2. HasItem(g)
          BY <2>2, <4>1 DEF ListsKnown, ClosedIsListed, HasItem
        <4> QED BY <2>5, <4>1, <4>2
      <3> QED BY <3>1, <3>2
    <2> QED BY <2>2, <2>6 DEF ListsKnown, ClosingIsListed, ClosedIsListed, HasItem
  <1> QED BY <1>1, <1>2, <1>3

LEMMA NextLists == IInv /\ ListsKnown /\ [Next]_vars => ListsKnown'
  BY RecorderLists, CleanerLists, SearchLists, SystemLists DEF Next

\* Every file that was closed or repaired can be found, but for those that were
\* too short, that a crash met while they were closed, or whose day lost its
\* list: the cleaner marks no item but those of the file it has deleted.
THEOREM ClosesIntoList == Spec => []ClosedIsListed
  <1>1. Init => ListsKnown
    BY DEF Init, ListsKnown, ClosingIsListed, ClosedIsListed
  <1>2. ListsKnown => ClosedIsListed
    BY DEF ListsKnown
  <1>3. Spec => [](IInv /\ ListsKnown)
    BY <1>1, InitIInv, NextIInv, NextLists, PTL DEF Spec
  <1> QED BY <1>2, <1>3, PTL

-----------------------------------------------------------------------------
(* What a search finds.  A full answer ends at its last item, and nothing  *)
(* that could be found is passed over; one that is not full has the rest.  *)

LEMMA LeastOne ==
  ASSUME NEW S \in SUBSET Nat, S # {}
  PROVE  \E i \in S : \A j \in S : i <= j
  <1>1. PICK i \in S : \A j \in S : ~(<<j, i>> \in OpToRel(<, Nat))
    BY WFMin, NatLessThanWellFounded, Zenon
  <1>2. \A j \in S : i \in Nat /\ j \in Nat
    OBVIOUS
  <1>3. OpToRel(<, Nat) = {p \in Nat \X Nat : p[1] < p[2]}
    BY Zenon DEF OpToRel
  <1>4. \A j \in Nat : <<j, i>> \in {p \in Nat \X Nat : p[1] < p[2]} <=> i \in Nat /\ j < i
    OBVIOUS
  <1>5. \A j \in S : ~(j < i)
    BY <1>1, <1>2, <1>3, <1>4, Zenon
  <1> QED BY <1>2, <1>5

LEMMA GreatestOne ==
  ASSUME NEW n \in Nat, NEW S \in SUBSET (1..n), S # {}
  PROVE  \E i \in S : \A j \in S : j <= i
  <1> DEFINE U == {u \in Nat : \A j \in S : j <= u}
  <1>1. n \in U /\ U \in SUBSET Nat
    OBVIOUS
  <1>2. PICK u \in U : \A v \in U : u <= v
    BY <1>1, LeastOne
  <1>3. ASSUME u \notin S PROVE FALSE
    <2>1. \A j \in S : j <= u - 1 /\ j >= 1
      BY <1>2, <1>3
    <2>2. u \in Nat /\ \E j \in S : j <= u - 1 /\ j \in 1..n
      BY <1>2, <2>1
    <2>3. u - 1 \in Nat
      BY <2>2
    <2>4. u - 1 \in U
      BY <2>1, <2>3
    <2> QED BY <1>2, <2>2, <2>4
  <1> QED BY <1>2, <1>3

\* The items that can be found from the cursor up to i.
Before(d, from, i) == {j \in Found(d) : from <= j /\ j <= i}

LEMMA AnswerType ==
  ASSUME TypeOK, NEW d \in Days, NEW from \in Nat, NEW max \in Nat
  PROVE  /\ Len(list[d]) \in Nat /\ Found(d) \subseteq 1..Len(list[d])
         /\ IsFiniteSet(Found(d)) /\ Answer(d, from, max) \in SUBSET Found(d)
         /\ IsFiniteSet(Answer(d, from, max)) /\ Cardinality(Answer(d, from, max)) \in Nat
         /\ \A i \in Answer(d, from, max) : from <= i
         /\ \A i : Before(d, from, i) \in SUBSET Found(d)
         /\ \A i : /\ IsFiniteSet(Before(d, from, i))
                   /\ Cardinality(Before(d, from, i)) \in Nat
         /\ \A i \in Found(d) :
              i \in Answer(d, from, max) <=>
                from <= i /\ Cardinality(Before(d, from, i)) <= max
  <1>1. Len(list[d]) \in Nat /\ Found(d) \subseteq 1..Len(list[d])
    <2>1. list[d] \in Seq(Item)
      BY DEF TypeOK
    <2> QED BY <2>1 DEF Found
  <1>2. IsFiniteSet(Found(d))
    <2>1. IsFiniteSet(1..Len(list[d]))
      BY <1>1, FS_Interval
    <2> QED BY <1>1, <2>1, FS_Subset
  <1>3. Answer(d, from, max) \in SUBSET Found(d) /\ \A i : Before(d, from, i) \in SUBSET Found(d)
    BY DEF Answer, Before
  <1>4. /\ IsFiniteSet(Answer(d, from, max)) /\ Cardinality(Answer(d, from, max)) \in Nat
        /\ \A i : /\ IsFiniteSet(Before(d, from, i))
                  /\ Cardinality(Before(d, from, i)) \in Nat
    BY <1>2, <1>3, FS_Subset, FS_CardinalityType
  <1> QED BY <1>1, <1>2, <1>3, <1>4 DEF Answer, Before

\* An answer that is not full has all that can be found from the cursor on.
LEMMA LastAnswer ==
  ASSUME TypeOK, NEW d \in Days, NEW from \in Nat, NEW max \in Nat,
         Cardinality(Answer(d, from, max)) < max
  PROVE  \A i \in Found(d) : from <= i => i \in Answer(d, from, max)
  <1> DEFINE A == Answer(d, from, max)
             R == {i \in Found(d) : from <= i /\ i \notin A}
  <1>1. /\ Found(d) \in SUBSET Nat /\ IsFiniteSet(A) /\ Cardinality(A) \in Nat
        /\ A \in SUBSET Found(d)
    <2>1. /\ Len(list[d]) \in Nat /\ Found(d) \subseteq 1..Len(list[d])
          /\ IsFiniteSet(A) /\ Cardinality(A) \in Nat /\ A \in SUBSET Found(d)
      BY AnswerType
    <2> QED BY <2>1
  <1>2. ASSUME R # {} PROVE FALSE
    <2>1. PICK m \in R : \A j \in R : m <= j
      BY <1>1, <1>2, LeastOne
    <2>2. Before(d, from, m) \subseteq A \cup {m}
      BY <1>1, <2>1 DEF Before
    <2>3. IsFiniteSet(A \cup {m}) /\ Cardinality(A \cup {m}) = Cardinality(A) + 1
      BY <1>1, <2>1, FS_AddElement
    <2>4. Cardinality(Before(d, from, m)) <= Cardinality(A) + 1
      BY <2>2, <2>3, FS_Subset
    <2>5. Cardinality(Before(d, from, m)) \in Nat
      BY AnswerType
    <2>6. Cardinality(Before(d, from, m)) <= max
      BY <1>1, <2>4, <2>5
    <2> QED BY <2>1, <2>6, AnswerType
  <1> QED BY <1>2

\* A full answer leaves the cursor behind its last item, and has all that can
\* be found up to there.
LEMMA FullAnswer ==
  ASSUME TypeOK, NEW d \in Days, NEW from \in Nat, NEW max \in Nat \ {0},
         Cardinality(Answer(d, from, max)) >= max
  PROVE  \E m \in Answer(d, from, max) :
           /\ CursorAfter(d, from, max) = m + 1
           /\ \A i \in Answer(d, from, max) : i <= m
           /\ \A i \in Found(d) : from <= i /\ i <= m => i \in Answer(d, from, max)
  <1> DEFINE A == Answer(d, from, max)
             n == Len(list[d])
  <1>1. /\ n \in Nat /\ Found(d) \subseteq 1..n /\ A \in SUBSET (1..n)
        /\ A \in SUBSET Found(d) /\ IsFiniteSet(A) /\ Cardinality(A) \in Nat
    BY AnswerType
  <1>2. A # {}
    BY FS_EmptySet
  <1>3. PICK m \in A : \A j \in A : j <= m
    BY <1>1, <1>2, GreatestOne
  <1>4. {i \in 1..n : \E j \in A : i <= j} = 1..m
    BY <1>1, <1>3
  <1>5. Cardinality(1..m) = m
    BY <1>1, <1>3, FS_Interval
  <1>6. HasList(d)
    BY <1>1, <1>2 DEF Found
  <1>7. CursorAfter(d, from, max) = m + 1
    <2>1. ~(Cardinality(A) < max)
      BY <1>1
    <2> HIDE DEF A
    <2>2. CursorAfter(d, from, max) = Cardinality({i \in 1..n : \E j \in A : i <= j}) + 1
      BY <1>6, <2>1 DEF CursorAfter, A
    <2> QED BY <1>4, <1>5, <2>2
  <1>8. ASSUME NEW i \in Found(d), from <= i, i <= m PROVE i \in A
    <2>1. Before(d, from, i) \subseteq Before(d, from, m)
      BY <1>1, <1>8 DEF Before
    <2>2. /\ IsFiniteSet(Before(d, from, m)) /\ Cardinality(Before(d, from, m)) \in Nat
          /\ Cardinality(Before(d, from, i)) \in Nat /\ Cardinality(Before(d, from, m)) <= max
      BY <1>1, <1>3, AnswerType
    <2>3. Cardinality(Before(d, from, i)) <= Cardinality(Before(d, from, m))
      BY <2>1, <2>2, FS_Subset
    <2>4. Cardinality(Before(d, from, i)) <= max
      BY <2>2, <2>3
    <2> QED BY <1>8, <2>4, AnswerType
  <1> QED BY <1>3, <1>7, <1>8

-----------------------------------------------------------------------------
(* The order of a list.                                                    *)

Upto(d, f) == \A i \in 1..Len(list[d]) : list[d][i].file <= f
InOrder ==
  \A d \in Days : \A i, j \in 1..Len(list[d]) : i <= j => list[d][i].file <= list[d][j].file

\* A list is in the order of its files: the file that is being recorded, and
\* the one that a repair may still list, are the last of their day.
OrderKnown ==
  /\ InOrder /\ \A d \in Days : Upto(d, time)
  /\ recFile # NoFile => recFile <= time /\ Upto(DayOf(recFile), recFile)
  /\ startDay <= Today
  /\ \A f \in m_bNonStop : DayOf(f) >= startDay =>
       /\ Upto(DayOf(f), f)
       /\ \A g \in m_bNonStop : DayOf(g) >= startDay => f = g

LEMMA Numbers ==
  ASSUME TypeOK
  PROVE  /\ time \in Times /\ m_bNonStop \subseteq files /\ files \subseteq Times
         /\ startDay \in Days
         /\ \A f \in Times : f \in Int /\ DayOf(f) \in Int
         /\ \A d \in Days : /\ d \in Int /\ Len(list[d]) \in Nat
                            /\ \A i \in 1..Len(list[d]) : /\ list[d][i] \in Item
                                                          /\ list[d][i].file \in Times
                                                          /\ list[d][i].file \in Int
         /\ recFile # NoFile => recFile \in Times
  <1>1. /\ time \in Times /\ m_bNonStop \subseteq files /\ files \subseteq Times
        /\ startDay \in Days /\ list \in [Days -> Seq(Item)] /\ recFile \in Times \cup {NoFile}
    BY DEF TypeOK
  <1>2. \A d \in Days : d \in Int
    BY DayType
  <1>3. \A f \in Times : f \in Int /\ DayOf(f) \in Int
    BY <1>2, DayType
  <1>4. ASSUME NEW d \in Days
        PROVE  /\ Len(list[d]) \in Nat
               /\ \A i \in 1..Len(list[d]) : list[d][i] \in Item /\ list[d][i].file \in Times
    <2>1. list[d] \in Seq(Item)
      BY <1>1
    <2>2. Len(list[d]) \in Nat /\ \A i \in 1..Len(list[d]) : list[d][i] \in Item
      BY <2>1
    <2>3. \A it \in Item : it.file \in Times
      BY DEF Item
    <2> QED BY <2>2, <2>3
  <1> QED BY <1>1, <1>2, <1>3, <1>4

\* A step that puts nothing into a list: it may empty one, and mark.
LEMMA OrderStays ==
  ASSUME TypeOK, TypeOK', OrderKnown, time <= time',
         \A d \in Days :
           \/ /\ Len(list'[d]) = Len(list[d])
              /\ \A i \in 1..Len(list[d]) : list'[d][i].file = list[d][i].file
           \/ Len(list'[d]) = 0
  PROVE  /\ InOrder' /\ (\A d \in Days : Upto(d, time))'
         /\ \A d \in Days, f \in Times : Upto(d, f) => Upto(d, f)'
         /\ startDay <= Today'
  <1>1. \A d \in Days : \A i \in 1..Len(list'[d]) :
          i \in 1..Len(list[d]) /\ list'[d][i].file = list[d][i].file
    OBVIOUS
  <1>2. InOrder'
    BY <1>1 DEF InOrder, OrderKnown
  <1>3. \A d \in Days, f \in Times : Upto(d, f) => Upto(d, f)'
    BY <1>1 DEF Upto
  <1>4. time \in Times /\ time' \in Times /\ time \in Int /\ time' \in Int
    BY Numbers DEF TypeOK
  <1>5. ASSUME NEW d \in Days, NEW i \in 1..Len(list'[d]) PROVE list'[d][i].file <= time'
    <2>1. list[d][i].file <= time /\ list[d][i].file \in Int
      BY <1>1, <1>5, Numbers DEF OrderKnown, Upto
    <2> QED BY <1>1, <1>4, <1>5, <2>1
  <1>6. startDay <= Today'
    <2>1. DayOf(time) <= DayOf(time')
      BY <1>4, DayType
    <2>2. DayOf(time) \in Int /\ DayOf(time') \in Int /\ startDay \in Int
      BY <1>4, Numbers
    <2> QED BY <2>1, <2>2 DEF OrderKnown, Today
  <1> QED BY <1>2, <1>3, <1>5, <1>6 DEF Upto

LEMMA OrderGrows ==
  ASSUME TypeOK, TypeOK', OrderKnown, UNCHANGED time, NEW f \in Times, NEW from \in Nat,
         NEW to \in Nat, from <= to + 1, Grown(f, from, to), Upto(DayOf(f), f), f <= time
  PROVE  /\ InOrder' /\ (\A d \in Days : Upto(d, time))'
         /\ Upto(DayOf(f), f)'
  <1> DEFINE d == DayOf(f)
  <1>1. d \in Days /\ Len(list[d]) \in Nat /\ Len(list'[d]) \in Nat /\ time \in Int /\ f \in Int
    <2>1. d \in Days
      BY DayType
    <2>2. list' \in [Days -> Seq(Item)]
      BY DEF TypeOK
    <2>3. list'[d] \in Seq(Item)
      BY <2>1, <2>2
    <2>4. Len(list'[d]) \in Nat
      BY <2>3
    <2> QED BY <2>1, <2>4, Numbers
  <1>2. /\ \A e \in Days \ {d} : list'[e] = list[e]
        /\ Len(list'[d]) = Len(list[d]) + (to - from + 1)
        /\ \A i \in 1..Len(list[d]) : list'[d][i].file = list[d][i].file
        /\ \A i \in (Len(list[d]) + 1)..Len(list'[d]) : list'[d][i].file = f
    BY DEF Grown
  <1>3. /\ \A i \in 1..Len(list[d]) : list[d][i].file <= f /\ list[d][i].file \in Int
        /\ \A i, j \in 1..Len(list[d]) : i <= j => list[d][i].file <= list[d][j].file
    BY <1>1, Numbers DEF Upto, OrderKnown, InOrder
  <1>4. \A i \in 1..Len(list'[d]) :
          i \in 1..Len(list[d]) \/ i \in (Len(list[d]) + 1)..Len(list'[d])
    BY <1>1
  <1>5. \A i \in 1..Len(list'[d]) : list'[d][i].file <= f /\ list'[d][i].file <= time
    <2> SUFFICES ASSUME NEW i \in 1..Len(list'[d])
                 PROVE  list'[d][i].file <= f /\ list'[d][i].file <= time
      OBVIOUS
    <2>1. CASE i \in 1..Len(list[d])
      <3>1. list[d][i].file <= f /\ list[d][i].file \in Int
        BY <1>3, <2>1
      <3>2. list'[d][i].file = list[d][i].file
        BY <1>2, <2>1
      <3> QED BY <1>1, <3>1, <3>2
    <2>2. CASE i \in (Len(list[d]) + 1)..Len(list'[d])
      <3>1. list'[d][i].file = f
        BY <1>2, <2>2
      <3> QED BY <1>1, <3>1
    <2> QED BY <1>4, <2>1, <2>2
  <1>6. ASSUME NEW i \in 1..Len(list'[d]), NEW j \in 1..Len(list'[d]), i <= j
        PROVE  list'[d][i].file <= list'[d][j].file
    <2>1. CASE j \in 1..Len(list[d])
      <3>1. i \in 1..Len(list[d])
        BY <1>1, <1>6, <2>1
      <3>2. /\ list'[d][i].file = list[d][i].file
            /\ list'[d][j].file = list[d][j].file
        BY <1>2, <2>1, <3>1
      <3> QED BY <1>3, <1>6, <2>1, <3>1, <3>2
    <2>2. CASE j \in (Len(list[d]) + 1)..Len(list'[d])
      BY <1>2, <1>5, <1>6, <2>2
    <2> QED BY <1>4, <2>1, <2>2
  <1>7. InOrder'
    <2> SUFFICES ASSUME NEW e \in Days, NEW i \in 1..Len(list'[e]), NEW j \in 1..Len(list'[e]),
                        i <= j
                 PROVE  list'[e][i].file <= list'[e][j].file
      BY DEF InOrder
    <2>1. CASE e = d
      BY <1>6, <2>1
    <2>2. CASE e # d
      BY <1>2, <2>2 DEF OrderKnown, InOrder
    <2> QED BY <2>1, <2>2
  <1>8. ASSUME NEW e \in Days, NEW i \in 1..Len(list'[e]) PROVE list'[e][i].file <= time'
    <2>1. CASE e = d
      BY <1>5, <1>8, <2>1
    <2>2. CASE e # d
      BY <1>2, <1>8, <2>2 DEF OrderKnown, Upto
    <2> QED BY <2>1, <2>2
  <1> QED BY <1>5, <1>7, <1>8 DEF Upto

\* The search that no other has disturbed.
Active(s) == search[s].day # NoDay /\ search[s].alone

\* No item moves, and none comes back.
Kept(d) ==
  /\ Len(list[d]) <= Len(list'[d])
  /\ \A i \in 1..Len(list[d]) : /\ list'[d][i].file = list[d][i].file
                                /\ list[d][i].deleted => list'[d][i].deleted

\* The cleaner marks items and deletes lists; a search in a list that goes is
\* not alone any more.
LEMMA CleanerLeaves ==
  ASSUME IInv, Cleaner
  PROVE  /\ UNCHANGED <<time, recFile, startDay, m_s32IdxOffset>>
         /\ files' \subseteq files /\ m_bNonStop' \subseteq m_bNonStop
         /\ \A d \in Days :
              \/ Len(list'[d]) = Len(list[d]) /\ Kept(d)
              \/ Len(list'[d]) = 0 /\ \A s \in Sessions : Active(s)' => search[s].day # d
         /\ \A s \in Sessions : Active(s)' => search'[s] = search[s]
  <1>0. TypeOK /\ RecorderKnows /\ CleanerKnows /\ \A d \in Days : Len(list[d]) \in Nat
    BY Numbers DEF IInv
  <1>1. /\ UNCHANGED <<time, recFile, startDay, m_s32IdxOffset>>
        /\ files' \subseteq files /\ m_bNonStop' \subseteq m_bNonStop
    <2>1. \E from : CleanStep(from)
      BY DEF Cleaner, DelOldRecord, SkipItem, DeleteFile, MarkItem, EndOfList, DelEntry, RemoveDir
    <2>2. UNCHANGED <<time, recFile, startDay, m_s32IdxOffset>>
      BY <1>0, <2>1, CleanSteps
    <2>3. files' \subseteq files /\ m_bNonStop' \subseteq m_bNonStop
      BY DEF Cleaner, DelOldRecord, SkipItem, DeleteFile, MarkItem, EndOfList, DelEntry,
             RemoveDir, diskVars
    <2> QED BY <2>2, <2>3
  <1>2. CASE UNCHANGED <<list, search>>
    BY <1>0, <1>1, <1>2 DEF Kept
  <1>3. ASSUME NEW b \in BOOLEAN, MarkItem(b)
        PROVE  UNCHANGED search /\ \A d \in Days : Len(list'[d]) = Len(list[d]) /\ Kept(d)
    <2>1. /\ cpc = "mark" /\ list' = [list EXCEPT ![cday][cpos].deleted = TRUE]
          /\ UNCHANGED search
      BY <1>3 DEF MarkItem, CleanStep
    <2>2. /\ cday \in Days /\ cpos \in 1..Len(list[cday]) /\ list \in [Days -> Seq(Item)]
          /\ list[cday] \in Seq(Item) /\ list[cday][cpos] \in Item
      <3>1. cday \in Days /\ cpos \in 1..Len(list[cday]) /\ list \in [Days -> Seq(Item)]
        BY <1>0, <2>1 DEF CleanerKnows, TypeOK
      <3> QED BY <3>1
    <2> DEFINE it == [list[cday][cpos] EXCEPT !.deleted = TRUE]
               new == [list[cday] EXCEPT ![cpos] = it]
    <2>3. list' = [list EXCEPT ![cday] = new]
      BY <2>1, <2>2
    <2>4. it.file = list[cday][cpos].file /\ it.deleted
      BY <2>2 DEF Item
    <2> HIDE DEF it
    <2>5. /\ Len(new) = Len(list[cday])
          /\ \A i \in 1..Len(list[cday]) : new[i] = IF i = cpos THEN it ELSE list[cday][i]
      BY <2>2
    <2> HIDE DEF new
    <2>6. list'[cday] = new /\ \A d \in Days \ {cday} : list'[d] = list[d]
      BY <2>2, <2>3
    <2>7. Kept(cday)
      BY <1>0, <2>2, <2>4, <2>5, <2>6 DEF Kept
    <2>8. \A d \in Days \ {cday} : Kept(d)
      BY <1>0, <2>6 DEF Kept
    <2> QED BY <2>1, <2>5, <2>6, <2>7, <2>8
  <1>4. CASE DelEntry /\ ~UNCHANGED <<list, search>>
    <2>1. /\ list' = [list EXCEPT ![cday] = <<>>]
          /\ search' = [s \in Sessions |-> [search[s] EXCEPT !.alone = @ /\ search[s].day # cday]]
      BY <1>4 DEF DelEntry
    <2>2. list \in [Days -> Seq(Item)]
      BY <1>0 DEF TypeOK
    <2>3. \A d \in Days \ {cday} : list'[d] = list[d]
      BY <2>1, <2>2
    <2>4. cday \in Days => Len(list'[cday]) = 0
      BY <2>1, <2>2
    <2>5. ASSUME NEW s \in Sessions, Active(s)'
          PROVE  search[s].day # cday /\ search'[s] = search[s]
      <3>1. search[s] \in SearchRec
        BY <1>0 DEF TypeOK, SearchRec
      <3>2. search'[s] = [search[s] EXCEPT !.alone = @ /\ search[s].day # cday]
        BY <2>1
      <3>3. search'[s].alone = (search[s].alone /\ search[s].day # cday)
        BY <3>1, <3>2 DEF SearchRec
      <3>4. search[s].day # cday /\ search[s].alone = TRUE
        BY <2>5, <3>1, <3>3 DEF Active, SearchRec
      <3>5. search'[s] = [search[s] EXCEPT !.alone = TRUE]
        BY <3>2, <3>4
      <3>6. search'[s] = search[s]
        BY <3>1, <3>4, <3>5 DEF SearchRec
      <3> QED BY <3>4, <3>6
    <2>6. \A d \in Days \ {cday} : Len(list'[d]) = Len(list[d]) /\ Kept(d)
      BY <1>0, <2>3 DEF Kept
    <2> QED BY <1>1, <2>4, <2>5, <2>6
  <1>5. \/ UNCHANGED <<list, search>> \/ (\E b \in BOOLEAN : MarkItem(b))
        \/ DelEntry /\ ~UNCHANGED <<list, search>>
    BY DEF Cleaner, DelOldRecord, SkipItem, DeleteFile, EndOfList, RemoveDir, diskVars
  <1>6. CASE \E b \in BOOLEAN : MarkItem(b)
    BY <1>1, <1>3, <1>6
  <1> QED BY <1>2, <1>4, <1>5, <1>6

\* A step that lists nothing and opens nothing.
LEMMA OrderSame ==
  ASSUME IInv, IInv', OrderKnown, time <= time', UNCHANGED startDay,
         recFile' \in {recFile, NoFile}, m_bNonStop' \subseteq m_bNonStop,
         \A d \in Days :
           \/ /\ Len(list'[d]) = Len(list[d])
              /\ \A i \in 1..Len(list[d]) : list'[d][i].file = list[d][i].file
           \/ Len(list'[d]) = 0
  PROVE  OrderKnown'
  <1>1. /\ TypeOK /\ TypeOK'
    BY DEF IInv
  <1>2. /\ InOrder' /\ (\A d \in Days : Upto(d, time))'
        /\ \A d \in Days, f \in Times : Upto(d, f) => Upto(d, f)'
        /\ startDay <= Today'
    BY <1>1, OrderStays
  <1>3. /\ time \in Int /\ time' \in Int /\ m_bNonStop \subseteq Times
        /\ recFile # NoFile => recFile \in Times
        /\ \A f \in Times : f \in Int /\ DayOf(f) \in Days
    <2>1. time' \in Times /\ time \in Times /\ m_bNonStop \subseteq files /\ files \subseteq Times
      BY <1>1 DEF TypeOK
    <2>2. \A f \in Times : f \in Int /\ DayOf(f) \in Days
      BY <1>1, Numbers, DayType
    <2>3. recFile # NoFile => recFile \in Times
      BY <1>1, Numbers
    <2> QED BY <2>1, <2>2, <2>3
  <1>4. (recFile # NoFile => recFile <= time /\ Upto(DayOf(recFile), recFile))'
    <2> SUFFICES ASSUME recFile' # NoFile
                 PROVE  (recFile <= time /\ Upto(DayOf(recFile), recFile))'
      OBVIOUS
    <2>1. recFile' = recFile /\ recFile # NoFile
      OBVIOUS
    <2>2. PICK g \in Times : g = recFile
      BY <1>3, <2>1
    <2>3. g <= time /\ Upto(DayOf(g), g)
      BY <2>1, <2>2 DEF OrderKnown
    <2>4. g <= time' /\ Upto(DayOf(g), g)'
      BY <1>2, <1>3, <2>2, <2>3
    <2> QED BY <2>1, <2>2, <2>4 DEF Upto
  <1>5. ASSUME NEW f \in m_bNonStop', DayOf(f) >= startDay
        PROVE  Upto(DayOf(f), f)' /\ \A g \in m_bNonStop' : DayOf(g) >= startDay => f = g
    <2>1. f \in m_bNonStop /\ f \in Times
      BY <1>3, <1>5
    <2> QED BY <1>2, <1>3, <1>5, <2>1 DEF OrderKnown
  <1> QED BY <1>2, <1>4, <1>5 DEF OrderKnown, Upto

\* A step that lists events of f, the only file of today or later that is open,
\* if one is.
LEMMA OrderListed ==
  ASSUME IInv, IInv', OrderKnown, UNCHANGED <<time, startDay, recFile>>,
         NEW f \in files, NEW from \in Nat \ {0}, NEW to \in 0..MaxEvents, from <= to + 1,
         Enlist(f, from, to), Upto(DayOf(f), f), f <= time, recFile \in {f, NoFile},
         \A g \in m_bNonStop' : DayOf(g) >= startDay => g = f
  PROVE  OrderKnown'
  <1>1. TypeOK /\ TypeOK' /\ f \in Times /\ from \in Nat /\ to \in Nat
    <2>1. TypeOK /\ TypeOK'
      BY DEF IInv
    <2>2. files \subseteq Times
      BY <2>1, Numbers
    <2>3. to \in Nat
      BY FilesAssumption
    <2> QED BY <2>1, <2>2, <2>3
  <1>2. Grown(f, from, to)
    BY <1>1, Enlisted
  <1>3. InOrder' /\ (\A d \in Days : Upto(d, time))' /\ Upto(DayOf(f), f)'
    BY <1>1, <1>2, OrderGrows
  <1>4. (recFile # NoFile => recFile <= time /\ Upto(DayOf(recFile), recFile))'
    BY <1>3 DEF Upto
  <1>5. (startDay <= Today)'
    BY DEF OrderKnown, Today
  <1>6. (\A g \in m_bNonStop : DayOf(g) >= startDay =>
           /\ Upto(DayOf(g), g)
           /\ \A h \in m_bNonStop : DayOf(h) >= startDay => g = h)'
    BY <1>3 DEF Upto
  <1> QED BY <1>3, <1>4, <1>5, <1>6 DEF OrderKnown

LEMMA NextOrder ==
  ASSUME IInv, IInv', OpenKnown, OrderKnown, [Next]_vars
  PROVE  OrderKnown'
  <1>1. /\ TypeOK /\ TypeOK' /\ RecorderKnows
        /\ time \in Times /\ time' \in Times /\ m_bNonStop \subseteq files
        /\ files \subseteq Times /\ startDay \in Days
        /\ \A f \in Times : f \in Int /\ DayOf(f) \in Int /\ DayOf(f) \in Days
        /\ \A d \in Days : d \in Int
        /\ time \in Int /\ time' \in Int /\ MaxEvents \in Nat
    <2>1. TypeOK /\ TypeOK' /\ RecorderKnows
      BY DEF IInv
    <2>2. time' \in Times
      BY <2>1 DEF TypeOK
    <2> QED BY <2>1, <2>2, Numbers, DayType, FilesAssumption
  <1>2. ASSUME UNCHANGED <<list, startDay>>, time <= time', recFile' \in {recFile, NoFile},
               m_bNonStop' \subseteq m_bNonStop
        PROVE  OrderKnown'
    BY <1>2, OrderSame
  <1>3. CASE OpenRecordFile \/ OpenFails
    <2>1. /\ rpc = "stopped" /\ recFile' \in {time, recFile} /\ UNCHANGED <<time, startDay, list>>
          /\ m_bNonStop' \subseteq m_bNonStop \cup {time}
      BY <1>3 DEF OpenRecordFile, OpenFails, NoDirectory, NoRecordFile, NoIndex, NoList,
                  RecStep, diskVars
    <2>2. recFile = NoFile
      BY <1>1, <2>1 DEF RecorderKnows
    <2>3. \A f \in m_bNonStop : ~(DayOf(f) >= startDay)
      <3>1. NoFile \notin Times
        BY DayType
      <3>2. \A f \in m_bNonStop : DayOf(f) < startDay
        BY <1>1, <2>1, <2>2, <3>1 DEF OpenKnown, OpenFilesAreOld
      <3> QED BY <1>1, <3>2
    <2>4. InOrder' /\ (\A d \in Days : Upto(d, time))' /\ Upto(DayOf(time), time)'
      BY <1>1, <2>1 DEF OrderKnown, InOrder, Upto
    <2>5. (recFile # NoFile => recFile <= time /\ Upto(DayOf(recFile), recFile))'
      BY <1>1, <2>1, <2>2, <2>4 DEF Upto
    <2>6. \A f \in m_bNonStop' : DayOf(f) >= startDay => f = time
      BY <2>1, <2>3
    <2>7. (\A g \in m_bNonStop : DayOf(g) >= startDay =>
             /\ Upto(DayOf(g), g)
             /\ \A h \in m_bNonStop : DayOf(h) >= startDay => g = h)'
      BY <2>1, <2>4, <2>6 DEF Upto
    <2>8. (startDay <= Today)'
      BY <2>1 DEF OrderKnown, Today
    <2> QED BY <2>4, <2>5, <2>7, <2>8 DEF OrderKnown
  <1>4. CASE WriteRecordFile \/ CloseRecordFile \/ ClearRecordInfor
    <2>1. /\ UNCHANGED <<list, startDay, time>> /\ recFile' \in {recFile, NoFile}
          /\ m_bNonStop' \subseteq m_bNonStop
      BY <1>4 DEF WriteRecordFile, CloseRecordFile, ClearRecordInfor, RecStep, diskVars
    <2> QED BY <1>1, <1>2, <2>1
  <1>5. CASE AddOneEven2List
    <2> DEFINE e == events[recFile] - pending + 1
    <2>1. /\ rpc = "listing" /\ pending > 0 /\ Enlist(recFile, e, e)
          /\ UNCHANGED <<time, startDay, recFile, m_bNonStop>>
      BY <1>5 DEF AddOneEven2List, RecStep
    <2>2. /\ recFile \in files \ m_bNonStop /\ pending <= events[recFile]
          /\ pending \in 0..MaxEvents /\ events[recFile] \in 0..MaxEvents
      BY <1>1, <2>1 DEF RecorderKnows, TypeOK
    <2>3. e \in Nat \ {0} /\ e \in 0..MaxEvents /\ e <= e + 1
      BY <1>1, <2>1, <2>2
    <2> HIDE DEF e
    <2>4. recFile # NoFile
      BY <1>1, <2>2, DayType
    <2>5. \A g \in m_bNonStop' : DayOf(g) >= startDay => g = recFile
      <3>1. \A g \in m_bNonStop : g = recFile \/ DayOf(g) < startDay
        BY <2>1 DEF OpenKnown, OpenFilesAreOld
      <3> QED BY <1>1, <2>1, <3>1
    <2>6. recFile \in {recFile, NoFile} /\ recFile \in files
      BY <2>2
    <2>7. Upto(DayOf(recFile), recFile) /\ recFile <= time
      BY <2>4 DEF OrderKnown
    <2> QED BY <2>1, <2>3, <2>5, <2>6, <2>7, OrderListed
  <1>6. CASE Cleaner
    BY <1>1, <1>6, CleanerLeaves, OrderSame DEF Kept
  <1>7. ASSUME NEW s \in Sessions, NEW d \in Days, SearchFromStart(s, d) PROVE OrderKnown'
    <2>1. UNCHANGED <<time, startDay, recFile, m_bNonStop, rpc>>
      BY <1>7 DEF SearchFromStart, SearchStep, recVars
    <2>2. CASE BeingRecorded(d) /\ recFile \in files
      <3>1. Enlist(recFile, 1, events[recFile]) /\ recFile # NoFile
        BY <1>7, <2>2 DEF SearchFromStart, BeingRecorded
      <3>2. PICK n \in 0..MaxEvents : n = events[recFile]
        BY <1>1, <2>2 DEF TypeOK
      <3>3. rpc \notin {"down", "repair"}
        BY <1>1, <3>1 DEF RecorderKnows
      <3>4. \A g \in m_bNonStop' : DayOf(g) >= startDay => g = recFile
        <4>1. \A g \in m_bNonStop : g = recFile \/ DayOf(g) < startDay
          BY <3>3 DEF OpenKnown, OpenFilesAreOld
        <4> QED BY <1>1, <2>1, <4>1
      <3>5. Upto(DayOf(recFile), recFile) /\ recFile <= time
        BY <3>1 DEF OrderKnown
      <3>6. /\ recFile \in {recFile, NoFile} /\ recFile \in files
            /\ 1 \in Nat \ {0} /\ 1 <= n + 1
        BY <1>1, <2>2, <3>2
      <3> QED BY <2>1, <3>1, <3>2, <3>4, <3>5, <3>6, OrderListed
    <2>3. CASE ~(BeingRecorded(d) /\ recFile \in files)
      <3>1. UNCHANGED list
        BY <1>7, <2>3 DEF SearchFromStart
      <3> QED BY <1>1, <1>2, <2>1, <3>1
    <2> QED BY <2>2, <2>3
  <1>8. CASE \E s \in Sessions : SearchOn(s) \/ \E d \in Days : HaveRecordFile(s, d)
    <2>1. UNCHANGED <<list, time, startDay, recFile, m_bNonStop>>
      BY <1>8 DEF SearchOn, HaveRecordFile, SearchStep, recVars
    <2> QED BY <1>1, <1>2, <2>1
  <1>9. CASE Tick
    <2>1. time' = time + 1 /\ UNCHANGED <<list, startDay, recFile, m_bNonStop>>
      BY <1>9 DEF Tick, diskVars, recVars
    <2> QED BY <1>1, <1>2, <2>1
  <1>10. CASE StopRecordSystem \/ Crash \/ RepairDone \/ UNCHANGED vars
    <2>1. /\ UNCHANGED <<list, time, startDay, m_bNonStop>> /\ recFile' \in {recFile, NoFile}
      BY <1>10 DEF StopRecordSystem, Crash, RepairDone, vars, diskVars, recVars
    <2> QED BY <1>1, <1>2, <2>1
  <1>11. CASE StartRecordSystem
    <2>1. /\ startDay' = Today /\ UNCHANGED <<list, time, recFile, m_bNonStop>>
      BY <1>11 DEF StartRecordSystem, diskVars
    <2>2. startDay <= Today /\ Today \in Int /\ startDay \in Int
      BY <1>1 DEF OrderKnown, Today
    <2>3. InOrder' /\ (\A d \in Days : Upto(d, time))'
      BY <2>1 DEF OrderKnown, InOrder, Upto
    <2>4. (recFile # NoFile => recFile <= time /\ Upto(DayOf(recFile), recFile))'
      BY <2>1 DEF OrderKnown, Upto
    <2>5. \A g \in m_bNonStop : DayOf(g) >= startDay' => DayOf(g) >= startDay
      BY <1>1, <2>1, <2>2
    <2>6. (\A g \in m_bNonStop : DayOf(g) >= startDay =>
             /\ Upto(DayOf(g), g)
             /\ \A h \in m_bNonStop : DayOf(h) >= startDay => g = h)'
      BY <2>1, <2>5 DEF OrderKnown, Upto
    <2>7. (startDay <= Today)'
      BY <2>1, <2>2 DEF Today
    <2> QED BY <2>3, <2>4, <2>6, <2>7 DEF OrderKnown
  <1>12. ASSUME NEW f \in m_bNonStop, RepairFile(f) PROVE OrderKnown'
    <2>1. /\ rpc = "repair" /\ DayOf(f) = startDay /\ Enlist(f, 1, events[f])
          /\ m_bNonStop' = m_bNonStop \ {f} /\ UNCHANGED <<time, startDay, recFile>>
      BY <1>12 DEF RepairFile, recVars
    <2>2. f \in files /\ f <= time /\ recFile = NoFile
      BY <1>1, <2>1 DEF RecorderKnows, OpenKnown
    <2>3. PICK n \in 0..MaxEvents : n = events[f]
      BY <1>1, <2>2 DEF TypeOK
    <2>4. /\ Upto(DayOf(f), f)
          /\ \A g \in m_bNonStop : DayOf(g) >= startDay => f = g
      BY <1>1, <2>1 DEF OrderKnown
    <2>5. \A g \in m_bNonStop' : DayOf(g) >= startDay => g = f
      BY <2>1, <2>4
    <2>6. 1 \in Nat \ {0} /\ 1 <= n + 1 /\ recFile \in {f, NoFile}
      BY <2>2, <1>1, <2>3
    <2> QED BY <2>1, <2>2, <2>3, <2>4, <2>5, <2>6, OrderListed
  <1> QED BY <1>3, <1>4, <1>5, <1>6, <1>7, <1>8, <1>9, <1>10, <1>11, <1>12 DEF Next

-----------------------------------------------------------------------------
(* The search that is alone.                                               *)

\* The item that cannot be found any more, and never again will be: a file of
\* an hour that is over is not made a second time.
Gone(d, i) == list[d][i].deleted \/ (list[d][i].file \notin files /\ list[d][i].file < time)

\* Behind the cursor is nothing that was due and is still there that the search
\* has not got; what it has got is behind the cursor.
Followed(s) ==
  LET d == search[s].day
  IN  /\ ~search[s].twice
      /\ \A i \in search[s].got : i < m_s32IdxOffset
      /\ search[s].due \subseteq 1..Len(list[d])
      /\ \A i \in search[s].due : i < m_s32IdxOffset => i \in search[s].got \/ Gone(d, i)

SearchesKnown ==
  /\ \A s, t \in Sessions : Active(s) /\ Active(t) => s = t
  /\ \A s \in Sessions : Active(s) => Followed(s)

LEMMA SearchParts ==
  ASSUME TypeOK
  PROVE  /\ m_s32IdxOffset \in Nat
         /\ \A s \in Sessions :
              /\ search[s] \in SearchRec
              /\ search[s].got \subseteq Nat /\ search[s].due \subseteq Nat
              /\ search[s].day # NoDay => search[s].day \in Days
  BY DEF TypeOK, SearchRec

\* What is gone stays gone.
LEMMA GoneStays ==
  ASSUME TypeOK, TypeOK', files' \subseteq files \cup {time}, time <= time',
         NEW d \in Days, Kept(d), NEW i \in 1..Len(list[d]), Gone(d, i)
  PROVE  Gone(d, i)'
  <1>1. /\ list[d][i].file \in Int /\ time \in Int /\ time' \in Int
        /\ list'[d][i].file = list[d][i].file
        /\ list[d][i].deleted => list'[d][i].deleted
    <2>1. list[d][i].file \in Int /\ time \in Times
      BY Numbers
    <2>2. time' \in Times
      BY DEF TypeOK
    <2>3. /\ list'[d][i].file = list[d][i].file
          /\ list[d][i].deleted => list'[d][i].deleted
      BY DEF Kept
    <2> QED BY <2>1, <2>2, <2>3, Numbers
  <1>2. CASE list[d][i].deleted
    BY <1>1, <1>2 DEF Gone
  <1>3. CASE list[d][i].file \notin files /\ list[d][i].file < time
    <2>1. list[d][i].file \notin files' /\ list[d][i].file < time'
      BY <1>1, <1>3
    <2> QED BY <1>1, <2>1 DEF Gone
  <1> QED BY <1>2, <1>3 DEF Gone

\* A step that moves no cursor.
LEMMA SearchesStay ==
  ASSUME IInv, IInv', SearchesKnown, UNCHANGED m_s32IdxOffset, time <= time',
         files' \subseteq files \cup {time},
         \A s \in Sessions : Active(s)' => search'[s] = search[s] /\ Kept(search[s].day)
  PROVE  SearchesKnown'
  <1>1. TypeOK /\ TypeOK'
    BY DEF IInv
  <1>2. \A s \in Sessions : Active(s)' => Active(s)
    BY DEF Active
  <1>3. ASSUME NEW s \in Sessions, Active(s)' PROVE Followed(s)'
    <2>1. PICK d \in Days : d = search[s].day
      BY <1>1, <1>2, <1>3, SearchParts DEF Active
    <2>2. search'[s] = search[s] /\ Kept(d)
      BY <1>3, <2>1
    <2>3. Len(list[d]) \in Nat /\ Len(list[d]) <= Len(list'[d]) /\ Len(list'[d]) \in Nat
      <3>1. list' \in [Days -> Seq(Item)]
        BY <1>1 DEF TypeOK
      <3>2. list'[d] \in Seq(Item)
        BY <3>1
      <3> QED BY <1>1, <2>2, <3>2, Numbers DEF Kept
    <2>4. /\ ~search[s].twice
          /\ \A i \in search[s].got : i < m_s32IdxOffset
          /\ search[s].due \subseteq 1..Len(list[d])
          /\ \A i \in search[s].due : i < m_s32IdxOffset => i \in search[s].got \/ Gone(d, i)
      BY <1>2, <1>3, <2>1 DEF SearchesKnown, Followed
    <2>5. \A i \in search[s].due : Gone(d, i) => Gone(d, i)'
      BY <1>1, <2>2, <2>4, GoneStays
    <2>6. search[s].due \subseteq 1..Len(list'[d])
      BY <2>3, <2>4
    <2> QED BY <2>1, <2>2, <2>4, <2>5, <2>6 DEF Followed, Gone
  <1> QED BY <1>2, <1>3 DEF SearchesKnown

\* An answer: the items before the cursor it leaves are got, or gone.
LEMMA SearchOnFollows ==
  ASSUME IInv, OrderKnown, SearchesKnown, NEW s \in Sessions, SearchOn(s)
  PROVE  SearchesKnown'
  <1> DEFINE d == search[s].day
             from == m_s32IdxOffset
             A == Answer(d, from, Batch)
             more == [search[s] EXCEPT !.got = @ \cup A,
                                       !.twice = @ \/ search[s].got \cap A # {}]
  <1>1. /\ TypeOK /\ d \in Days /\ from \in Nat /\ Batch \in Nat \ {0}
        /\ search[s] \in SearchRec /\ SearchStep /\ UNCHANGED list
        /\ m_s32IdxOffset' = CursorAfter(d, from, Batch)
        /\ search' = [Disturb(s) EXCEPT ![s] = IF Cardinality(A) < Batch THEN NoSearch ELSE more]
    BY SearchParts, FilesAssumption DEF IInv, SearchOn
  <1>2. UNCHANGED <<files, time, list>>
    BY <1>1 DEF SearchStep
  <1>3. ASSUME NEW t \in Sessions, t # s PROVE ~Active(t)'
    <2>1. search'[t] = [search[t] EXCEPT !.alone = FALSE]
      BY <1>1, <1>3 DEF Disturb
    <2>2. search[t] \in SearchRec
      BY <1>1, SearchParts
    <2>3. search'[t].alone = FALSE
      BY <2>1, <2>2 DEF SearchRec
    <2> QED BY <2>3 DEF Active
  <1>4. search'[s] = IF Cardinality(A) < Batch THEN NoSearch ELSE more
    BY <1>1 DEF Disturb
  <1>5. ASSUME Active(s)' PROVE Followed(s)'
    <2>1. search'[s] = more /\ ~(Cardinality(A) < Batch)
      BY <1>4, <1>5 DEF Active, NoSearch
    <2> HIDE DEF A
    <2>2. /\ search'[s].day = d /\ search'[s].got = search[s].got \cup A
          /\ search'[s].twice = (search[s].twice \/ search[s].got \cap A # {})
          /\ search'[s].due = search[s].due /\ search'[s].alone = search[s].alone
      <3>1. \A b \in BOOLEAN, g \in SUBSET Nat :
              LET r == [search[s] EXCEPT !.got = g, !.twice = b]
              IN  /\ r.day = d /\ r.got = g /\ r.twice = b /\ r.due = search[s].due
                  /\ r.alone = search[s].alone
        BY <1>1 DEF SearchRec
      <3>2. (search[s].twice \/ search[s].got \cap A # {}) \in BOOLEAN
        OBVIOUS
      <3>3. search[s].got \cup A \in SUBSET Nat
        <4>1. A \subseteq Nat
          BY <1>1, FoundType DEF A
        <4>2. search[s].got \subseteq Nat
          BY <1>1, SearchParts
        <4> QED BY <4>1, <4>2
      <3>4. search'[s] = [search[s] EXCEPT !.got = search[s].got \cup A,
                            !.twice = search[s].twice \/ search[s].got \cap A # {}]
        BY <2>1
      <3> QED BY <3>1, <3>2, <3>3, <3>4
    <2>3. Active(s)
      BY <1>5, <2>2 DEF Active
    <2>4. /\ ~search[s].twice
          /\ \A i \in search[s].got : i < from
          /\ search[s].due \subseteq 1..Len(list[d])
          /\ \A i \in search[s].due : i < from => i \in search[s].got \/ Gone(d, i)
      BY <2>3 DEF SearchesKnown, Followed
    <2>5. /\ Found(d) \subseteq 1..Len(list[d]) /\ Len(list[d]) \in Nat /\ A \subseteq Found(d)
          /\ \A i \in A : from <= i
          /\ Cardinality(A) \in Nat
      BY <1>1, AnswerType DEF A
    <2>6. PICK m \in A : /\ CursorAfter(d, from, Batch) = m + 1
                         /\ \A i \in A : i <= m
                         /\ \A i \in Found(d) : from <= i /\ i <= m => i \in A
      <3>1. Cardinality(A) >= Batch
        BY <1>1, <2>1, <2>5
      <3> QED BY <1>1, <3>1, FullAnswer DEF A
    <2>7. m \in 1..Len(list[d]) /\ from <= m /\ m_s32IdxOffset' = m + 1
      BY <1>1, <2>5, <2>6
    <2>8. search[s].got \cap A = {}
      <3>1. search[s].got \subseteq Nat
        BY <1>1, SearchParts
      <3> QED BY <1>1, <2>4, <2>5, <3>1
    <2>9. \A i \in search'[s].got : i < m + 1
      <3>1. search[s].got \subseteq Nat
        BY <1>1, SearchParts
      <3>2. \A i \in search[s].got : i < m + 1
        BY <1>1, <2>4, <2>7, <3>1
      <3>3. \A i \in A : i < m + 1
        BY <2>5, <2>6, <2>7
      <3> QED BY <2>2, <3>2, <3>3
    <2>10. ASSUME NEW i \in search[s].due, i < m + 1, i \notin search[s].got \cup A
           PROVE  Gone(d, i)
      <3>1. i \in 1..Len(list[d])
        BY <2>4
      <3>2. CASE i < from
        BY <2>4, <2>10, <3>2
      <3>3. CASE from <= i
        <4>1. i \notin Found(d)
          BY <2>6, <2>7, <2>10, <3>1, <3>3
        <4>2. HasList(d) /\ m \in Found(d) /\ list[d][m].file \in files
          BY <2>5, <2>6 DEF Found
        <4>3. list[d][i].deleted \/ list[d][i].file \notin files
          BY <3>1, <4>1, <4>2 DEF Found
        <4>4. list[d][i].file <= list[d][m].file /\ list[d][m].file <= time
          BY SMTT(60), <1>1, <2>7, <2>10, <3>1 DEF OrderKnown, InOrder, Upto
        <4>5. /\ list[d][i].file \in Int /\ list[d][m].file \in Int /\ time \in Int
          BY <1>1, <2>7, <3>1, Numbers
        <4>6. list[d][i].file \notin files => list[d][i].file < time
          BY <4>2, <4>4, <4>5
        <4> QED BY <4>3, <4>6 DEF Gone
      <3> QED BY <1>1, <3>1, <3>2, <3>3
    <2>11. \A i \in search'[s].due : i < m_s32IdxOffset' => i \in search'[s].got \/ Gone(d, i)
      BY <2>2, <2>7, <2>10
    <2>12. ~search'[s].twice /\ \A i \in search'[s].got : i < m_s32IdxOffset'
      BY <2>2, <2>4, <2>7, <2>8, <2>9
    <2>13. PICK e \in Days : e = d
      BY <1>1
    <2>14. \A i : Gone(e, i) => Gone(e, i)'
      BY <1>2 DEF Gone
    <2> QED BY <1>2, <2>2, <2>4, <2>11, <2>12, <2>13, <2>14 DEF Followed, Gone
  <1> QED BY <1>3, <1>5 DEF SearchesKnown

\* A search that begins has got nothing, and disturbs the others.
LEMMA BeginningFollows ==
  ASSUME IInv, IInv', NEW s \in Sessions, NEW d \in Days,
         SearchFromStart(s, d) \/ HaveRecordFile(s, d)
  PROVE  SearchesKnown'
  <1>1. TypeOK /\ TypeOK' /\ search[s] \in SearchRec
    BY SearchParts DEF IInv
  <1>2. /\ m_s32IdxOffset' \in Nat
        /\ \A t \in Sessions \ {s} : search'[t] = [search[t] EXCEPT !.alone = FALSE]
    <2>1. m_s32IdxOffset' \in Nat
      BY <1>1 DEF TypeOK
    <2> QED BY <2>1 DEF SearchFromStart, HaveRecordFile, Disturb
  <1>3. ASSUME NEW t \in Sessions, t # s PROVE ~Active(t)'
    <2>1. search'[t] = [search[t] EXCEPT !.alone = FALSE]
      BY <1>2, <1>3
    <2>2. search[t] \in SearchRec
      BY <1>1, SearchParts
    <2>3. search'[t].alone = FALSE
      BY <2>1, <2>2 DEF SearchRec
    <2> QED BY <2>3 DEF Active
  <1>4. CASE HaveRecordFile(s, d)
    <2>1. search'[s] = search[s] /\ search[s].day = NoDay
      BY <1>4 DEF HaveRecordFile, Disturb
    <2> QED BY <1>3, <2>1 DEF SearchesKnown, Active
  <1>5. CASE SearchFromStart(s, d)
    <2>1. /\ m_s32IdxOffset' = 1
          /\ search'[s] = [NoSearch EXCEPT !.day = d, !.due = Found(d)]
      BY <1>5 DEF SearchFromStart, Disturb
    <2>2. /\ search'[s].day = d /\ search'[s].due = Found(d) /\ search'[s].got = {}
          /\ ~search'[s].twice
      BY <2>1 DEF NoSearch
    <2>3. /\ Len(list[d]) \in Nat /\ Len(list'[d]) \in Nat /\ Len(list[d]) <= Len(list'[d])
          /\ Found(d) \subseteq 1..Len(list[d])
      <3>1. list \in [Days -> Seq(Item)] /\ list' \in [Days -> Seq(Item)]
        BY <1>1 DEF TypeOK
      <3>2. Len(list[d]) \in Nat /\ Len(list'[d]) \in Nat
        <4>1. list[d] \in Seq(Item) /\ list'[d] \in Seq(Item)
          BY <3>1
        <4> QED BY <4>1
      <3>3. Found(d) \subseteq 1..Len(list[d])
        BY <3>2 DEF Found
      <3>4. CASE BeingRecorded(d) /\ recFile \in files
        <4>1. Enlist(recFile, 1, events[recFile])
          BY <1>5, <3>4 DEF SearchFromStart
        <4>2. events[recFile] \in 0..MaxEvents /\ 1 <= events[recFile] + 1
          <5>1. recFile \in Times /\ events \in [Times -> 0..MaxEvents] /\ MaxEvents \in Nat
            BY <1>1, <3>4, FilesAssumption DEF TypeOK
          <5> QED BY <5>1
        <4>3. recFile \in files /\ 1 \in Nat \ {0} /\ InTheirDay
          BY <3>4 DEF IInv
        <4> QED BY <1>1, <3>2, <3>3, <4>1, <4>2, <4>3, EnlistKeeps
      <3>5. CASE ~(BeingRecorded(d) /\ recFile \in files)
        <4>1. UNCHANGED list
          BY <1>5, <3>5 DEF SearchFromStart
        <4> QED BY <3>2, <3>3, <4>1
      <3> QED BY <3>4, <3>5
    <2>4. search'[s].due \subseteq 1..Len(list'[d])
      BY <2>2, <2>3
    <2>5. \A i \in search'[s].due : ~(i < m_s32IdxOffset')
      BY <2>1, <2>2, <2>3
    <2>6. Followed(s)'
      BY <2>2, <2>4, <2>5 DEF Followed
    <2> QED BY <1>3, <2>6 DEF SearchesKnown
  <1> QED BY <1>4, <1>5

LEMMA NextSearches ==
  ASSUME IInv, IInv', OpenKnown, OrderKnown, SearchesKnown, [Next]_vars
  PROVE  SearchesKnown'
  <1>1. /\ TypeOK /\ TypeOK' /\ time \in Int /\ MaxEvents \in Nat
        /\ \A d \in Days : Len(list[d]) \in Nat
        /\ \A s \in Sessions : Active(s) => search[s].day \in Days
    <2>1. TypeOK /\ TypeOK'
      BY DEF IInv
    <2>2. time \in Int /\ \A d \in Days : Len(list[d]) \in Nat
      BY <2>1, Numbers
    <2>3. \A s \in Sessions : Active(s) => search[s].day \in Days
      BY <2>1, SearchParts DEF Active
    <2> QED BY <2>1, <2>2, <2>3, FilesAssumption
  <1>2. ASSUME UNCHANGED searchVars, time <= time', files' \subseteq files \cup {time},
               \A d \in Days : Kept(d)
        PROVE  SearchesKnown'
    <2>1. UNCHANGED <<m_s32IdxOffset, search>>
      BY <1>2 DEF searchVars
    <2>2. \A s \in Sessions : Active(s)' => search'[s] = search[s] /\ Kept(search[s].day)
      BY <1>1, <1>2, <2>1 DEF Active
    <2> QED BY <1>2, <2>1, <2>2, SearchesStay
  <1>3. ASSUME UNCHANGED list PROVE \A d \in Days : Kept(d)
    BY <1>1, <1>3 DEF Kept
  <1>4. ASSUME NEW f \in files, NEW from \in Nat \ {0}, NEW to \in 0..MaxEvents, from <= to + 1,
               Enlist(f, from, to)
        PROVE  \A d \in Days : Kept(d)
    <2>1. Grown(f, from, to)
      BY <1>1, <1>4, Enlisted
    <2>2. \A d \in Days : Len(list[d]) <= Len(list'[d])
      BY <1>1, <1>4, EnlistKeeps DEF IInv
    <2>3. ASSUME NEW d \in Days, NEW i \in 1..Len(list[d])
          PROVE  /\ list'[d][i].file = list[d][i].file
                 /\ list[d][i].deleted => list'[d][i].deleted
      <3>1. CASE d = DayOf(f)
        BY <2>1, <2>3, <3>1 DEF Grown
      <3>2. CASE d # DayOf(f)
        BY <2>1, <2>3, <3>2 DEF Grown
      <3> QED BY <3>1, <3>2
    <2> QED BY <2>2, <2>3 DEF Kept
  <1>5. CASE \/ OpenRecordFile \/ OpenFails \/ WriteRecordFile \/ CloseRecordFile
             \/ ClearRecordInfor
    <2>1. UNCHANGED <<list, searchVars, time>> /\ files' \subseteq files \cup {time}
      BY <1>5 DEF OpenRecordFile, OpenFails, NoDirectory, NoRecordFile, NoIndex, NoList,
                  WriteRecordFile, CloseRecordFile,
                  ClearRecordInfor, RecStep, diskVars
    <2> QED BY <1>1, <1>2, <1>3, <2>1
  <1>6. CASE AddOneEven2List
    <2> DEFINE e == events[recFile] - pending + 1
    <2>1. /\ rpc = "listing" /\ pending > 0 /\ Enlist(recFile, e, e)
          /\ UNCHANGED <<time, files, searchVars>>
      BY <1>6 DEF AddOneEven2List, RecStep
    <2>2. /\ recFile \in files /\ pending <= events[recFile]
          /\ pending \in 0..MaxEvents /\ events[recFile] \in 0..MaxEvents
      BY <1>1, <2>1 DEF IInv, RecorderKnows, TypeOK
    <2>3. e \in Nat \ {0} /\ e \in 0..MaxEvents /\ e <= e + 1
      BY <1>1, <2>1, <2>2
    <2> HIDE DEF e
    <2>4. \A d \in Days : Kept(d)
      BY <1>4, <2>1, <2>2, <2>3
    <2> QED BY <1>1, <1>2, <2>1, <2>4
  <1>7. CASE Cleaner
    <2>1. /\ UNCHANGED <<time, m_s32IdxOffset>> /\ files' \subseteq files
          /\ \A s \in Sessions : Active(s)' => search'[s] = search[s]
          /\ \A d \in Days :
               \/ Len(list'[d]) = Len(list[d]) /\ Kept(d)
               \/ Len(list'[d]) = 0 /\ \A s \in Sessions : Active(s)' => search[s].day # d
      BY <1>7, CleanerLeaves
    <2>2. ASSUME NEW s \in Sessions, Active(s)' PROVE Kept(search[s].day)
      <3>1. Active(s)
        BY <2>1, <2>2 DEF Active
      <3>2. PICK d \in Days : d = search[s].day
        BY <1>1, <3>1
      <3> QED BY <2>1, <2>2, <3>2
    <2> QED BY <1>1, <2>1, <2>2, SearchesStay
  <1>8. CASE \E s \in Sessions, d \in Days : SearchFromStart(s, d) \/ HaveRecordFile(s, d)
    BY <1>8, BeginningFollows
  <1>9. CASE \E s \in Sessions : SearchOn(s)
    BY <1>9, SearchOnFollows
  <1>10. CASE Tick \/ StopRecordSystem \/ StartRecordSystem \/ RepairDone \/ UNCHANGED vars
    <2>1. /\ UNCHANGED <<list, searchVars, files>> /\ time' \in {time, time + 1}
      BY <1>10 DEF Tick, StopRecordSystem, StartRecordSystem, RepairDone, vars, diskVars
    <2> QED BY <1>1, <1>2, <1>3, <2>1
  <1>11. CASE Crash
    <2>1. \A s \in Sessions : search'[s].day = NoDay
      BY <1>11 DEF Crash, NoSearch
    <2> QED BY <2>1 DEF SearchesKnown, Active
  <1>12. ASSUME NEW f \in m_bNonStop, RepairFile(f) PROVE SearchesKnown'
    <2>1. Enlist(f, 1, events[f]) /\ UNCHANGED <<time, files, searchVars>>
      BY <1>12 DEF RepairFile
    <2>2. f \in files /\ events[f] \in 0..MaxEvents /\ 1 <= events[f] + 1 /\ 1 \in Nat \ {0}
      <3>1. f \in files /\ events[f] \in 0..MaxEvents
        BY <1>1 DEF TypeOK
      <3> QED BY <1>1, <3>1
    <2>3. \A d \in Days : Kept(d)
      BY <1>4, <2>1, <2>2
    <2> QED BY <1>1, <1>2, <2>1, <2>3
  <1> QED BY <1>5, <1>6, <1>7, <1>8, <1>9, <1>10, <1>11, <1>12 DEF Next

\* The last answer of a search that was alone.
LEMMA LastAnswerCompletes ==
  ASSUME IInv, SearchesKnown, [Next]_vars, NEW s \in Sessions,
         search[s].day # NoDay, search'[s].day = NoDay, rpc' # "down", search[s].alone
  PROVE  LET d == search[s].day
             last == Answer(d, m_s32IdxOffset, Batch)
         IN  /\ search[s].due \cap Found(d) \subseteq search[s].got \cup last
             /\ ~search[s].twice /\ search[s].got \cap last = {}
  <1> DEFINE d == search[s].day
             from == m_s32IdxOffset
             last == Answer(d, from, Batch)
  <1>1. /\ TypeOK /\ d \in Days /\ from \in Nat /\ Batch \in Nat
        /\ \A t \in Sessions : search[t] \in SearchRec
        /\ search[s].got \subseteq Nat /\ search[s].due \subseteq Nat
    BY SearchParts, FilesAssumption DEF IInv
  <1>2. /\ ~search[s].twice
        /\ \A i \in search[s].got : i < from
        /\ \A i \in search[s].due : i < from => i \in search[s].got \/ Gone(d, i)
    BY DEF SearchesKnown, Followed, Active
  <1>3. SearchOn(s) /\ Cardinality(last) < Batch
    <2>1. CASE \E t \in Sessions : SearchOn(t)
      <3>1. PICK t \in Sessions : SearchOn(t)
        BY <2>1
      <3>2. t = s
        <4>1. t # s => search'[s] = [search[s] EXCEPT !.alone = FALSE]
          BY <3>1 DEF SearchOn, Disturb
        <4>2. t # s => search'[s].day = search[s].day
          BY <1>1, <4>1 DEF SearchRec
        <4> QED BY <4>2
      <3>3. Cardinality(last) < Batch
        <4>1. search' = [Disturb(s) EXCEPT ![s] =
                           IF Cardinality(last) < Batch THEN NoSearch
                           ELSE [search[s] EXCEPT !.got = @ \cup last,
                                                 !.twice = @ \/ search[s].got \cap last # {}]]
          BY <3>1, <3>2 DEF SearchOn
        <4> HIDE DEF last
        <4>2. ASSUME ~(Cardinality(last) < Batch) PROVE search'[s].day = search[s].day
          <5>1. s \in DOMAIN Disturb(s)
            BY DEF Disturb
          <5>2. search'[s] = [search[s] EXCEPT !.got = @ \cup last,
                                               !.twice = @ \/ search[s].got \cap last # {}]
            BY <4>1, <4>2, <5>1
          <5> QED BY <1>1, <5>2 DEF SearchRec
        <4> QED BY <4>2
      <3> QED BY <3>1, <3>2, <3>3
    <2>2. CASE \E t \in Sessions, e \in Days : SearchFromStart(t, e) \/ HaveRecordFile(t, e)
      <3>1. PICK t \in Sessions, e \in Days : SearchFromStart(t, e) \/ HaveRecordFile(t, e)
        BY <2>2
      <3>2. t # s /\ search'[s] = [search[s] EXCEPT !.alone = FALSE]
        <4>1. CASE HaveRecordFile(t, e)
          BY <4>1 DEF HaveRecordFile, Disturb
        <4>2. CASE SearchFromStart(t, e)
          BY <4>2 DEF SearchFromStart, Disturb
        <4> QED BY <3>1, <4>1, <4>2
      <3>3. search'[s].day = search[s].day
        BY <1>1, <3>2 DEF SearchRec
      <3> QED BY <3>3
    <2>3. CASE DelEntry
      <3>1. \/ UNCHANGED search
            \/ search'[s] = [search[s] EXCEPT !.alone = @ /\ search[s].day # cday]
        BY <2>3 DEF DelEntry
      <3>2. search'[s].day = search[s].day
        BY <1>1, <3>1 DEF SearchRec
      <3> QED BY <3>2
    <2>4. CASE UNCHANGED search
      BY <2>4
    <2>5. CASE Crash
      BY <2>5 DEF Crash
    <2>6. \/ (\E t \in Sessions : SearchOn(t))
          \/ (\E t \in Sessions, e \in Days : SearchFromStart(t, e) \/ HaveRecordFile(t, e))
          \/ DelEntry \/ UNCHANGED search \/ Crash
      BY DEF Next, Tick, OpenRecordFile, OpenFails, NoDirectory, NoRecordFile, NoIndex,
             NoList, diskVars, WriteRecordFile, CloseRecordFile,
             AddOneEven2List, ClearRecordInfor, RecStep, Cleaner, DelOldRecord, SkipItem,
             DeleteFile, MarkItem, EndOfList, RemoveDir, StopRecordSystem, StartRecordSystem,
             RepairFile, RepairDone, searchVars, vars
    <2> QED BY <2>1, <2>2, <2>3, <2>4, <2>5, <2>6
  <1>4. \A i \in Found(d) : from <= i => i \in last
    BY <1>1, <1>3, LastAnswer
  <1>5. \A i \in Found(d) : ~Gone(d, i)
    BY DEF Found, Gone
  <1>6. \A i \in last : from <= i /\ i \in Nat
    BY <1>1, AnswerType, FoundType
  <1> HIDE DEF last
  <1>7. search[s].due \cap Found(d) \subseteq search[s].got \cup last
    BY <1>1, <1>2, <1>4, <1>5
  <1>8. search[s].got \cap last = {}
    BY <1>1, <1>2, <1>6
  <1> QED BY <1>2, <1>7, <1>8 DEF last

\* A search that is alone with its list finds all that there was when it began
\* and still is, and nothing twice, however the recorder and the cleaner change
\* list and disk between its answers: a list is in the order of its hours, an
\* item keeps its place, and a file that is gone does not come back.
THEOREM SearchFindsAll == Spec => SearchComplete
  <1>1. Init => OpenKnown /\ OrderKnown /\ SearchesKnown
    <2> SUFFICES ASSUME Init PROVE OpenKnown /\ OrderKnown /\ SearchesKnown
      OBVIOUS
    <2>1. OpenKnown
      BY DEF Init, OpenKnown, OpenFilesAreOld
    <2>2. \A d \in Days : Len(list[d]) = 0
      BY DEF Init
    <2>3. startDay <= Today
      <3>1. time \in Times /\ DayOf(time) \in Days /\ Days = 1..Len(Order) /\ startDay = 1
        BY DayType DEF Init
      <3> QED BY <3>1 DEF Today
    <2>4. OrderKnown
      BY <2>2, <2>3 DEF Init, OrderKnown, InOrder, Upto
    <2>5. SearchesKnown
      BY DEF Init, NoSearch, SearchesKnown, Active
    <2> QED BY <2>1, <2>4, <2>5
  <1>2. IInv /\ IInv' /\ OpenKnown /\ OrderKnown /\ SearchesKnown /\ [Next]_vars
          => OpenKnown' /\ OrderKnown' /\ SearchesKnown'
    BY NextOpenKnown, NextOrder, NextSearches
  <1>3. Spec => [](IInv /\ OpenKnown /\ OrderKnown /\ SearchesKnown)
    BY <1>1, <1>2, InitIInv, NextIInv, PTL DEF Spec
  <1>4. IInv /\ SearchesKnown /\ [Next]_vars =>
          \A s \in Sessions :
            (/\ search[s].day # NoDay /\ search'[s].day = NoDay /\ rpc' # "down"
             /\ search[s].alone)
            => LET d == search[s].day
                   last == Answer(d, m_s32IdxOffset, Batch)
               IN  /\ search[s].due \cap Found(d) \subseteq search[s].got \cup last
                   /\ ~search[s].twice /\ search[s].got \cap last = {}
    BY LastAnswerCompletes
  <1> QED BY <1>3, <1>4, PTL DEF Spec, SearchComplete

=============================================================================
