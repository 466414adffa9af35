---------------------------- MODULE RecordFiles ----------------------------
(***************************************************************************)
(* The files on the disk (record/RecordManage.cpp): a directory for each   *)
(* day, in it a 264 file for each hour and the list that clients search.   *)
(* The recorder opens and closes the file of the hour and lists its        *)
(* events; when space runs out the cleaner (DelOldRecord) deletes the      *)
(* files of the oldest day in the order of its list, and the directory     *)
(* when it is through with the list; sessions page through a day's list    *)
(* with one cursor between them; a crash may come at any moment, and the   *)
(* next start repairs the files of the day (fixNotCloseFile).              *)
(*                                                                         *)
(* The cleaner runs in the control thread, which waits while the recorder  *)
(* opens or closes (RecordCtrl); RecordIndex has what is inside a file and *)
(* how an event gets into a list.  A file is the number of its hour since  *)
(* the first day, an item of a list the file it names.                     *)
(***************************************************************************)
EXTENDS Integers, Sequences, FiniteSets

CONSTANTS
  DayHours,        \* hours, and so files, of a day
  Order,           \* getYearMonthDay of each day: the days are 1, 2, ...
  Capacity,        \* files after which space is short (START_DEL_FILE)
  Sessions,        \* that search
  Batch,           \* items of one answer (DISPLAY_MAX_NUM)
  MaxEvents,       \* bound: events of one file
  Bounds           \* bounds: how often each thing of Chances may happen

Chances == {"open", "event", "fail", "stop", "crash", "search"}
Days == DOMAIN Order

ASSUME FilesAssumption ==
  /\ DayHours \in Nat \ {0} /\ Capacity \in Nat /\ Batch \in Nat \ {0}
  /\ MaxEvents \in Nat
  /\ Order \in Seq(Nat) \ {<<>>}
  /\ \A d \in Days, e \in Days : d < e => Order[d] <= Order[e]
  /\ Bounds \subseteq [Chances -> Nat]

VARIABLES
  time,            \* the hour the clock shows
  dirs, files,     \* directories and 264 files there are
  m_bNonStop,      \* files whose header says that they are being written
  lists, list,     \* days with a list of events; what is in it
  events,          \* events in the index of each file
  rpc, recFile,    \* the recorder; the file m_264FileName names
  pending,         \* events it has still to list
  cpc, cday, cpos, \* the cleaner, its day, its place in the list
  cfile, cmust,    \* the file it has just deleted; what DelDir has still to
                   \* unlink: the files of the day, and its list
  m_s32IdxOffset,  \* where the next search answer begins
  search,          \* the searches: what each has got, whether it got anything
                   \* twice, what there was to get, whether it was disturbed
  left,            \* how often each chance may still come
  startDay,        \* the day fixNotCloseFile looks at
  excused          \* history: files that a crash, a deletion or their
                   \* shortness left without an item

diskVars == <<dirs, files, m_bNonStop, lists, list, events>>
recVars == <<rpc, recFile, pending>>
cleanVars == <<cpc, cday, cpos, cfile, cmust>>
searchVars == <<m_s32IdxOffset, search>>
vars == <<time, diskVars, recVars, cleanVars, searchVars, left, startDay, excused>>

-----------------------------------------------------------------------------
Times == 0..(DayHours * Len(Order) - 1)
NoFile == -1
TheList == -2                        \* the list among the entries of a directory
NoDay == 0
DayOf(f) == (f \div DayHours) + 1
FilesOf(d) == {f \in files : DayOf(f) = d}
HasList(d) == d \in lists
Entries(d) == FilesOf(d) \cup (IF HasList(d) THEN {TheList} ELSE {})
Item == [file : Times, event : 1..MaxEvents, deleted : BOOLEAN]
NoSearch == [day |-> NoDay, got |-> {}, twice |-> FALSE, due |-> {}, alone |-> TRUE]

TypeOK ==
  /\ time \in Times
  /\ dirs \subseteq Days /\ files \subseteq Times
  /\ m_bNonStop \subseteq files /\ {DayOf(f) : f \in files} \subseteq dirs
  /\ lists \subseteq dirs /\ list \in [Days -> Seq(Item)]
  /\ events \in [Times -> 0..MaxEvents]
  /\ rpc \in {"stopped", "recording", "listing", "failed", "down", "repair"}
  /\ recFile \in Times \cup {NoFile} /\ pending \in 0..MaxEvents
  /\ cpc \in {"idle", "scan", "mark", "deldir"} /\ cday \in Days \cup {NoDay}
  /\ cpos \in Nat /\ cfile \in Times \cup {NoFile}
  /\ cmust \subseteq Times \cup {TheList}
  /\ m_s32IdxOffset \in Nat
  /\ search \in [Sessions -> [day : Days \cup {NoDay}, got : SUBSET Nat,
                              twice : BOOLEAN, due : SUBSET Nat, alone : BOOLEAN]]
  /\ left \in [Chances -> Nat]
  /\ startDay \in Days /\ excused \subseteq Times

Init ==
  /\ time = 0
  /\ dirs = {} /\ files = {} /\ m_bNonStop = {} /\ lists = {}
  /\ list = [d \in Days |-> <<>>] /\ events = [f \in Times |-> 0]
  /\ rpc = "stopped" /\ recFile = NoFile /\ pending = 0
  /\ cpc = "idle" /\ cday = NoDay /\ cpos = 1 /\ cfile = NoFile
  /\ cmust = {}
  /\ m_s32IdxOffset = 1 /\ search = [s \in Sessions |-> NoSearch]
  /\ left \in Bounds /\ startDay = 1 /\ excused = {}

Spend(what) ==
  /\ left[what] > 0
  /\ left' = [left EXCEPT ![what] = @ - 1]

Tick ==
  /\ time + 1 \in Times /\ time' = time + 1
  /\ UNCHANGED <<diskVars, recVars, cleanVars, searchVars, left, startDay, excused>>

-----------------------------------------------------------------------------
(* The recorder.                                                           *)

RecStep(from, to) ==
  /\ rpc = from /\ rpc' = to
  /\ cpc = "idle"                    \* the control thread waits
  /\ UNCHANGED <<time, cleanVars, searchVars, startDay>>

Today == DayOf(time)

OpenRecordFile ==
  /\ RecStep("stopped", "recording") /\ Spend("open")
  /\ recFile' = time
  /\ dirs' = dirs \cup {Today} /\ files' = files \cup {time}
  /\ m_bNonStop' = m_bNonStop \cup {time}
  /\ lists' = lists \cup {Today}
  /\ excused' = excused \ {time}
  /\ UNCHANGED <<list, events, pending>>

\* Nobody looks at what OpenRecordFile answers.  Without a directory no file is
\* named, without file or index the name stays, for CloseRecordFile fails as
\* well; either way the next I frame cannot be written, which ends recording.
NoDirectory ==
  /\ RecStep("stopped", "failed") /\ Spend("fail")
  /\ UNCHANGED <<diskVars, recFile, pending, excused>>

NoRecordFile ==
  /\ RecStep("stopped", "failed") /\ Spend("fail")
  /\ recFile' = time /\ dirs' = dirs \cup {Today}
  /\ UNCHANGED <<files, m_bNonStop, lists, list, events, pending, excused>>

\* An index whose header cannot be written is unlinked.
NoIndex ==
  /\ RecStep("stopped", "failed") /\ Spend("fail")
  /\ recFile' = time
  /\ dirs' = dirs \cup {Today} /\ files' = files \cup {time}
  /\ m_bNonStop' = m_bNonStop \cup {time}
  /\ events' \in {events, [events EXCEPT ![time] = 0]}
  /\ excused' = excused \ {time}
  /\ UNCHANGED <<lists, list, pending>>

\* A list that cannot be made keeps nothing from being recorded: it is made
\* with the first event.
NoList ==
  /\ RecStep("stopped", "recording") /\ Spend("fail")
  /\ Today \notin lists
  /\ recFile' = time
  /\ dirs' = dirs \cup {Today} /\ files' = files \cup {time}
  /\ m_bNonStop' = m_bNonStop \cup {time}
  /\ excused' = excused \ {time}
  /\ UNCHANGED <<lists, list, events, pending>>

OpenFails == NoDirectory \/ NoRecordFile \/ NoIndex \/ NoList

\* The index of the file shows one event more.
WriteRecordFile ==
  /\ RecStep("recording", "recording") /\ recFile \in files
  /\ events[recFile] < MaxEvents /\ Spend("event")
  /\ events' = [events EXCEPT ![recFile] = @ + 1]
  /\ UNCHANGED <<dirs, files, m_bNonStop, lists, list, recFile, pending, excused>>

\* The end of the file's hour, an error, or nothing to record.  A file that
\* the cleaner has deleted meanwhile cannot be opened to write its header.
CloseRecordFile ==
  /\ UNCHANGED <<dirs, files, lists, list, events, left>>
  /\ IF recFile \in files
     THEN /\ RecStep("recording", "listing")
          /\ m_bNonStop' = m_bNonStop \ {recFile}
          /\ pending' = events[recFile]
          /\ excused' = IF events[recFile] = 0 THEN excused \cup {recFile} ELSE excused
          /\ UNCHANGED recFile
     ELSE /\ RecStep("recording", "stopped")
          /\ recFile' = NoFile
          /\ UNCHANGED <<m_bNonStop, pending, excused>>

\* The list of f's day when some of f's events are put in: they replace those
\* that began as they did.
WithEvents(f, from, to) ==
  [i \in 1..Len(list[DayOf(f)]) |->
     IF list[DayOf(f)][i].file = f /\ list[DayOf(f)][i].event \in from..to
     THEN [list[DayOf(f)][i] EXCEPT !.deleted = TRUE] ELSE list[DayOf(f)][i]]
  \o [i \in 1..(to - from + 1) |->
        [file |-> f, event |-> from + i - 1, deleted |-> FALSE]]

Enlist(f, from, to) ==
  /\ list' = [list EXCEPT ![DayOf(f)] = WithEvents(f, from, to)]
  /\ lists' = IF from <= to THEN lists \cup {DayOf(f)} ELSE lists

AddOneEven2List ==
  /\ RecStep("listing", "listing") /\ pending > 0
  /\ LET e == events[recFile] - pending + 1
     IN  Enlist(recFile, e, e)
  /\ pending' = pending - 1
  /\ UNCHANGED <<dirs, files, m_bNonStop, events, recFile, left, excused>>

ClearRecordInfor ==
  /\ RecStep("listing", "stopped") /\ pending = 0
  /\ recFile' = NoFile
  /\ UNCHANGED <<diskVars, pending, left, excused>>

-----------------------------------------------------------------------------
(* The cleaner: CheckHdd, once a second.                                   *)

CleanStep(from) ==
  /\ cpc = from /\ rpc \in {"stopped", "recording", "failed"}
  /\ UNCHANGED <<time, recVars, m_s32IdxOffset, left, startDay>>

Low == Cardinality(files) > Capacity
OldestRead(d) == d \in dirs          \* fault: the directory that was read last
Oldest(d) == d \in dirs /\ \A e \in dirs : Order[d] <= Order[e]

\* getOldRecordDir.  A day without a list is given up again.
DelOldRecord(d) ==
  /\ CleanStep("idle") /\ Low
  /\ Oldest(d) /\ HasList(d)
  /\ cpc' = "scan" /\ cday' = d /\ cpos' = 1
  /\ UNCHANGED <<diskVars, search, cfile, cmust, excused>>

AtEnd == cpos > Len(list[cday])
Here == list[cday][cpos]
\* fault: the file that is being recorded is not known
SkippedWhenGone == Here.deleted \/ Here.file \notin files
Skipped == Here.deleted \/ Here.file = recFile \/ Here.file \notin files

SkipItem ==
  /\ CleanStep("scan") /\ ~AtEnd /\ Skipped
  /\ cpos' = cpos + 1
  /\ UNCHANGED <<diskVars, search, cpc, cday, cfile, cmust, excused>>

DeleteFile ==                        \* its index stays
  /\ CleanStep("scan") /\ ~AtEnd /\ ~Skipped
  /\ cpc' = "mark" /\ cfile' = Here.file
  /\ files' = files \ {Here.file} /\ m_bNonStop' = m_bNonStop \ {Here.file}
  /\ UNCHANGED <<search, dirs, lists, list, events, cday, cpos, cmust, excused>>

\* DelDir reads the directory: what there is it will come to.
BeginDelDir == cpc' = "deldir" /\ cmust' = Entries(cday)

\* fault: not moved back over the item that was read, the next is marked
MarkItemAhead(enough) ==
  /\ CleanStep("mark")
  /\ list' = [list EXCEPT ![cday][IF cpos < Len(list[cday]) THEN cpos + 1
                                ELSE cpos].deleted = TRUE]
  /\ IF cpos = Len(list[cday])
     THEN BeginDelDir /\ UNCHANGED cpos
     ELSE /\ UNCHANGED cmust
          /\ IF list[cday][cpos + 1].file = cfile
             THEN cpc' = "mark" /\ cpos' = cpos + 1
             ELSE /\ cpc' = IF enough THEN "idle" ELSE "scan"
                  /\ cpos' = cpos + 2
  /\ UNCHANGED <<search, dirs, files, m_bNonStop, lists, events, cday, cfile, excused>>

\* The items that follow with the same name are marked with the first; then
\* enough has been deleted, or the loop goes on, one item further.
MarkItem(enough) ==
  /\ CleanStep("mark")
  /\ list' = [list EXCEPT ![cday][cpos].deleted = TRUE]
  /\ IF cpos = Len(list[cday])
     THEN BeginDelDir /\ UNCHANGED cpos
     ELSE /\ UNCHANGED cmust
          /\ IF list[cday][cpos + 1].file = cfile
             THEN cpc' = "mark" /\ cpos' = cpos + 1
             ELSE /\ cpc' = IF enough THEN "idle" ELSE "scan"
                  /\ cpos' = cpos + 2
  /\ UNCHANGED <<search, dirs, files, m_bNonStop, lists, events, cday, cfile, excused>>

EndOfListOnly ==                     \* fault: the directory is left
  /\ CleanStep("scan") /\ AtEnd
  /\ cpc' = "idle"
  /\ UNCHANGED <<diskVars, search, cday, cpos, cfile, cmust, excused>>

EndOfList ==
  /\ CleanStep("scan") /\ AtEnd
  /\ BeginDelDir
  /\ UNCHANGED <<diskVars, search, cday, cpos, cfile, excused>>

\* A file goes with its index.
DelEntry ==
  /\ CleanStep("deldir")
  /\ \E e \in Entries(cday) :
       /\ cmust' = cmust \ {e}
       /\ files' = files \ {e} /\ m_bNonStop' = m_bNonStop \ {e}
       /\ events' = [f \in Times |-> IF f = e THEN 0 ELSE events[f]]
       /\ IF e = TheList
          THEN /\ lists' = lists \ {cday} /\ list' = [list EXCEPT ![cday] = <<>>]
               /\ excused' = excused \cup FilesOf(cday)
               /\ search' = [s \in Sessions |->
                                [search[s] EXCEPT !.alone = @ /\ search[s].day # cday]]
          ELSE UNCHANGED <<lists, list, excused, search>>
  /\ UNCHANGED <<dirs, cpc, cday, cpos, cfile>>

\* fault: the directory is taken for empty
RemoveDirKnown ==
  /\ CleanStep("deldir") /\ cmust = {}
  /\ dirs' = dirs \ {cday}
  /\ events' = [f \in Times |-> IF DayOf(f) = cday THEN 0 ELSE events[f]]
  /\ cpc' = "idle"
  /\ UNCHANGED <<search, files, m_bNonStop, lists, list, cday, cpos, cfile, cmust, excused>>

\* A list that a search has made again behind DelDir's back keeps the
\* directory: rmdir fails, which is not looked at.
RemoveDir ==
  /\ CleanStep("deldir") /\ cmust = {}
  /\ dirs' = IF Entries(cday) = {} THEN dirs \ {cday} ELSE dirs
  /\ events' = [f \in Times |-> IF DayOf(f) = cday THEN 0 ELSE events[f]]
  /\ cpc' = "idle"
  /\ UNCHANGED <<search, files, m_bNonStop, lists, list, cday, cpos, cfile, cmust, excused>>

Cleaner ==
  \/ \E d \in Days : DelOldRecord(d)
  \/ SkipItem \/ DeleteFile \/ (\E b \in BOOLEAN : MarkItem(b)) \/ EndOfList
  \/ DelEntry \/ RemoveDir

-----------------------------------------------------------------------------
(* A session's search: FindRecordFile, called until an answer is not full. *)

Found(d) ==
  IF HasList(d)
  THEN {i \in 1..Len(list[d]) : ~list[d][i].deleted /\ list[d][i].file \in files}
  ELSE {}

\* At most max of them, from the cursor on.
Answer(d, from, max) ==
  {i \in Found(d) : /\ from <= i
                   /\ Cardinality({j \in Found(d) : from <= j /\ j <= i}) <= max}

\* Where the cursor is left: behind a full answer, or at the end of the list.
\* A list that cannot be opened leaves it.
CursorAfter(d, from, max) ==
  IF ~HasList(d) THEN from
  ELSE IF Cardinality(Answer(d, from, max)) < max THEN Len(list[d]) + 1
  ELSE Cardinality({i \in 1..Len(list[d]) : \E j \in Answer(d, from, max) : i <= j}) + 1

SearchStep ==
  UNCHANGED <<time, dirs, files, m_bNonStop, events, recVars, cleanVars, startDay,
              excused>>

Disturb(s) ==                         \* the other searches
  [t \in Sessions |-> IF t = s THEN search[t] ELSE [search[t] EXCEPT !.alone = FALSE]]

\* REC_SEARCH_SET.  When the day is being recorded the events of the file so
\* far are put into the list first.
BeingRecorded(d) == recFile # NoFile /\ DayOf(recFile) = d

SearchFromStart(s, d) ==
  /\ search[s].day = NoDay /\ Spend("search") /\ SearchStep
  /\ IF BeingRecorded(d) /\ recFile \in files
     THEN Enlist(recFile, 1, events[recFile]) ELSE UNCHANGED <<lists, list>>
  /\ m_s32IdxOffset' = 1
  /\ search' = [Disturb(s) EXCEPT ![s] =
                  [NoSearch EXCEPT !.day = d, !.due = Found(d)]]

\* fault: each answer begins behind the items of the one before, not at the
\* place it came to
SearchOnByCount(s) ==
  LET d == search[s].day
      answer == Answer(d, m_s32IdxOffset, Batch)
  IN /\ d # NoDay /\ SearchStep
     /\ m_s32IdxOffset' = m_s32IdxOffset + Batch
     /\ search' = [Disturb(s) EXCEPT ![s] =
                     IF Cardinality(answer) < Batch THEN NoSearch
                     ELSE [search[s] EXCEPT !.got = @ \cup answer,
                                           !.twice = @ \/ search[s].got \cap answer # {}]]
     /\ UNCHANGED <<lists, list, left>>

\* The answer, and if it is full the next one: REC_SEARCH_NEXT.
SearchOn(s) ==
  LET d == search[s].day
      answer == Answer(d, m_s32IdxOffset, Batch)
  IN /\ d # NoDay /\ SearchStep
     /\ m_s32IdxOffset' = CursorAfter(d, m_s32IdxOffset, Batch)
     /\ search' = [Disturb(s) EXCEPT ![s] =
                     IF Cardinality(answer) < Batch THEN NoSearch
                     ELSE [search[s] EXCEPT !.got = @ \cup answer,
                                           !.twice = @ \/ search[s].got \cap answer # {}]]
     /\ UNCHANGED <<lists, list, left>>

\* Is there anything of that day?  The question moves the same cursor.
HaveRecordFile(s, d) ==
  /\ search[s].day = NoDay /\ Spend("search") /\ SearchStep
  /\ ~BeingRecorded(d)
  /\ m_s32IdxOffset' = CursorAfter(d, 1, 1)
  /\ search' = Disturb(s)
  /\ UNCHANGED <<lists, list>>

-----------------------------------------------------------------------------
(* The end of the recorder, and its start.                                 *)

\* InitRecordManage forgets the file that is open.
StopRecordSystem ==
  /\ rpc \in {"stopped", "recording", "failed"} /\ cpc = "idle" /\ Spend("stop")
  /\ rpc' = "down" /\ recFile' = NoFile /\ pending' = 0
  /\ UNCHANGED <<time, diskVars, cleanVars, searchVars, startDay, excused>>

Crash ==
  /\ rpc # "down" /\ Spend("crash")
  /\ rpc' = "down" /\ recFile' = NoFile /\ pending' = 0
  /\ cpc' = "idle" /\ cday' = NoDay /\ cpos' = 1 /\ cfile' = NoFile
  /\ cmust' = {}
  /\ m_s32IdxOffset' = 1 /\ search' = [s \in Sessions |-> NoSearch]
  /\ excused' = IF rpc = "listing" THEN excused \cup {recFile} ELSE excused
  /\ UNCHANGED <<time, diskVars, startDay>>

StartRecordSystem ==
  /\ rpc = "down" /\ rpc' = "repair"
  /\ startDay' = Today
  /\ UNCHANGED <<time, diskVars, recFile, pending, cleanVars, searchVars, left, excused>>

\* fixNotCloseFile: the events first, then the header.
RepairFile(f) ==
  /\ rpc = "repair" /\ f \in m_bNonStop /\ DayOf(f) = startDay
  /\ Enlist(f, 1, events[f])
  /\ excused' = IF events[f] = 0 THEN excused \cup {f} ELSE excused
  /\ m_bNonStop' = m_bNonStop \ {f}
  /\ UNCHANGED <<time, dirs, files, events, recVars, cleanVars, searchVars, left,
                 startDay>>

\* fault: the first file that is found ends the repair
RepairEndsEarly ==
  /\ rpc = "repair" /\ rpc' = "stopped"
  /\ UNCHANGED <<time, diskVars, recFile, pending, cleanVars, searchVars, left,
                 startDay, excused>>

RepairDone ==
  /\ rpc = "repair" /\ \A f \in m_bNonStop : DayOf(f) # startDay
  /\ rpc' = "stopped"
  /\ UNCHANGED <<time, diskVars, recFile, pending, cleanVars, searchVars, left,
                 startDay, excused>>

Next ==
  \/ Tick
  \/ OpenRecordFile \/ OpenFails \/ WriteRecordFile \/ CloseRecordFile
  \/ AddOneEven2List \/ ClearRecordInfor
  \/ Cleaner
  \/ \E s \in Sessions, d \in Days : SearchFromStart(s, d) \/ HaveRecordFile(s, d)
  \/ \E s \in Sessions : SearchOn(s)
  \/ StopRecordSystem \/ Crash \/ StartRecordSystem
  \/ \E f \in m_bNonStop : RepairFile(f)
  \/ RepairDone

\* The control thread comes round once a second, the data thread ends what it
\* began, a start does its repairs; clients, stops and crashes owe nothing.
Fairness ==
  /\ WF_vars(Cleaner)
  /\ WF_vars(AddOneEven2List \/ ClearRecordInfor)
  /\ WF_vars(RepairDone \/ \E f \in m_bNonStop : RepairFile(f))

Spec == Init /\ [][Next]_vars /\ Fairness

-----------------------------------------------------------------------------
(* Every file that was closed, or repaired, can be found in the list of its
   day.  Not so a file that was too short, one that a crash met while it was
   being closed, and one whose day lost its list. *)
ClosedIsListed ==
  \A f \in files \ (m_bNonStop \cup excused) :
    \/ rpc = "listing" /\ f = recFile
    \/ /\ HasList(DayOf(f))
       /\ \E i \in 1..Len(list[DayOf(f)]) :
            list[DayOf(f)][i].file = f /\ ~list[DayOf(f)][i].deleted

(* A start repairs every file of its day that was left open; only files of
   days before it stay open beside the one that is being recorded.  (The clock
   is right at every start here and never goes back: a start on an earlier or
   a wrong day, as after a reset of the clock, repairs that day's files.) *)
OpenFilesAreOld ==
  rpc \notin {"down", "repair"}
    => \A f \in m_bNonStop : f = recFile \/ DayOf(f) < startDay

(* The cleaner deletes no file while there is a directory of an earlier day,
   the day on which a month ends excepted: getYearMonthDay gives it the
   number of the next. *)
OldestDayFirst ==
  [][\A f \in files \ files' : \A e \in dirs :
       e < DayOf(f) => Order[e] = Order[DayOf(f)]]_vars

(* The file that is being recorded goes only with its whole directory, and
   while that is the oldest: no file of any other day goes with it.  (The
   directory goes when the cleaner comes to the end of its list, however much
   it has freed by then.) *)
RecordedFileLast ==
  [][(recFile \in files \ files')
       => cpc = "deldir" /\ cday = DayOf(recFile) /\ Oldest(cday)]_vars

(* The cleaner passes over the file that is being recorded. *)
RecordedFileStays == [][~(recFile \in files \ files')]_vars

(* A search during which no other asks, and the list is not deleted, finds
   every item that was there when it began and still is, and none twice. *)
SearchComplete ==
  [][\A s \in Sessions :
       (/\ search[s].day # NoDay /\ search'[s].day = NoDay /\ rpc' # "down"
        /\ search[s].alone)
       => LET d == search[s].day
              last == Answer(d, m_s32IdxOffset, Batch)
          IN  /\ search[s].due \cap Found(d) \subseteq search[s].got \cup last
              /\ ~search[s].twice /\ search[s].got \cap last = {}]_vars

(* When space is short the cleaner frees some, as long as the recorder is not
   down, unless the oldest directory has no list: that one it can neither
   clean nor pass over. *)
Blocked == \E d \in dirs : Oldest(d) /\ ~HasList(d)
SpaceIsFreed == Low ~> (~Low \/ Blocked \/ rpc = "down")
=============================================================================
