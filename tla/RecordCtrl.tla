----------------------------- MODULE RecordCtrl -----------------------------
(***************************************************************************)
(* The two threads of record/RecordManage.cpp and the one that starts and  *)
(* stops them.  Once a second the control thread looks at the clock and at *)
(* the alarm links and decides what is to be recorded; the data thread     *)
(* opens, writes and closes the file.  They share no lock: the control     *)
(* thread stores a command and spins until the data thread has stored the  *)
(* status that answers it.  One channel (MAX_VIDEO_CHANNEL = 1).           *)
(*                                                                         *)
(* A step of the data thread is one test of the command, or one file       *)
(* operation.  The tests CheckTimeValid makes always succeed, the disk is  *)
(* always overwritten when it is full (m_uHddOverWrite = 1), and both      *)
(* threads idle until the clock was set once (CheckRecordTime): a          *)
(* behaviour starts there.                                                 *)
(***************************************************************************)
EXTENDS Integers

CONSTANTS
  Linked,     \* kinds whose alarm link somebody sets
  HourLen,    \* seconds of an hour
  DayLen,     \* seconds of a day
  DayNumber,  \* year*365 + month*30 + mday: a 31st and the next 1st share one
  MaxTime,    \* bound: the clock shows 0..MaxTime-1
  MinDelay,   \* MIN_SYS_ALARM_DELAY, s
  RecDelay,   \* RECALARM_DELAY = RECMD_DELAY, ticks
  JumpLen     \* a difference between two ticks above this is a time jump, s

ASSUME RecordAssumption ==
  /\ Linked \subseteq {"AUDIO", "MD", "MW", "SD433", "ALARM"}
  /\ HourLen \in Nat \ {0} /\ DayLen \in Nat \ {0} /\ MaxTime \in Nat \ {0}
  /\ DayNumber \in [{t \div DayLen : t \in 0..(MaxTime - 1)} -> Nat]
  /\ MinDelay \in Nat /\ RecDelay \in Nat /\ JumpLen \in Nat

VARIABLES
  m_uRecordCmd, m_uRecordType,     \* written by the control thread
  delay,                           \* m_uAlarmRecDelay, m_uMDRecDelay
  m_datetime, m_preTime,           \* the clock at this tick and at the last
  cpc, want,                       \* control thread; the kind it changes to
  m_uRecordStatus,                 \* written by the data thread
  m_uHddEio,                       \* a write failed
  m_RecStartTime,                  \* a time of day
  file,                            \* date and hour of the open file
  dpc,                             \* data thread
  mpc, quitData, quitCtrl,         \* DeviceSwtich and the two quit flags
  link                             \* m_u32..AlarmLink, set by other threads

ctrlVars == <<m_uRecordCmd, m_uRecordType, delay, m_datetime, m_preTime, cpc, want>>
dataVars == <<m_uRecordStatus, m_uHddEio, m_RecStartTime, file, dpc>>
mgrVars == <<mpc, quitData, quitCtrl>>
vars == <<ctrlVars, dataVars, mgrVars, link>>

-----------------------------------------------------------------------------
Rank == [TIMER |-> 0, AUDIO |-> 1, MD |-> 2, MW |-> 3, SD433 |-> 4, ALARM |-> 5]
Kinds == DOMAIN Rank
Timed == {"ALARM", "MD"}         \* kinds whose delay is counted and looked at
Time == 0..(MaxTime - 1)
TimeOfDay(t) == t % DayLen       \* GetCurrentTimeValue

\* Date and hour, which name the file.
Hour(t) == <<t \div DayLen, TimeOfDay(t) \div HourLen>>
NoFile == <<>>

\* The number by which the code knows an hour, of an hour and of a time: the
\* pair stands for day*24 + hour.
Number(hour) == <<DayNumber[hour[1]], hour[2]>>
GetRecordHour(t) == Number(Hour(t))

Waits == {"startWait", "changeWait", "changeCont", "jumpWait", "jumpCont", "stopWait"}
CtrlPCs == {"off", "begin", "tick", "start", "jump", "rederect", "end", "delay",
            "exit"} \cup Waits
DataPCs == {"off", "loop", "open", "ifWrite", "write", "ifPause", "ifContinue",
            "resume", "ifStop", "close", "exit"}

TypeOK ==
  /\ m_uRecordCmd \in {"STOP", "PALSE", "CONTINUE", "START"}
  /\ m_uRecordStatus \in {"STOPED", "PALSEED", "ING"}
  /\ m_uRecordType \in Kinds \cup {"none"} /\ want \in Kinds \cup {"none"}
  /\ delay \in [Timed -> 0..RecDelay]
  /\ m_datetime \in Time /\ m_preTime \in Time /\ m_RecStartTime \in 0..(DayLen - 1)
  /\ cpc \in CtrlPCs /\ dpc \in DataPCs
  /\ mpc \in {"stopped", "running", "quitting", "joinCtrl", "joinData"}
  /\ m_uHddEio \in BOOLEAN /\ quitData \in BOOLEAN /\ quitCtrl \in BOOLEAN
  /\ file \in {NoFile} \cup {Hour(t) : t \in Time}
  /\ link \in [Linked -> BOOLEAN]

Init ==
  /\ m_uRecordCmd = "STOP" /\ m_uRecordStatus = "STOPED"
  /\ m_uRecordType = "none" /\ want = "none"
  /\ delay = [k \in Timed |-> 0]
  /\ m_datetime = 0 /\ m_preTime = 0 /\ m_RecStartTime = 0
  /\ m_uHddEio = FALSE /\ file = NoFile
  /\ cpc = "off" /\ dpc = "off" /\ mpc = "stopped"
  /\ quitData = FALSE /\ quitCtrl = FALSE
  /\ link = [k \in Linked |-> FALSE]

-----------------------------------------------------------------------------
(* The control thread: RecordCtrlLoop, CheckRecordTask.                    *)

CtrlStep(from, to) ==
  /\ cpc = from /\ cpc' = to
  /\ UNCHANGED <<dataVars, mgrVars, link>>

Send(cmd) == m_uRecordCmd' = cmd

SetRecInfo(kind) ==
  /\ m_uRecordType' = kind
  /\ delay' = [k \in Timed |-> IF k = kind THEN RecDelay ELSE delay[k]]

\* The thread has started: deleting the old version's records and repairing
\* files (fixNotCloseFile) is left out.
Begin(t) ==
  /\ CtrlStep("begin", "tick")
  /\ m_datetime' = t /\ m_preTime' = t
  /\ UNCHANGED <<m_uRecordCmd, m_uRecordType, delay, want>>

Tick(t) ==
  /\ CtrlStep("tick", "start") /\ ~quitCtrl
  /\ m_datetime' = t
  /\ UNCHANGED <<m_uRecordCmd, m_uRecordType, delay, m_preTime, want>>

CtrlQuits ==
  /\ CtrlStep("tick", "exit") /\ quitCtrl
  /\ UNCHANGED <<m_uRecordCmd, m_uRecordType, delay, m_datetime, m_preTime, want>>

\* The kind CheckRecordStart settles on: the links in the order of their
\* priority, then the timer.
Raised == {"TIMER"} \cup {k \in Linked : link[k]}
Due == CHOOSE k \in Raised : \A j \in Raised : Rank[j] <= Rank[k]
Recording == m_uRecordStatus = "ING"

StartAfterError ==                       \* fault: m_uHddEio is not tested
  /\ CtrlStep("start", "startWait")
  /\ ~Recording
  /\ SetRecInfo(Due) /\ Send("START")
  /\ UNCHANGED <<m_datetime, m_preTime, want>>

StartOneChannelRecord ==
  /\ CtrlStep("start", "startWait")
  /\ ~m_uHddEio /\ ~Recording
  /\ SetRecInfo(Due) /\ Send("START")
  /\ UNCHANGED <<m_datetime, m_preTime, want>>

\* Another kind is due and the file is not too young: Pause, then Continue.
ChangeOneChannelRecord ==
  /\ CtrlStep("start", "changeWait")
  /\ ~m_uHddEio /\ Recording
  /\ m_uRecordType # Due /\ TimeOfDay(m_datetime) - m_RecStartTime >= MinDelay
  /\ Send("PALSE") /\ want' = Due
  /\ UNCHANGED <<m_uRecordType, delay, m_datetime, m_preTime>>

\* Nothing to start.  An alarm that goes on gets its delay again.
KeepRecord ==
  /\ CtrlStep("start", "jump")
  /\ \/ m_uHddEio /\ UNCHANGED <<m_uRecordType, delay>>
     \/ /\ ~m_uHddEio /\ Recording
        /\ m_uRecordType # Due /\ TimeOfDay(m_datetime) - m_RecStartTime < MinDelay
        /\ UNCHANGED <<m_uRecordType, delay>>
     \/ ~m_uHddEio /\ Recording /\ m_uRecordType = Due /\ SetRecInfo(Due)
  /\ UNCHANGED <<m_uRecordCmd, m_datetime, m_preTime, want>>

StartDone ==
  /\ CtrlStep("startWait", "jump") /\ m_uRecordStatus = "ING"
  /\ UNCHANGED <<m_uRecordCmd, m_uRecordType, delay, m_datetime, m_preTime, want>>

\* fault: the change does not wait for the pause
ChangeUnpaused ==
  /\ CtrlStep("changeWait", "changeCont")
  /\ SetRecInfo(want) /\ Send("CONTINUE") /\ want' = "none"
  /\ UNCHANGED <<m_datetime, m_preTime>>

ChangePaused ==
  /\ CtrlStep("changeWait", "changeCont") /\ m_uRecordStatus = "PALSEED"
  /\ SetRecInfo(want) /\ Send("CONTINUE") /\ want' = "none"
  /\ UNCHANGED <<m_datetime, m_preTime>>

ChangeDone ==
  /\ CtrlStep("changeCont", "jump") /\ m_uRecordStatus = "ING"
  /\ UNCHANGED <<m_uRecordCmd, m_uRecordType, delay, m_datetime, m_preTime, want>>

\* CheckTimeJump: the clock was set within the hour of the file, or to what
\* GetRecordHour takes for it.
IsTimeJump == \/ m_datetime - m_preTime > JumpLen
              \/ m_preTime - m_datetime > JumpLen
RederectDue == IsTimeJump /\ GetRecordHour(m_datetime) = GetRecordHour(m_preTime) /\ Recording

CheckTimeJump ==
  /\ \/ CtrlStep("jump", "jumpWait") /\ RederectDue /\ Send("PALSE")
     \/ CtrlStep("jump", "end") /\ ~RederectDue /\ UNCHANGED m_uRecordCmd
  /\ UNCHANGED <<m_uRecordType, delay, m_datetime, m_preTime, want>>

\* fault: the file is moved in without waiting for the pause
JumpUnpaused ==
  /\ CtrlStep("jumpWait", "rederect")
  /\ UNCHANGED <<m_uRecordCmd, m_uRecordType, delay, m_datetime, m_preTime, want>>

JumpPaused ==
  /\ CtrlStep("jumpWait", "rederect") /\ m_uRecordStatus = "PALSEED"
  /\ UNCHANGED <<m_uRecordCmd, m_uRecordType, delay, m_datetime, m_preTime, want>>

\* The file's write positions are moved back to the time now shown; then
\* Continue, with the kind there is.
RederectFilePosition ==
  /\ CtrlStep("rederect", "jumpCont")
  /\ SetRecInfo(m_uRecordType) /\ Send("CONTINUE")
  /\ UNCHANGED <<m_datetime, m_preTime, want>>

JumpDone ==
  /\ CtrlStep("jumpCont", "end") /\ m_uRecordStatus = "ING"
  /\ UNCHANGED <<m_uRecordCmd, m_uRecordType, delay, m_datetime, m_preTime, want>>

EndDueSameHour ==                        \* fault: the hour is not compared
  /\ m_uRecordStatus # "STOPED"
  /\ \/ m_uRecordType \in Timed /\ delay[m_uRecordType] = 0
     \/ TimeOfDay(m_datetime) < m_RecStartTime
     \/ m_uHddEio

EndDueUnlessError ==                     \* fault: m_uHddEio is not tested
  /\ m_uRecordStatus # "STOPED"
  /\ \/ m_uRecordType \in Timed /\ delay[m_uRecordType] = 0
     \/ TimeOfDay(m_datetime) < m_RecStartTime
     \/ GetRecordHour(m_datetime) # GetRecordHour(m_preTime)

\* The tests of CheckRecordEnd; each stops the recording, and to stop it a
\* second time changes nothing.
EndDue ==
  /\ m_uRecordStatus # "STOPED"
  /\ \/ m_uRecordType \in Timed /\ delay[m_uRecordType] = 0
     \/ TimeOfDay(m_datetime) < m_RecStartTime
     \/ m_uHddEio
     \/ GetRecordHour(m_datetime) # GetRecordHour(m_preTime)

CheckRecordEnd ==
  /\ \/ CtrlStep("end", "stopWait") /\ EndDue /\ Send("STOP")
     \/ CtrlStep("end", "delay") /\ ~EndDue /\ UNCHANGED m_uRecordCmd
  /\ UNCHANGED <<m_uRecordType, delay, m_datetime, m_preTime, want>>

StopDone ==
  /\ CtrlStep("stopWait", "delay") /\ m_uRecordStatus = "STOPED"
  /\ UNCHANGED <<m_uRecordCmd, m_uRecordType, delay, m_datetime, m_preTime, want>>

DelayUntested ==                         \* fault: counted down below 0
  /\ CtrlStep("delay", "tick")
  /\ delay' = [k \in Timed |-> delay[k] - 1]
  /\ m_preTime' = m_datetime
  /\ UNCHANGED <<m_uRecordCmd, m_uRecordType, m_datetime, want>>

CheckAlarmDelay ==
  /\ CtrlStep("delay", "tick")
  /\ delay' = [k \in Timed |-> IF delay[k] > 0 THEN delay[k] - 1 ELSE 0]
  /\ m_preTime' = m_datetime
  /\ UNCHANGED <<m_uRecordCmd, m_uRecordType, m_datetime, want>>

Ctrl ==
  \/ \E t \in Time : Begin(t) \/ Tick(t)
  \/ CtrlQuits
  \/ StartOneChannelRecord \/ ChangeOneChannelRecord \/ KeepRecord
  \/ StartDone \/ ChangePaused \/ ChangeDone
  \/ CheckTimeJump \/ JumpPaused \/ RederectFilePosition \/ JumpDone
  \/ CheckRecordEnd \/ StopDone \/ CheckAlarmDelay

\* A round of one of the loops "while(m_uRecordStatus[ch] != ...) usleep".
CtrlWaits ==
  /\ cpc \in Waits
  /\ UNCHANGED vars

-----------------------------------------------------------------------------
(* The data thread: RecordDataProcess.  Every if reads the command anew.   *)

DataStep(from, to) ==
  /\ dpc = from /\ dpc' = to
  /\ UNCHANGED <<ctrlVars, mgrVars, link>>

DataTest(from, test, yes, no) ==
  /\ DataStep(from, IF test THEN yes ELSE no)
  /\ UNCHANGED <<m_uRecordStatus, m_uHddEio, m_RecStartTime, file>>

TestStart ==
  DataTest("loop", m_uRecordCmd = "START" /\ m_uRecordStatus = "STOPED", "open", "ifWrite")
  /\ ~quitData

DataQuits == DataTest("loop", TRUE, "exit", "exit") /\ quitData

TestWrite ==
  DataTest("ifWrite", m_uRecordCmd \in {"START", "CONTINUE"} /\ m_uRecordStatus = "ING",
           "write", "ifPause")

TestContinue ==
  DataTest("ifContinue", m_uRecordCmd = "CONTINUE" /\ m_uRecordStatus = "PALSEED",
           "resume", "ifStop")

TestStop ==
  DataTest("ifStop", m_uRecordCmd = "STOP" /\ m_uRecordStatus \in {"ING", "PALSEED"},
           "close", "loop")

\* The file is named for the hour of the tick.  That it could not be opened
\* is not looked at; without a directory not even the time is noted.
OpenRecordFile(opened) ==
  /\ DataStep("open", "ifWrite")
  /\ \/ m_RecStartTime' = TimeOfDay(m_datetime)
     \/ ~opened /\ UNCHANGED m_RecStartTime
  /\ file' = IF opened THEN Hour(m_datetime) ELSE NoFile
  /\ m_uRecordStatus' = "ING"
  /\ UNCHANGED m_uHddEio

\* Up to eight frames; a write that fails sets m_uHddEio.
WriteRecordFile ==
  /\ m_uHddEio' \in {m_uHddEio, TRUE}
  /\ UNCHANGED <<m_RecStartTime, file>>

WriteFrames ==
  /\ DataStep("write", "ifPause")
  /\ WriteRecordFile /\ UNCHANGED m_uRecordStatus

Pause ==
  \/ /\ DataStep("ifPause", "loop")
     /\ m_uRecordCmd = "PALSE" /\ m_uRecordStatus = "ING"
     /\ m_uRecordStatus' = "PALSEED"
     /\ UNCHANGED <<m_uHddEio, m_RecStartTime, file>>
  \/ /\ ~(m_uRecordCmd = "PALSE" /\ m_uRecordStatus = "ING")
     /\ DataTest("ifPause", TRUE, "ifContinue", "ifContinue")

ResumePaused ==                          \* fault: the status is left as it was
  /\ DataStep("resume", "ifStop")
  /\ WriteRecordFile /\ UNCHANGED m_uRecordStatus

Resume ==
  /\ DataStep("resume", "ifStop")
  /\ WriteRecordFile /\ m_uRecordStatus' = "ING"

CloseWithoutStatus ==                    \* fault: the status is left as it was
  /\ DataStep("close", "loop")
  /\ file' = NoFile
  /\ UNCHANGED <<m_uRecordStatus, m_uHddEio, m_RecStartTime>>

CloseRecordFile ==
  /\ DataStep("close", "loop")
  /\ file' = NoFile
  /\ m_uRecordStatus' = "STOPED"
  /\ UNCHANGED <<m_uHddEio, m_RecStartTime>>

Data ==
  \/ TestStart \/ DataQuits \/ TestWrite \/ TestContinue \/ TestStop
  \/ \E opened \in BOOLEAN : OpenRecordFile(opened)
  \/ WriteFrames \/ Pause \/ Resume \/ CloseRecordFile

-----------------------------------------------------------------------------
(* Starting and stopping: DeviceSwtich, from the main thread.              *)

\* Everything as new; a file that is open is forgotten, not closed.
InitRecordManage ==
  /\ m_uRecordCmd' = "STOP" /\ m_uRecordStatus' = "STOPED"
  /\ m_uRecordType' = "none" /\ want' = "none"
  /\ delay' = [k \in Timed |-> 0]
  /\ m_datetime' = 0 /\ m_preTime' = 0 /\ m_RecStartTime' = 0
  /\ m_uHddEio' = FALSE /\ file' = NoFile
  /\ cpc' = "off" /\ dpc' = "off" /\ mpc' = "stopped"
  /\ quitData' = FALSE /\ quitCtrl' = FALSE
  /\ link' = [k \in Linked |-> FALSE]

StartRecordSystem ==
  /\ mpc = "stopped" /\ mpc' = "running"
  /\ cpc' = "begin" /\ dpc' = "loop"
  /\ UNCHANGED <<m_uRecordCmd, m_uRecordType, delay, m_datetime, m_preTime, want,
                 m_uRecordStatus, m_uHddEio, m_RecStartTime, file,
                 quitData, quitCtrl, link>>

StopRecordSystem ==
  /\ mpc = "running" /\ mpc' = "quitting"
  /\ quitData' = TRUE
  /\ UNCHANGED <<ctrlVars, dataVars, quitCtrl, link>>

QuitCtrl ==
  /\ mpc = "quitting" /\ mpc' = "joinCtrl"
  /\ quitCtrl' = TRUE
  /\ UNCHANGED <<ctrlVars, dataVars, quitData, link>>

JoinCtrl ==
  /\ mpc = "joinCtrl" /\ cpc = "exit" /\ mpc' = "joinData"
  /\ UNCHANGED <<ctrlVars, dataVars, quitData, quitCtrl, link>>

JoinData == mpc = "joinData" /\ dpc = "exit" /\ InitRecordManage

Manage == StartRecordSystem \/ QuitCtrl \/ JoinCtrl \/ JoinData

\* A frame written to no file, m_pRecFp = NULL: the process may die.  The
\* watchdog restarts the camera.
Crash == dpc \in {"write", "resume"} /\ file = NoFile /\ InitRecordManage

\* SetMdAlarmLink and its like, on a running system.  That a link stays set
\* for 120 s of m_datetime, which jumps, is not kept.
SetAlarmLink(k, on) ==
  /\ mpc = "running" /\ link[k] # on
  /\ link' = [link EXCEPT ![k] = on]
  /\ UNCHANGED <<ctrlVars, dataVars, mgrVars>>

Next ==
  \/ Ctrl \/ CtrlWaits \/ Data \/ Manage \/ StopRecordSystem \/ Crash
  \/ \E k \in Linked, on \in BOOLEAN : SetAlarmLink(k, on)

Spec == Init /\ [][Next]_vars

\* Both threads run, and joins return when they can.
Fairness == WF_vars(Ctrl) /\ WF_vars(Data) /\ WF_vars(Manage)
FairSpec == Spec /\ Fairness

-----------------------------------------------------------------------------
(* Properties.                                                             *)

\* The control thread moves the write positions of the file only while the
\* data thread is outside every file operation: the handshake is the only
\* exclusion there is.
FilesExclusive ==
  cpc = "rederect" => dpc \notin {"open", "write", "resume", "close"}

\* The kind written with an index entry does not change under the write: kind
\* and level are set only while the data thread is not writing.
KindStableWhileWriting ==
  [][m_uRecordType' # m_uRecordType /\ mpc' # "stopped"
       => dpc \notin {"write", "resume"}]_vars

\* A recording goes on over a tick only in a file whose hour has the number
\* (GetRecordHour) of the hour that the clock then shows, however the clock was
\* set.  That is the file of this very hour, but for one case: a clock set from
\* the 31st to the same hour of the next 1st, or back, is seen by no test, and
\* the recording goes on in the file of the other day.
FileOfTheHour ==
  cpc = "tick" /\ Recording /\ file # NoFile
    => Number(file) = GetRecordHour(m_preTime)

\* Every spinning wait of the control thread ends, unless the data thread was
\* told to quit.
HandshakeEnds == []<>(cpc \notin Waits \/ quitData)

\* With the system left running and the disk sound there is always a recording
\* again: no order of alarms, pauses and clock changes ends it for good.  (A
\* recording whose file could not be opened counts: the code takes it for one.)
KeepsRecording ==
  \/ <>[]m_uHddEio
  \/ []<>(mpc # "running")
  \/ []<>Recording

\* A write error ends the recording, and it is not started again: the disk is
\* left alone until the system is.
ErrorEndsRecording ==
  m_uHddEio ~> (m_uRecordStatus = "STOPED" \/ quitData)
ErrorIsFinal ==
  [][m_uHddEio /\ m_uRecordStatus = "STOPED" => m_uRecordStatus' = "STOPED"]_vars

\* ModuleFuncInterface.cpp:4433: StopRecordSystem stops the threads and returns.
StopReturns == mpc = "quitting" ~> mpc = "stopped"
=============================================================================
