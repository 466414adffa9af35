-------------------------- MODULE RecordCtrlProofs --------------------------
(***************************************************************************)
(* The safety properties of the recorder's two threads, for every clock,   *)
(* length of hour and day, numbering of the days, delay and alarm links.   *)
(*                                                                         *)
(* The argument is the contract of the handshake (Handshake): what each    *)
(* place of the control thread knows of command and status.  With it, each *)
(* place of the data thread in which it works on the file fixes where the  *)
(* control thread can be (Busy).                                           *)
(***************************************************************************)
EXTENDS RecordCtrl, TLAPS

\* Between two commands the status answers the last one.
Settled ==
  \/ m_uRecordStatus = "ING" /\ m_uRecordCmd \in {"START", "CONTINUE"}
  \/ m_uRecordStatus = "STOPED" /\ m_uRecordCmd = "STOP"

Handshake ==
  /\ cpc \in {"off", "begin"} => m_uRecordStatus = "STOPED"
  /\ cpc = "startWait" => m_uRecordCmd = "START" /\ m_uRecordStatus \in {"STOPED", "ING"}
  /\ cpc \in {"changeWait", "jumpWait"} =>
       m_uRecordCmd = "PALSE" /\ m_uRecordStatus \in {"ING", "PALSEED"}
  /\ cpc = "rederect" => m_uRecordCmd = "PALSE" /\ m_uRecordStatus = "PALSEED"
  /\ cpc \in {"changeCont", "jumpCont"} =>
       m_uRecordCmd = "CONTINUE" /\ m_uRecordStatus \in {"PALSEED", "ING"}
  /\ cpc = "stopWait" => m_uRecordCmd = "STOP" /\ m_uRecordStatus \in {"ING", "STOPED"}
  /\ cpc \notin Waits \cup {"rederect"} => Settled

Busy ==
  /\ dpc = "open" => cpc = "startWait" /\ m_uRecordStatus = "STOPED"
  /\ dpc = "write" => m_uRecordStatus = "ING"
  /\ dpc = "resume" => cpc \in {"changeCont", "jumpCont"} /\ m_uRecordStatus = "PALSEED"
  /\ dpc = "close" => cpc = "stopWait" /\ m_uRecordStatus # "STOPED"

Stopped == mpc = "stopped" => cpc = "off" /\ dpc = "off" /\ file = NoFile

\* A file under way is of an hour that GetRecordHour takes for that of this tick
\* or of the last; a tick that ends with a recording has both in one hour.
FileHour ==
  m_uRecordStatus # "STOPED" /\ file # NoFile =>
    /\ Number(file) \in {GetRecordHour(m_datetime), GetRecordHour(m_preTime)}
    /\ cpc = "tick" => Number(file) = GetRecordHour(m_preTime)
    /\ cpc = "delay" => Number(file) = GetRecordHour(m_datetime)

NoRestart == m_uHddEio /\ m_uRecordStatus = "STOPED" => cpc # "startWait"

IInv == TypeOK /\ Handshake /\ Busy /\ Stopped /\ FileHour /\ NoRestart

-----------------------------------------------------------------------------
(* The kind that is due is one of the kinds.                               *)

LEMMA DueIsKind == ASSUME TypeOK PROVE Due \in Kinds
  <1>1. Kinds = {"TIMER", "AUDIO", "MD", "MW", "SD433", "ALARM"}
    BY DEF Kinds, Rank
  <1>2. Raised \subseteq Kinds /\ "TIMER" \in Raised
    BY <1>1, RecordAssumption DEF Raised
  <1>3. \E k \in Raised : \A j \in Raised : Rank[j] <= Rank[k]
    BY <1>1, <1>2 DEF Rank
  <1>4. Due \in Raised
    BY <1>3 DEF Due
  <1> QED BY <1>2, <1>4

LEMMA SetRecInfoType ==
  ASSUME TypeOK, NEW kind \in Kinds \cup {"none"}, SetRecInfo(kind)
  PROVE  m_uRecordType' \in Kinds \cup {"none"} /\ delay' \in [Timed -> 0..RecDelay]
  BY RecordAssumption DEF TypeOK, SetRecInfo

LEMMA TimeOfDayType == \A t \in Time : TimeOfDay(t) \in 0..(DayLen - 1)
  BY RecordAssumption DEF Time, TimeOfDay

LEMMA InitIInv == Init => IInv
  <1> SUFFICES ASSUME Init PROVE IInv
    OBVIOUS
  <1>1. (delay \in [Timed -> 0..RecDelay])
    BY RecordAssumption DEF Init
  <1>2. (m_datetime \in Time /\ m_preTime \in Time /\ m_RecStartTime \in 0..(DayLen - 1))
    BY RecordAssumption DEF Init, Time
  <1>3. TypeOK
    BY <1>1, <1>2 DEF Init, TypeOK, CtrlPCs, DataPCs
  <1>4. Handshake /\ Busy /\ Stopped /\ FileHour /\ NoRestart
    BY DEF Init, Handshake, Busy, Stopped, FileHour, NoRestart, Settled, Waits
  <1> QED BY <1>3, <1>4 DEF IInv

LEMMA ResetIInv == ASSUME InitRecordManage PROVE IInv'
  <1>1. (delay \in [Timed -> 0..RecDelay])'
    BY RecordAssumption DEF InitRecordManage
  <1>2. (m_datetime \in Time /\ m_preTime \in Time /\ m_RecStartTime \in 0..(DayLen - 1))'
    BY RecordAssumption DEF InitRecordManage, Time
  <1>3. TypeOK'
    BY <1>1, <1>2 DEF InitRecordManage, TypeOK, CtrlPCs, DataPCs
  <1>4. (Handshake /\ Busy /\ Stopped /\ FileHour /\ NoRestart)'
    BY DEF InitRecordManage, Handshake, Busy, Stopped, FileHour, NoRestart, Settled, Waits
  <1> QED BY <1>3, <1>4 DEF IInv

-----------------------------------------------------------------------------
(* The control thread.                                                     *)

LEMMA CtrlTypes == ASSUME IInv, Ctrl PROVE TypeOK'
  <1> USE DEF IInv, CtrlStep, dataVars, mgrVars
  <1> DEFINE Rest == /\ m_uRecordStatus' = m_uRecordStatus /\ m_uHddEio' = m_uHddEio
                     /\ m_RecStartTime' = m_RecStartTime /\ file' = file /\ dpc' = dpc
                     /\ mpc' = mpc /\ quitData' = quitData /\ quitCtrl' = quitCtrl
                     /\ link' = link
             Mine == /\ m_uRecordCmd' \in {"STOP", "PALSE", "CONTINUE", "START"}
                     /\ m_uRecordType' \in Kinds \cup {"none"}
                     /\ want' \in Kinds \cup {"none"}
                     /\ delay' \in [Timed -> 0..RecDelay]
                     /\ m_datetime' \in Time /\ m_preTime' \in Time
                     /\ cpc' \in CtrlPCs
  <1>1. ASSUME NEW t \in Time, Begin(t) \/ Tick(t) PROVE Rest /\ Mine
    BY <1>1 DEF Begin, Tick, TypeOK, CtrlPCs
  <1>2. CASE CtrlQuits \/ StartDone \/ ChangeDone \/ JumpPaused \/ JumpDone \/ StopDone
    BY <1>2 DEF CtrlQuits, StartDone, ChangeDone, JumpPaused, JumpDone, StopDone, TypeOK, CtrlPCs,
                Waits
  <1>3. CASE StartOneChannelRecord
    <2>1. Rest /\ cpc' \in CtrlPCs /\ SetRecInfo(Due)
      BY <1>3 DEF StartOneChannelRecord, CtrlPCs, Waits
    <2>2. Mine
      BY <1>3, <2>1, DueIsKind, SetRecInfoType DEF StartOneChannelRecord, Send, TypeOK
    <2> QED BY <2>1, <2>2 DEF TypeOK
  <1>4. CASE ChangeOneChannelRecord
    BY <1>4, DueIsKind DEF ChangeOneChannelRecord, Send, TypeOK, CtrlPCs, Waits
  <1>5. CASE KeepRecord
    <2>1. Rest /\ cpc' \in CtrlPCs
      BY <1>5 DEF KeepRecord, CtrlPCs
    <2>2. SetRecInfo(Due) \/ UNCHANGED <<m_uRecordType, delay>>
      BY <1>5 DEF KeepRecord
    <2>3. Mine
      BY <1>5, <2>1, <2>2, DueIsKind, SetRecInfoType DEF KeepRecord, TypeOK
    <2> QED BY <2>1, <2>3 DEF TypeOK
  <1>6. CASE ChangePaused
    <2>1. Rest /\ cpc' \in CtrlPCs /\ SetRecInfo(want)
      BY <1>6 DEF ChangePaused, CtrlPCs, Waits
    <2>2. Mine
      BY <1>6, <2>1, SetRecInfoType DEF ChangePaused, Send, TypeOK
    <2> QED BY <2>1, <2>2 DEF TypeOK
  <1>7. CASE RederectFilePosition
    <2>1. Rest /\ cpc' \in CtrlPCs /\ SetRecInfo(m_uRecordType)
      BY <1>7 DEF RederectFilePosition, CtrlPCs, Waits
    <2>2. Mine
      BY <1>7, <2>1, SetRecInfoType DEF RederectFilePosition, Send, TypeOK
    <2> QED BY <2>1, <2>2 DEF TypeOK
  <1>8. CASE CheckTimeJump \/ CheckRecordEnd
    BY <1>8 DEF CheckTimeJump, CheckRecordEnd, Send, TypeOK, CtrlPCs, Waits
  <1>9. CASE CheckAlarmDelay
    <2>1. Rest /\ cpc' \in CtrlPCs
      BY <1>9 DEF CheckAlarmDelay, CtrlPCs
    <2>2. delay' \in [Timed -> 0..RecDelay]
      BY <1>9, RecordAssumption DEF CheckAlarmDelay, TypeOK
    <2> QED BY <1>9, <2>1, <2>2 DEF CheckAlarmDelay, TypeOK
  <1>10. (Rest /\ Mine) => TypeOK'
    BY DEF TypeOK
  <1> QED BY <1>1, <1>2, <1>3, <1>4, <1>5, <1>6, <1>7, <1>8, <1>9, <1>10 DEF Ctrl

LEMMA CtrlNoRestart == ASSUME IInv, Ctrl PROVE NoRestart'
  <1> USE DEF NoRestart, CtrlStep
  <1>1. CASE StartOneChannelRecord
    <2>1. ~m_uHddEio'
      BY <1>1 DEF StartOneChannelRecord, dataVars
    <2> QED BY <2>1
  <1>2. CASE CtrlQuits \/ \E t \in Time : Begin(t) \/ Tick(t)
    BY <1>2 DEF CtrlQuits, Begin, Tick
  <1>3. CASE \/ ChangeOneChannelRecord \/ KeepRecord \/ StartDone \/ ChangePaused
             \/ ChangeDone \/ CheckTimeJump \/ JumpPaused \/ RederectFilePosition
    BY <1>3 DEF ChangeOneChannelRecord, KeepRecord, StartDone, ChangePaused, ChangeDone,
                CheckTimeJump, JumpPaused, RederectFilePosition
  <1>4. CASE JumpDone \/ CheckRecordEnd \/ StopDone \/ CheckAlarmDelay
    BY <1>4 DEF JumpDone, CheckRecordEnd, StopDone, CheckAlarmDelay
  <1> QED BY <1>1, <1>2, <1>3, <1>4 DEF Ctrl

LEMMA CtrlKeeps == ASSUME IInv, Ctrl PROVE IInv'
  <1> DEFINE Rest == Handshake /\ Busy /\ Stopped /\ FileHour
  <1> USE DEF IInv, CtrlStep, dataVars, mgrVars,
              Handshake, Busy, Stopped, FileHour, Settled, Waits
  <1>1. ASSUME NEW t \in Time, Begin(t) PROVE Rest'
    BY <1>1 DEF Begin
  <1>2. ASSUME NEW t \in Time, Tick(t) PROVE Rest'
    BY <1>2 DEF Tick
  <1>3. ASSUME CtrlQuits PROVE Rest'
    BY <1>3 DEF CtrlQuits
  <1>4. ASSUME StartOneChannelRecord PROVE Rest'
    BY <1>4 DEF StartOneChannelRecord, Send, Recording
  <1>5. ASSUME ChangeOneChannelRecord PROVE Rest'
    BY <1>5 DEF ChangeOneChannelRecord, Send, Recording
  <1>6. ASSUME KeepRecord PROVE Rest'
    BY <1>6 DEF KeepRecord
  <1>7. ASSUME StartDone \/ ChangeDone \/ JumpDone \/ StopDone PROVE Rest'
    BY <1>7 DEF StartDone, ChangeDone, JumpDone, StopDone
  <1>8. ASSUME ChangePaused PROVE Rest'
    BY <1>8 DEF ChangePaused, Send
  <1>9. ASSUME CheckTimeJump PROVE Rest'
    BY <1>9 DEF CheckTimeJump, RederectDue, Send, Recording
  <1>10. ASSUME JumpPaused PROVE Rest'
    BY <1>10 DEF JumpPaused
  <1>11. ASSUME RederectFilePosition PROVE Rest'
    BY <1>11 DEF RederectFilePosition, Send
  <1>12. ASSUME CheckRecordEnd PROVE Rest'
    BY <1>12 DEF CheckRecordEnd, EndDue, Send
  <1>13. ASSUME CheckAlarmDelay PROVE Rest'
    BY <1>13 DEF CheckAlarmDelay
  <1>14. TypeOK' /\ NoRestart'
    BY CtrlTypes, CtrlNoRestart
  <1> QED
    BY <1>1, <1>2, <1>3, <1>4, <1>5, <1>6, <1>7, <1>8, <1>9, <1>10, <1>11, <1>12, <1>13,
       <1>14 DEF Ctrl

-----------------------------------------------------------------------------
(* The data thread, and starting and stopping.                             *)

LEMMA DataKeeps == ASSUME IInv, Data PROVE IInv'
  <1> USE DEF IInv, DataStep, DataTest, ctrlVars, mgrVars,
              Handshake, Busy, Stopped, FileHour, NoRestart, Settled, Waits
  <1>1. CASE TestStart
    BY <1>1 DEF TestStart, TypeOK, DataPCs
  <1>2. CASE DataQuits
    BY <1>2 DEF DataQuits, TypeOK, DataPCs
  <1>3. CASE TestWrite
    BY <1>3 DEF TestWrite, TypeOK, DataPCs
  <1>4. CASE TestContinue
    BY <1>4 DEF TestContinue, TypeOK, DataPCs
  <1>5. CASE TestStop
    BY <1>5 DEF TestStop, TypeOK, DataPCs
  <1>6. ASSUME NEW opened \in BOOLEAN, OpenRecordFile(opened) PROVE IInv'
    <2>1. m_RecStartTime' \in 0..(DayLen - 1)
      BY <1>6, TimeOfDayType DEF OpenRecordFile, TypeOK
    <2>2. file' \in {NoFile} \cup {Hour(t) : t \in Time}
      BY <1>6 DEF OpenRecordFile, TypeOK
    <2>3. TypeOK'
      BY <1>6, <2>1, <2>2 DEF OpenRecordFile, TypeOK, DataPCs
    <2>4. Handshake' /\ Busy' /\ Stopped' /\ NoRestart'
      BY <1>6 DEF OpenRecordFile
    <2>5. FileHour'
      BY <1>6 DEF OpenRecordFile, GetRecordHour
    <2> QED BY <2>3, <2>4, <2>5
  <1>7. CASE WriteFrames
    <2>1. TypeOK'
      BY ZenonT(60), <1>7 DEF WriteFrames, WriteRecordFile, TypeOK, DataPCs
    <2>2. Handshake' /\ Busy' /\ Stopped' /\ FileHour'
      BY <1>7 DEF WriteFrames, WriteRecordFile
    <2>3. m_uRecordStatus' # "STOPED"
      BY <1>7 DEF WriteFrames
    <2> QED BY <2>1, <2>2, <2>3
  <1>8. CASE Pause
    BY <1>8 DEF Pause, TypeOK, DataPCs
  <1>9. CASE Resume
    <2>1. TypeOK'
      BY <1>9 DEF Resume, WriteRecordFile, TypeOK, DataPCs
    <2>2. Handshake' /\ Busy' /\ Stopped' /\ FileHour'
      BY <1>9 DEF Resume, WriteRecordFile
    <2>3. m_uRecordStatus' # "STOPED"
      BY <1>9 DEF Resume
    <2> QED BY <2>1, <2>2, <2>3
  <1>10. CASE CloseRecordFile
    BY <1>10 DEF CloseRecordFile, TypeOK, DataPCs
  <1> QED
    BY <1>1, <1>2, <1>3, <1>4, <1>5, <1>6, <1>7, <1>8, <1>9, <1>10 DEF Data

LEMMA OthersKeep ==
  ASSUME IInv, \/ Manage \/ StopRecordSystem \/ Crash
               \/ \E k \in Linked, on \in BOOLEAN : SetAlarmLink(k, on)
  PROVE  IInv'
  <1> USE DEF IInv, ctrlVars, dataVars, mgrVars,
              Handshake, Busy, Stopped, FileHour, NoRestart, Settled, Waits
  <1>1. CASE StartRecordSystem
    BY <1>1 DEF StartRecordSystem, TypeOK, CtrlPCs, DataPCs
  <1>2. CASE StopRecordSystem \/ QuitCtrl \/ JoinCtrl
    <2>1. TypeOK'
      BY <1>2 DEF StopRecordSystem, QuitCtrl, JoinCtrl, TypeOK
    <2>2. UNCHANGED <<ctrlVars, dataVars>> /\ mpc' # "stopped"
      BY <1>2 DEF StopRecordSystem, QuitCtrl, JoinCtrl
    <2> QED BY <2>1, <2>2
  <1>3. CASE JoinData \/ Crash
    BY <1>3, ResetIInv DEF JoinData, Crash
  <1>4. ASSUME NEW k \in Linked, NEW on \in BOOLEAN, SetAlarmLink(k, on) PROVE IInv'
    BY <1>4 DEF SetAlarmLink, TypeOK
  <1> QED BY <1>1, <1>2, <1>3, <1>4 DEF Manage

LEMMA NextIInv == IInv /\ [Next]_vars => IInv'
  <1> SUFFICES ASSUME IInv, [Next]_vars PROVE IInv'
    OBVIOUS
  <1>1. CASE UNCHANGED vars
    BY <1>1 DEF vars, ctrlVars, dataVars, mgrVars, IInv, TypeOK, Handshake, Busy,
                Stopped, FileHour, NoRestart, Settled
  <1>2. CASE CtrlWaits
    BY <1>1, <1>2 DEF CtrlWaits
  <1> QED BY <1>1, <1>2, CtrlKeeps, DataKeeps, OthersKeep DEF Next

LEMMA Invariant == Spec => []IInv
  BY InitIInv, NextIInv, PTL DEF Spec

-----------------------------------------------------------------------------
(* Theorems.                                                               *)

\* Types of all variables; the delays never count below 0 (CheckAlarmDelay).
THEOREM TypeCorrect == Spec => []TypeOK
  <1>1. IInv => TypeOK
    BY DEF IInv
  <1> QED BY <1>1, Invariant, PTL

\* RederectFilePosition never runs beside a file operation of the data thread:
\* commands and statuses, plain variables as they are, exclude.
THEOREM Exclusive == Spec => []FilesExclusive
  <1>1. IInv => FilesExclusive
    BY DEF IInv, FilesExclusive, Handshake, Busy
  <1> QED BY <1>1, Invariant, PTL

\* No recording outlasts a tick in a file whose hour has another number than the
\* clock's (CheckRecordEnd, CheckTimeJump, OpenRecordFile), for any clock, length
\* of the hour and numbering of the days, ties as those of GetRecordHour included.
THEOREM RightFile == Spec => []FileOfTheHour
  <1>1. IInv => FileOfTheHour
    BY DEF IInv, FileOfTheHour, FileHour, Recording
  <1> QED BY <1>1, Invariant, PTL

\* The kind of recording is not set under a write (ChangeOneChannelRecord,
\* WriteRecordFile).
THEOREM KindStable == Spec => KindStableWhileWriting
  <1> DEFINE A == m_uRecordType' # m_uRecordType /\ mpc' # "stopped"
                    => dpc \notin {"write", "resume"}
  <1>1. ASSUME IInv, [Next]_vars PROVE [A]_vars
    <2> USE DEF IInv, Handshake, Busy, Settled, Waits
    <2>1. CASE Ctrl
      <3>1. CASE StartOneChannelRecord
        <4>1. dpc \notin {"write", "resume"}
          BY <1>1, <3>1 DEF StartOneChannelRecord, CtrlStep, Recording
        <4> QED BY <4>1
      <3>2. CASE ChangePaused
        <4>1. dpc \notin {"write", "resume"}
          BY <1>1, <3>2 DEF ChangePaused, CtrlStep
        <4> QED BY <4>1
      <3>3. CASE KeepRecord \/ RederectFilePosition
        BY <3>3 DEF KeepRecord, RederectFilePosition, SetRecInfo
      <3>4. ASSUME NEW t \in Time, Begin(t) \/ Tick(t) PROVE A
        BY <3>4 DEF Begin, Tick
      <3> QED
        BY <2>1, <3>1, <3>2, <3>3, <3>4
        DEF Ctrl, CtrlQuits, ChangeOneChannelRecord, StartDone, ChangeDone, CheckTimeJump,
            JumpPaused, JumpDone, CheckRecordEnd, StopDone, CheckAlarmDelay
    <2>2. CASE Data
      <3>1. UNCHANGED ctrlVars
        BY <2>2 DEF Data, DataStep, DataTest, TestStart, DataQuits, TestWrite, TestContinue,
                    TestStop, OpenRecordFile, WriteFrames, Pause, Resume, CloseRecordFile
      <3> QED BY <3>1 DEF ctrlVars
    <2>3. CASE Manage \/ StopRecordSystem \/ Crash
      BY <2>3 DEF Manage, StartRecordSystem, QuitCtrl, JoinCtrl, JoinData, StopRecordSystem,
                  Crash, InitRecordManage, ctrlVars
    <2>4. ASSUME NEW k \in Linked, NEW on \in BOOLEAN, SetAlarmLink(k, on) PROVE A
      BY <2>4 DEF SetAlarmLink, ctrlVars
    <2>5. CASE CtrlWaits \/ UNCHANGED vars
      BY <2>5 DEF CtrlWaits
    <2> QED BY <1>1, <2>1, <2>2, <2>3, <2>4, <2>5 DEF Next
  <1> QED BY <1>1, Invariant, PTL DEF Spec, KindStableWhileWriting

\* After a write error a recording that has stopped is not started again
\* (CheckRecordStart), until the recorder is.
THEOREM ErrorFinal == Spec => ErrorIsFinal
  <1> DEFINE A == m_uHddEio /\ m_uRecordStatus = "STOPED" => m_uRecordStatus' = "STOPED"
  <1>1. ASSUME IInv, [Next]_vars PROVE [A]_vars
    <2>1. CASE Ctrl
      <3>1. m_uRecordStatus' = m_uRecordStatus
        BY <2>1 DEF Ctrl, CtrlStep, dataVars, Begin, Tick, CtrlQuits, StartOneChannelRecord,
             ChangeOneChannelRecord, KeepRecord, StartDone, ChangePaused, ChangeDone,
             CheckTimeJump, JumpPaused, RederectFilePosition, JumpDone, CheckRecordEnd,
             StopDone, CheckAlarmDelay
      <3> QED BY <3>1
    <2>2. CASE Data
      BY <1>1, <2>2 DEF IInv, Busy, NoRestart, Data, DataStep, DataTest, TestStart, DataQuits,
           TestWrite, TestContinue, TestStop, OpenRecordFile, WriteFrames, Pause, Resume,
           CloseRecordFile
    <2>3. CASE Manage \/ StopRecordSystem \/ Crash
      BY <2>3 DEF Manage, StartRecordSystem, QuitCtrl, JoinCtrl, JoinData, StopRecordSystem,
                  Crash, InitRecordManage, dataVars
    <2>4. ASSUME NEW k \in Linked, NEW on \in BOOLEAN, SetAlarmLink(k, on) PROVE A
      BY <2>4 DEF SetAlarmLink, dataVars
    <2>5. CASE CtrlWaits \/ UNCHANGED vars
      BY <2>5 DEF CtrlWaits
    <2> QED BY <1>1, <2>1, <2>2, <2>3, <2>4, <2>5 DEF Next
  <1> QED BY <1>1, Invariant, PTL DEF Spec, ErrorIsFinal
=============================================================================
