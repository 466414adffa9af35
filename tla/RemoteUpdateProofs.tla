------------------------ MODULE RemoteUpdateProofs ------------------------
(***************************************************************************)
(* What RemoteUpdate promises for every number of clients, of download     *)
(* threads and of pieces, however often anything is asked for or lost.     *)
(*                                                                         *)
(* The program has no lock, so the invariants are about who else writes:   *)
(* as long as no two wrote at one time ("overlap"), whoever is at a step   *)
(* is alone, and what is known of the file at that step is still true.     *)
(***************************************************************************)
EXTENDS RemoteUpdate, FiniteSetTheorems, TLAPS

Steps == {"none", "begin", "connect", "send", "head", "resume", "rhead", "recv",
          "check", "md5", "flash", "failed", "retry"}
ThreadRec == [pc : Steps, resumes : BOOLEAN, next : Nat]
Uploaders == {c \in Clients : pc[c] \in Uploading}

-----------------------------------------------------------------------------
(* Types.                                                                  *)

LEMMA SpendType ==
  ASSUME TypeOK, NEW what \in Chances, Spend(what)
  PROVE  left' \in [Chances -> Nat]
  BY DEF TypeOK, Spend

LEMMA WatchType ==
  ASSUME TypeOK, NEW what, what \subseteq {"overlap", "short", "unsaved", "uploaded"}, Watch(what)
  PROVE  spoilt' \subseteq {"overlap", "short", "unsaved", "uploaded"}
  BY DEF TypeOK, Watch

LEMMA ThreadType ==
  ASSUME TypeOK, NEW t \in Threads, NEW from, NEW to \in ThreadRec, ThreadStep(t, from, to)
  PROVE  /\ thread' \in [Threads -> ThreadRec]
         /\ UNCHANGED <<updating, pc, got, flashed, offered, stopVars>>
  BY DEF TypeOK, ThreadStep, ThreadRec, Steps

LEMMA ToType ==
  ASSUME TypeOK, NEW t \in Threads, NEW where \in Steps
  PROVE  /\ To(t, where) \in ThreadRec
         /\ OrStopped(t, where) \in ThreadRec
         /\ Went(t) \in ThreadRec
  <1>1. thread[t] \in ThreadRec
    BY DEF TypeOK, ThreadRec, Steps
  <1>2. To(t, where) \in ThreadRec /\ To(t, "failed") \in ThreadRec /\ To(t, "recv") \in ThreadRec
    BY <1>1 DEF To, ThreadRec, Steps
  <1>3. Went(t) \in ThreadRec
    BY <1>2 DEF Went, ThreadRec
  <1> QED BY <1>2, <1>3 DEF OrStopped

LEMMA NewThreadType ==
  ASSUME NEW resumes \in BOOLEAN
  PROVE  [NoThread EXCEPT !.pc = "begin", !.resumes = resumes] \in ThreadRec
         /\ NoThread \in ThreadRec
  BY DEF NoThread, ThreadRec, Steps

LEMMA SaveType ==
  ASSUME TypeOK, NEW piece \in 0..2 * Pieces, Save(piece)
  PROVE  file' \in Seq(0..2 * Pieces)
  BY DEF TypeOK, Save

LEMMA SavesPartType ==
  ASSUME TypeOK, SavesPart
  PROVE  file' \in Seq(0..2 * Pieces)
  <1>1. Junk \in 0..2 * Pieces
    BY UpdateAssumption DEF Junk
  <1>2. file \in Seq(0..2 * Pieces) /\ Append(file, Junk) \in Seq(0..2 * Pieces)
    BY <1>1 DEF TypeOK
  <1> QED BY <1>2 DEF SavesPart

LEMMA ForgetType ==
  ASSUME TypeOK, Forget \/ UNCHANGED <<g_download_file_len, file>>
  PROVE  file' \in Seq(0..2 * Pieces) /\ g_download_file_len' \in Nat
  <1>1. CASE Forget
    <2>1. file' = <<>> /\ g_download_file_len' = 0
      BY <1>1 DEF Forget
    <2>2. <<>> \in Seq(0..2 * Pieces)
      OBVIOUS
    <2> QED BY <2>1, <2>2
  <1>2. CASE UNCHANGED <<g_download_file_len, file>>
    BY <1>2 DEF TypeOK
  <1> QED BY <1>1, <1>2

\* Every step of a download keeps the types.
LEMMA DownloadTypes ==
  ASSUME TypeOK, NEW t \in Threads, Download(t)
  PROVE  TypeOK'
  <1>0. /\ Pieces \in Nat \ {0} /\ thread[t] \in ThreadRec /\ thread[t].next \in Nat
        /\ <<>> \in Seq(0..2 * Pieces) /\ ServerImage \in Seq(0..2 * Pieces)
        /\ g_download_file_len \in Nat /\ g_download_file_len + 1 \in Nat
        /\ 0 \in 0..2 * Pieces /\ 1 \in 0..2 * Pieces
    BY UpdateAssumption DEF TypeOK, ThreadRec, Steps, ServerImage
  <1>1. ASSUME thread' \in [Threads -> ThreadRec],
               UNCHANGED <<updating, pc, got, flashed, offered, stopVars>>,
               g_update_stat' \in {"IDEL", "IN_DOWNLOAD", "PAUSED", "IN_UPDATE"},
               g_download_cmd' \in {"START", "PAUSE", "CANCEL"},
               g_download_file_len' \in Nat, g_update_file_len' \in {0, Pieces},
               g_UpdateFileHeader' \in BOOLEAN, file' \in Seq(0..2 * Pieces),
               sent' \in BOOLEAN, left' \in [Chances -> Nat],
               spoilt' \subseteq {"overlap", "short", "unsaved", "uploaded"}
        PROVE  TypeOK'
    BY <1>1 DEF TypeOK, ThreadRec, Steps, Uploading, stopVars
  <1>2. CASE Begin(t)
    BY <1>0, <1>1, <1>2, ToType, ThreadType, WatchType DEF Begin, TypeOK, Steps
  <1>3. CASE Loses(t)
    BY <1>0, <1>1, <1>3, ToType, ThreadType, WatchType, SpendType
       DEF Loses, TypeOK, Steps, ruVars, Chances
  <1>4. CASE Connect(t)
    BY <1>0, <1>1, <1>4, ToType, ThreadType, WatchType DEF Connect, TypeOK, Steps, ruVars
  <1>5. CASE SendRequest(t)
    <2>1. PICK to \in ThreadRec : ThreadStep(t, "send", to)
      <3>1. /\ OrStopped(t, "resume") \in ThreadRec /\ OrStopped(t, "head") \in ThreadRec
            /\ thread[t].resumes \in BOOLEAN
        BY <1>0, ToType DEF Steps, ThreadRec
      <3>2. \A r \in ThreadRec, n \in Nat : [r EXCEPT !.next = n] \in ThreadRec
        BY DEF ThreadRec
      <3> QED BY <1>0, <1>5, <3>1, <3>2 DEF SendRequest
    <2>2. /\ thread' \in [Threads -> ThreadRec]
          /\ UNCHANGED <<updating, pc, got, flashed, offered, stopVars>>
      BY <2>1, ThreadType
    <2>3. UNCHANGED ruVars /\ UNCHANGED <<file, sent, left>> /\ Watch({})
      BY <1>5 DEF SendRequest
    <2>4. spoilt' \subseteq {"overlap", "short", "unsaved", "uploaded"}
      BY <2>3, WatchType
    <2> QED BY <1>1, <2>2, <2>3, <2>4 DEF TypeOK, ruVars
  <1>6. CASE RecvHead(t)
    <2>1. /\ thread' \in [Threads -> ThreadRec]
          /\ UNCHANGED <<updating, pc, got, flashed, offered, stopVars>>
      BY <1>6, ToType, ThreadType DEF RecvHead, Steps
    <2>2. file' \in Seq(0..2 * Pieces) /\ g_download_file_len' \in Nat
      BY <1>0, <1>6, SaveType DEF RecvHead, TypeOK
    <2> QED BY <1>0, <1>1, <1>6, <2>1, <2>2, WatchType DEF RecvHead, TypeOK
  <1>7. CASE Resumed(t)
    BY <1>0, <1>1, <1>7, ToType, ThreadType, WatchType DEF Resumed, TypeOK, Steps
  <1>8. CASE RecvResumedHead(t)
    <2>1. /\ thread' \in [Threads -> ThreadRec]
          /\ UNCHANGED <<updating, pc, got, flashed, offered, stopVars>>
      BY <1>8, ToType, ThreadType DEF RecvResumedHead, Steps
    <2>2. left' \in [Chances -> Nat]
      BY <1>8, SpendType DEF RecvResumedHead, TypeOK, Chances
    <2>3. file' \in Seq(0..2 * Pieces)
      BY <1>0, <1>8, SaveType DEF RecvResumedHead, Junk
    <2>4. spoilt' \subseteq {"overlap", "short", "unsaved", "uploaded"}
      BY <1>8, WatchType DEF RecvResumedHead
    <2> QED BY <1>0, <1>1, <1>8, <2>1, <2>2, <2>3, <2>4 DEF RecvResumedHead, TypeOK
  <1>9. CASE Recv(t)
    <2>1. file' \in Seq(0..2 * Pieces)
      BY <1>0, <1>9, SaveType DEF Recv
    <2> QED BY <1>0, <1>1, <1>9, <2>1, ToType, ThreadType, WatchType DEF Recv, TypeOK, Steps
  <1>10. CASE RecvUnsaved(t)
    <2>1. file' \in Seq(0..2 * Pieces)
      BY <1>10, SavesPartType DEF RecvUnsaved
    <2> QED BY <1>0, <1>1, <1>10, <2>1, ToType, ThreadType, WatchType, SpendType
               DEF RecvUnsaved, TypeOK, Steps, Chances
  <1>11. CASE RecvEnds(t)
    BY <1>0, <1>1, <1>11, ToType, ThreadType, WatchType, SpendType
       DEF RecvEnds, TypeOK, Steps, Chances, ruVars
  <1>12. CASE CheckLength(t)
    <2>1. /\ thread' \in [Threads -> ThreadRec]
          /\ UNCHANGED <<updating, pc, got, flashed, offered, stopVars>>
      BY <1>12, ToType, ThreadType DEF CheckLength, Steps
    <2>2. file' \in Seq(0..2 * Pieces) /\ g_download_file_len' \in Nat
      <3>1. Forget \/ UNCHANGED <<g_download_file_len, file>>
        BY <1>12 DEF CheckLength
      <3> QED BY <3>1, ForgetType
    <2> QED BY <1>0, <1>1, <1>12, <2>1, <2>2, WatchType DEF CheckLength, TypeOK
  <1>13. CASE CheckMD5(t)
    <2>1. /\ thread' \in [Threads -> ThreadRec]
          /\ UNCHANGED <<updating, pc, got, flashed, offered, stopVars>>
      BY <1>13, ToType, ThreadType DEF CheckMD5, Steps
    <2>2. /\ file' \in Seq(0..2 * Pieces) /\ g_download_file_len' \in Nat
          /\ g_update_stat' \in {"IDEL", "IN_DOWNLOAD", "PAUSED", "IN_UPDATE"}
      <3>1. /\ Forget \/ UNCHANGED <<g_download_file_len, file>>
            /\ g_update_stat' = "IN_UPDATE" \/ UNCHANGED g_update_stat
        BY <1>13 DEF CheckMD5
      <3>2. g_update_stat' \in {"IDEL", "IN_DOWNLOAD", "PAUSED", "IN_UPDATE"}
        BY <3>1 DEF TypeOK
      <3> QED BY <3>1, <3>2, ForgetType
    <2> QED BY <1>0, <1>1, <1>13, <2>1, <2>2, WatchType DEF CheckMD5, TypeOK
  <1>14. CASE UpdateToFlash(t)
    BY <1>0, <1>1, <1>14, NewThreadType, ThreadType, WatchType
       DEF UpdateToFlash, TypeOK, ruVars
  <1>15. CASE FailedCancel(t)
    BY <1>0, <1>1, <1>15, NewThreadType, ThreadType, WatchType DEF FailedCancel, TypeOK
  <1>16. CASE FailedPause(t)
    BY <1>0, <1>1, <1>16, NewThreadType, ThreadType, WatchType DEF FailedPause, TypeOK
  <1>17. CASE FailedRetry(t)
    BY <1>0, <1>1, <1>17, ToType, ThreadType, WatchType DEF FailedRetry, TypeOK, Steps, ruVars
  <1>18. CASE Retry(t)
    BY <1>0, <1>1, <1>18, NewThreadType, ThreadType, WatchType
       DEF Retry, Successor, TypeOK, ruVars
  <1>19. CASE RecvHeadUnsaved(t)
    <2>1. file' \in Seq(0..2 * Pieces)
      BY <1>19, SavesPartType DEF RecvHeadUnsaved
    <2> QED BY <1>0, <1>1, <1>19, <2>1, ToType, ThreadType, WatchType, SpendType
               DEF RecvHeadUnsaved, TypeOK, Steps, Chances
  <1>20. CASE RecvResumedUnsaved(t)
    <2>1. file' \in Seq(0..2 * Pieces)
      BY <1>20, SavesPartType DEF RecvResumedUnsaved
    <2> QED BY <1>0, <1>1, <1>20, <2>1, ToType, ThreadType, WatchType, SpendType
               DEF RecvResumedUnsaved, TypeOK, Steps, Chances, ruVars
  <1> QED BY <1>2, <1>3, <1>4, <1>5, <1>6, <1>7, <1>8, <1>9, <1>10, <1>11, <1>12, <1>13,
             <1>14, <1>15, <1>16, <1>17, <1>18, <1>19, <1>20 DEF Download

\* So does every step of a handler.
LEMMA SpawnType ==
  ASSUME TypeOK, NEW resumes \in BOOLEAN, Spawn(resumes)
  PROVE  thread' \in [Threads -> ThreadRec]
  BY ZenonT(60), NewThreadType DEF Spawn, TypeOK, ThreadRec, Steps

LEMMA HandlerTypes ==
  ASSUME TypeOK, NEW c \in Clients, Handler(c)
  PROVE  TypeOK'
  <1> DEFINE Places == {"idle", "start", "cancel", "lost"} \cup Uploading
  <1>0. /\ Pieces \in Nat \ {0} /\ thread \in [Threads -> ThreadRec]
        /\ pc \in [Clients -> Places] /\ got \in [Clients -> 0..Pieces]
        /\ <<>> \in Seq(0..2 * Pieces) /\ Junk \in 0..2 * Pieces
        /\ g_download_file_len \in Nat
    BY UpdateAssumption DEF TypeOK, ThreadRec, Steps, Junk
  <1>1. ASSUME pc' \in [Clients -> Places], got' \in [Clients -> 0..Pieces],
               thread' \in [Threads -> ThreadRec],
               UNCHANGED <<flashed, offered>>, updating' \in BOOLEAN,
               cancelled' \in BOOLEAN, told' \in {"no", "yes", "late"},
               g_update_stat' \in {"IDEL", "IN_DOWNLOAD", "PAUSED", "IN_UPDATE"},
               g_download_cmd' \in {"START", "PAUSE", "CANCEL"},
               g_download_file_len' \in Nat, g_update_file_len' \in {0, Pieces},
               g_UpdateFileHeader' \in BOOLEAN, file' \in Seq(0..2 * Pieces),
               sent' \in BOOLEAN, left' \in [Chances -> Nat],
               spoilt' \subseteq {"overlap", "short", "unsaved", "uploaded"}
        PROVE  TypeOK'
    BY <1>1 DEF TypeOK, ThreadRec, Steps
  <1>2. \A where \in Places : [pc EXCEPT ![c] = where] \in [Clients -> Places]
    BY <1>0
  <1> HIDE DEF Places
  <1>3. /\ "idle" \in Places /\ "start" \in Places /\ "cancel" \in Places
        /\ "lost" \in Places /\ "header" \in Places /\ "upload" \in Places
        /\ "refused" \in Places /\ "upflash" \in Places /\ pc[c] \in Places
    BY <1>0 DEF Places, Uploading
  <1>4. CASE StartTest(c)
    <2>1. UNCHANGED stopVars
      BY <1>4 DEF StartTest
    <2>2. cancelled' \in BOOLEAN /\ told' \in {"no", "yes", "late"}
      BY <2>1 DEF stopVars, TypeOK
    <2>3. pc' \in [Clients -> Places]
      BY <1>2, <1>3, <1>4 DEF StartTest, HandlerStep
    <2>4. left' \in [Chances -> Nat]
      BY <1>4, SpendType DEF StartTest, Chances
    <2>5. spoilt' \subseteq {"overlap", "short", "unsaved", "uploaded"}
      BY <1>4, WatchType DEF StartTest
    <2>6. UNCHANGED <<g_update_stat, g_download_cmd, g_download_file_len,
                    g_update_file_len, g_UpdateFileHeader, updating, file, thread,
                    got, sent, flashed, offered>>
      BY <1>4 DEF StartTest, HandlerStep, ruVars
    <2> QED BY <1>0, <1>1, <2>2, <2>3, <2>4, <2>5, <2>6 DEF TypeOK
  <1>5. CASE StartSet(c)
    <2>1. told' \in {"no", "yes", "late"}
      BY <1>5 DEF StartSet, TypeOK
    <2> QED BY <1>0, <1>1, <1>2, <1>3, <1>5, <2>1, WatchType, SpawnType DEF StartSet, TypeOK
  <1>6. CASE Pause(c)
    BY <1>0, <1>1, <1>2, <1>3, <1>6, WatchType, SpendType
       DEF Pause, HandlerStep, TypeOK, Chances, Told
  <1>7. CASE Resume(c)
    BY <1>0, <1>1, <1>2, <1>3, <1>7, WatchType, SpendType, SpawnType
       DEF Resume, HandlerStep, TypeOK, Chances
  <1>8. CASE Cancel(c)
    BY <1>0, <1>1, <1>2, <1>3, <1>8, WatchType, SpendType
       DEF Cancel, HandlerStep, TypeOK, Chances, Told
  <1>9. CASE CancelDone(c)
    <2>1. pc' \in [Clients -> Places]
      BY <1>2, <1>3, <1>9 DEF CancelDone, HandlerStep
    <2>2. spoilt' \subseteq {"overlap", "short", "unsaved", "uploaded"}
      BY <1>9, WatchType DEF CancelDone
    <2>3. UNCHANGED <<g_update_stat, g_download_cmd, g_download_file_len,
                    g_update_file_len, g_UpdateFileHeader, file, thread, got, sent,
                    flashed, offered, left, told>>
      BY <1>9 DEF CancelDone, HandlerStep, ruVars
    <2>4. updating' \in BOOLEAN /\ cancelled' \in BOOLEAN
      BY <1>9 DEF CancelDone
    <2> QED BY <1>0, <1>1, <2>1, <2>2, <2>3, <2>4 DEF TypeOK
  <1>10. CASE UploadBegin(c)
    <2>1. pc' \in [Clients -> Places]
      BY <1>2, <1>3, <1>10 DEF UploadBegin, UploadStep, HandlerStep
    <2>2. spoilt' \subseteq {"overlap", "short", "unsaved", "uploaded"}
      BY <1>10, WatchType DEF UploadBegin
    <2>3. UNCHANGED <<g_update_stat, g_download_cmd, g_download_file_len,
                    g_update_file_len, g_UpdateFileHeader, thread, got, sent,
                    flashed, offered, told>>
      BY <1>10 DEF UploadBegin, UploadStep, HandlerStep, ruVars
    <2>4. updating' \in BOOLEAN /\ cancelled' \in BOOLEAN /\ file' = <<>>
      BY <1>10 DEF UploadBegin
    <2>5. left' \in [Chances -> Nat]
      BY <1>10, SpendType DEF UploadBegin, Chances
    <2> QED BY <1>0, <1>1, <2>1, <2>2, <2>3, <2>4, <2>5 DEF TypeOK
  <1>11. CASE UploadHeader(c)
    <2>1. <<Pieces + 1>> \in Seq(0..2 * Pieces) /\ 1 \in 0..Pieces
      BY <1>0
    <2>2. pc' \in [Clients -> Places] /\ UNCHANGED <<g_update_file_len, flashed, offered>>
          /\ UNCHANGED <<ruVars, thread>>
      BY <1>2, <1>3, <1>11 DEF UploadHeader, UploadStep, HandlerStep
    <2>3. /\ file' = <<Pieces + 1>> /\ got' = [got EXCEPT ![c] = 1]
          /\ UNCHANGED <<updating, sent, left, stopVars>> /\ Watch({})
      BY <1>11 DEF UploadHeader
    <2> QED BY ZenonT(60), <1>0, <1>1, <2>1, <2>2, <2>3, WatchType
               DEF TypeOK, ruVars, stopVars
  <1>12. CASE UploadPiece(c)
    <2>1. got[c] \in Nat /\ got[c] < Pieces /\ got[c] + 1 \in 0..Pieces
      BY <1>0, <1>12 DEF UploadPiece
    <2>2. Pieces + got[c] + 1 \in 0..2 * Pieces
      BY <1>0, <2>1
    <2>3. file' \in Seq(0..2 * Pieces)
      BY <1>0, <1>12, <2>2, SaveType DEF UploadPiece
    <2>4. got' \in [Clients -> 0..Pieces]
      BY <1>0, <1>12, <2>1 DEF UploadPiece
    <2> QED BY ZenonT(60), <1>0, <1>1, <1>2, <1>3, <1>12, <2>3, <2>4, WatchType
               DEF UploadPiece, UploadStep, HandlerStep, TypeOK, ruVars, stopVars
  <1>13. CASE UploadLost(c)
    <2>1. UNCHANGED stopVars
      BY <1>13 DEF UploadLost
    <2>2. cancelled' \in BOOLEAN /\ told' \in {"no", "yes", "late"}
      BY <2>1 DEF stopVars, TypeOK
    <2>3. pc' \in [Clients -> Places]
      BY <1>2, <1>3, <1>13 DEF UploadLost, UploadStep, HandlerStep
    <2>4. left' \in [Chances -> Nat]
      BY <1>13, SpendType DEF UploadLost, Chances
    <2>5. spoilt' \subseteq {"overlap", "short", "unsaved", "uploaded"}
      BY <1>13, WatchType DEF UploadLost
    <2>6. UNCHANGED <<g_update_stat, g_download_cmd, g_download_file_len,
                    g_update_file_len, g_UpdateFileHeader, updating, file, thread,
                    got, sent, flashed, offered>>
      BY <1>13 DEF UploadLost, UploadStep, HandlerStep, ruVars
    <2> QED BY <1>0, <1>1, <2>2, <2>3, <2>4, <2>5, <2>6 DEF TypeOK
  <1>14. CASE UploadChecked(c)
    <2>1. pc' \in [Clients -> Places] /\ UNCHANGED <<g_update_file_len, flashed, offered>>
          /\ UNCHANGED <<ruVars, thread>>
      BY <1>2, <1>3, <1>14 DEF UploadChecked, UploadStep, HandlerStep
    <2>2. updating' \in BOOLEAN
      BY <1>14 DEF UploadChecked, TypeOK
    <2>3. /\ got' = [got EXCEPT ![c] = 0]
          /\ UNCHANGED <<file, sent, left, stopVars>> /\ Watch({})
      BY <1>14 DEF UploadChecked
    <2>4. got' \in [Clients -> 0..Pieces]
      BY <1>0, <2>3
    <2>5. spoilt' \subseteq {"overlap", "short", "unsaved", "uploaded"}
      BY <2>3, WatchType
    <2>6. /\ UNCHANGED <<g_update_stat, g_download_cmd, g_download_file_len,
                         g_update_file_len, g_UpdateFileHeader>>
          /\ UNCHANGED thread
      BY <2>1 DEF ruVars
    <2> QED BY <1>0, <1>1, <2>1, <2>2, <2>3, <2>4, <2>5, <2>6
            DEF TypeOK, stopVars
  <1>15. CASE UploadFlash(c)
    <2>1. pc' \in [Clients -> Places]
      BY <1>2, <1>3, <1>15 DEF UploadFlash, UploadStep, HandlerStep
    <2>2. spoilt' \subseteq {"overlap", "short", "unsaved", "uploaded"}
      BY <1>15, WatchType DEF UploadFlash
    <2>3. UNCHANGED <<g_update_stat, g_download_cmd, g_download_file_len,
                    g_update_file_len, g_UpdateFileHeader, updating, file, thread,
                    got, flashed, offered, left, cancelled, told>>
      BY <1>15 DEF UploadFlash, UploadStep, HandlerStep, ruVars, stopVars
    <2>4. sent' \in BOOLEAN
      BY <1>15 DEF UploadFlash
    <2> QED BY <1>0, <1>1, <2>1, <2>2, <2>3, <2>4 DEF TypeOK
  <1>16. CASE UploadRefused(c)
    <2>1. pc' \in [Clients -> Places] /\ UNCHANGED <<g_update_file_len, flashed, offered>>
          /\ UNCHANGED <<ruVars, thread>>
      BY <1>2, <1>3, <1>16 DEF UploadRefused, UploadStep, HandlerStep
    <2>2. left' \in [Chances -> Nat]
      BY <1>16, SpendType DEF UploadRefused, Chances
    <2>3. /\ file' = <<>>
          /\ UNCHANGED <<updating, got, sent, stopVars>>
      BY <1>16 DEF UploadRefused
    <2>4. file' \in Seq(0..2 * Pieces)
      BY <2>3
    <2>5. spoilt' \subseteq {"overlap", "short", "unsaved", "uploaded"}
      <3>1. CASE WriterCount > 0
        <4>1. Watch({"uploaded", "overlap"})
          BY <1>16, <3>1 DEF UploadRefused
        <4> QED BY <4>1, WatchType
      <3>2. CASE ~(WriterCount > 0)
        <4>1. Watch({"uploaded"})
          BY <1>16, <3>2 DEF UploadRefused
        <4> QED BY <4>1, WatchType
      <3> QED BY <3>1, <3>2
    <2>6. /\ UNCHANGED <<g_update_stat, g_download_cmd, g_download_file_len,
                         g_update_file_len, g_UpdateFileHeader>>
          /\ UNCHANGED thread
      BY <2>1 DEF ruVars
    <2> QED BY <1>0, <1>1, <2>1, <2>2, <2>3, <2>4, <2>5, <2>6
            DEF TypeOK, stopVars
  <1>17. CASE UploadFails(c)
    <2>1. UNCHANGED stopVars
      BY <1>17 DEF UploadFails
    <2>2. cancelled' \in BOOLEAN /\ told' \in {"no", "yes", "late"}
      BY <2>1 DEF stopVars, TypeOK
    <2>3. pc' \in [Clients -> Places]
      BY <1>2, <1>3, <1>17 DEF UploadFails, UploadStep, HandlerStep
    <2>4. left' \in [Chances -> Nat]
      BY <1>17, SpendType DEF UploadFails, Chances
    <2>5. spoilt' \subseteq {"overlap", "short", "unsaved", "uploaded"}
      BY <1>17, WatchType DEF UploadFails
    <2>6. UNCHANGED <<g_update_stat, g_download_cmd, g_download_file_len,
                    g_update_file_len, g_UpdateFileHeader, file, thread, got, sent,
                    flashed, offered>>
      BY <1>17 DEF UploadFails, UploadStep, HandlerStep, ruVars
    <2>7. updating' \in BOOLEAN
      BY <1>17 DEF UploadFails
    <2> QED BY <1>0, <1>1, <2>2, <2>3, <2>4, <2>5, <2>6, <2>7 DEF TypeOK
  <1> QED BY <1>4, <1>5, <1>6, <1>7, <1>8, <1>9, <1>10, <1>11, <1>12, <1>13, <1>14, <1>15,
             <1>16, <1>17
             DEF Handler

LEMMA InitTypes == Init => TypeOK
  <1> SUFFICES ASSUME Init PROVE TypeOK
    OBVIOUS
  <1>1. thread \in [Threads -> ThreadRec]
    BY NewThreadType DEF Init
  <1>2. Pieces \in Nat \ {0} /\ left \in [Chances -> Nat]
    BY UpdateAssumption DEF Init
  <1>3. file \in Seq(0..2 * Pieces) /\ pc \in [Clients -> {"idle"}]
        /\ got \in [Clients -> 0..Pieces]
    BY <1>2 DEF Init
  <1> QED BY <1>1, <1>2, <1>3 DEF Init, TypeOK, ThreadRec, Steps

LEMMA NextTypes == TypeOK /\ [Next]_vars => TypeOK'
  <1> SUFFICES ASSUME TypeOK, [Next]_vars PROVE TypeOK'
    OBVIOUS
  <1>1. CASE Flash
    BY <1>1 DEF Flash, TypeOK, ruVars, stopVars
  <1>2. CASE UNCHANGED vars
    BY <1>2 DEF vars, ruVars, stopVars, TypeOK
  <1> QED BY <1>1, <1>2, DownloadTypes, HandlerTypes DEF Next

\* Flags, commands, lengths and files have their types, whatever is asked for.
THEOREM TypeCorrect == Spec => []TypeOK
  BY InitTypes, NextTypes, PTL DEF Spec

LEMMA Types == Spec => []TypeOK
  BY TypeCorrect

-----------------------------------------------------------------------------
(* One writer.                                                             *)

Once == "overlap" \notin spoilt => WriterCount <= 1

LEMMA Counts ==
  ASSUME TypeOK
  PROVE  /\ IsFiniteSet(Active) /\ Cardinality(Active) \in Nat
         /\ IsFiniteSet(Uploaders) /\ Cardinality(Uploaders) \in Nat
         /\ WriterCount = Cardinality(Active) + Cardinality(Uploaders)
                             + (IF sent THEN 1 ELSE 0)
         /\ WriterCount \in Nat
  <1>1. IsFiniteSet(Active) /\ IsFiniteSet(Uploaders)
    BY UpdateAssumption, FS_Subset DEF Active, Uploaders
  <1>2. Cardinality(Active) \in Nat /\ Cardinality(Uploaders) \in Nat
    BY <1>1, FS_CardinalityType
  <1>3. WriterCount = Cardinality(Active) + Cardinality(Uploaders)
                        + (IF sent THEN 1 ELSE 0)
    BY DEF WriterCount, Uploaders
  <1> QED BY <1>1, <1>2, <1>3

LEMMA AtMostOne ==
  ASSUME NEW S, IsFiniteSet(S), Cardinality(S) <= 1, NEW x \in S, NEW y \in S
  PROVE  x = y
  <1> SUFFICES ASSUME x # y PROVE FALSE
    OBVIOUS
  <1>1. /\ IsFiniteSet({x}) /\ Cardinality({x}) = 1 /\ IsFiniteSet(S \ {x})
    BY FS_Singleton, FS_Subset
  <1>2. Cardinality(S \ {x}) = Cardinality(S) - 1 /\ Cardinality(S) \in Nat
    BY FS_RemoveElement, FS_CardinalityType
  <1>3. Cardinality(S \ {x}) # 0
    BY <1>1, FS_EmptySet
  <1>4. Cardinality(S \ {x}) \in Nat
    BY <1>1, FS_CardinalityType
  <1> QED BY <1>2, <1>3, <1>4

\* A writer is alone.
LEMMA Alone ==
  ASSUME TypeOK, WriterCount <= 1
  PROVE  /\ \A t, u \in Active : t = u
         /\ \A c, d \in Uploaders : c = d
         /\ Active # {} => Uploaders = {} /\ ~sent
         /\ Uploaders # {} => ~sent
  <1>1. /\ Cardinality(Active) \in Nat /\ Cardinality(Uploaders) \in Nat
        /\ IsFiniteSet(Active) /\ IsFiniteSet(Uploaders)
        /\ Cardinality(Active) + Cardinality(Uploaders) + (IF sent THEN 1 ELSE 0) <= 1
    BY Counts
  <1>2. Cardinality(Active) <= 1 /\ Cardinality(Uploaders) <= 1
    BY <1>1
  <1>3. Active # {} => Cardinality(Active) # 0
    BY <1>1, FS_EmptySet
  <1>4. Uploaders # {} => Cardinality(Uploaders) # 0
    BY <1>1, FS_EmptySet
  <1>5. /\ \A t, u \in Active : t = u
        /\ \A c, d \in Uploaders : c = d
    BY <1>1, <1>2, AtMostOne
  <1>6. (Active # {} => Uploaders = {} /\ ~sent) /\ (Uploaders # {} => ~sent)
    BY <1>1, <1>3, <1>4
  <1> QED BY <1>5, <1>6

LEMMA SomeWriter ==
  ASSUME TypeOK, Active # {} \/ Uploaders # {} \/ sent
  PROVE  WriterCount > 0
  <1>1. /\ Cardinality(Active) \in Nat /\ Cardinality(Uploaders) \in Nat
        /\ IsFiniteSet(Active) /\ IsFiniteSet(Uploaders)
        /\ WriterCount = Cardinality(Active) + Cardinality(Uploaders)
                            + (IF sent THEN 1 ELSE 0)
    BY Counts
  <1>2. Active # {} => Cardinality(Active) # 0
    BY <1>1, FS_EmptySet
  <1>3. Uploaders # {} => Cardinality(Uploaders) # 0
    BY <1>1, FS_EmptySet
  <1> QED BY <1>1, <1>2, <1>3

\* The same as a formula, true of every state and so of the next.
Writers ==
  /\ TypeOK => WriterCount \in Nat
  /\ TypeOK /\ WriterCount <= 1 =>
       /\ \A t, u \in Active : t = u
       /\ \A c, d \in Uploaders : c = d
       /\ Active # {} => Uploaders = {} /\ ~sent
       /\ Uploaders # {} => ~sent
  /\ TypeOK /\ (Active # {} \/ Uploaders # {} \/ sent) => WriterCount > 0

LEMMA WritersNow == Writers
  BY Counts, Alone, SomeWriter DEF Writers

LEMMA WritersNext == Writers'
  BY WritersNow, PTL

LEMMA WatchOnce ==
  ASSUME TypeOK, NEW what, Watch(what)
  PROVE  spoilt \subseteq spoilt' /\ what \subseteq spoilt'
         /\ ("overlap" \notin spoilt' => ~(WriterCount' > 1))
  BY DEF Watch

LEMMA StepWatches ==
  ASSUME (\E t \in Threads : Download(t)) \/ (\E c \in Clients : Handler(c))
  PROVE  \E what : Watch(what)
  <1>1. ASSUME NEW t \in Threads, Download(t) PROVE \E what : Watch(what)
    BY <1>1 DEF Download, Begin, Loses, Connect, SendRequest, RecvHead, Resumed,
       RecvHeadUnsaved, RecvResumedHead, RecvResumedUnsaved, Recv, RecvUnsaved,
       RecvEnds, CheckLength, CheckMD5, UpdateToFlash, FailedCancel, FailedPause,
       FailedRetry, Retry
  <1>2. ASSUME NEW c \in Clients, Handler(c) PROVE \E what : Watch(what)
    BY <1>2 DEF Handler, StartTest, StartSet, Pause, Resume, Cancel, CancelDone,
       UploadBegin, UploadRefused, UploadFails, UploadHeader, UploadPiece, UploadLost,
       UploadChecked, UploadFlash
  <1> QED BY <1>1, <1>2

LEMMA NextOnce ==
  ASSUME TypeOK, Once, [Next]_vars
  PROVE  Once' /\ spoilt \subseteq spoilt'
  <1>0. TypeOK'
    BY NextTypes
  <1>1. CASE \E what : Watch(what)
    <2>1. PICK what : Watch(what)
      BY <1>1
    <2>2. WriterCount' \in Nat
      BY <1>0, WritersNext DEF Writers
    <2>3. spoilt \subseteq spoilt' /\ ("overlap" \notin spoilt' => ~(WriterCount' > 1))
      BY <2>1, WatchOnce
    <2>4. "overlap" \notin spoilt' => WriterCount' <= 1
      BY <2>2, <2>3
    <2> QED BY <2>3, <2>4 DEF Once
  <1>2. CASE Flash \/ UNCHANGED vars
    <2>1. UNCHANGED <<thread, pc, sent, spoilt>>
      BY <1>2 DEF Flash, vars
    <2> QED BY <2>1 DEF Once, WriterCount, Active
  <1> QED BY <1>1, <1>2, StepWatches DEF Next

-----------------------------------------------------------------------------
(* What is known of the file.                                              *)

Images == {ServerImage, ClientImage}

FileKnown ==
  "overlap" \notin spoilt =>
    /\ \A t \in Threads : thread[t].pc = "flash" => file = ServerImage
    /\ \A c \in Clients : pc[c] = "upflash" => file = ClientImage
    /\ sent => file \in Images
    /\ Over => flashed \in Images

LEMMA Fields ==
  ASSUME TypeOK, NEW t \in Threads, NEW where
  PROVE  /\ To(t, where).pc = where /\ Went(t).pc = "recv" /\ NoThread.pc = "none"
         /\ OrStopped(t, where).pc \in {where, "failed"} /\ Successor(t).pc = "begin"
  <1>1. /\ thread[t] \in ThreadRec
    BY DEF TypeOK, ThreadRec, Steps
  <1>2. \A w : To(t, w).pc = w
    BY <1>1 DEF To, ThreadRec
  <1>3. DOMAIN To(t, "recv") = {"pc", "resumes", "next"}
    BY <1>1 DEF To, ThreadRec
  <1>4. Went(t).pc = "recv"
    BY <1>2, <1>3 DEF Went
  <1>5. OrStopped(t, where).pc \in {where, "failed"}
    BY <1>2 DEF OrStopped
  <1> QED BY <1>2, <1>4, <1>5 DEF NoThread, Successor

LEMMA StepsTo ==
  ASSUME TypeOK, NEW t \in Threads, NEW from, NEW to, ThreadStep(t, from, to)
  PROVE  /\ ~Over /\ thread[t].pc = from /\ thread'[t] = to
         /\ \A u \in Threads \ {t} : thread'[u] = thread[u]
         /\ UNCHANGED <<updating, pc, got, flashed, offered, stopVars>>
  BY DEF TypeOK, ThreadStep

\* A step of a download: its own place, and what it does to the file before it
\* asks for the image to be flashed.
LEMMA DownloadShape ==
  ASSUME TypeOK, NEW t \in Threads, Download(t)
  PROVE  /\ ~Over /\ thread[t].pc # "none"
         /\ \A u \in Threads \ {t} : thread'[u] = thread[u]
         /\ UNCHANGED <<updating, pc, flashed>>
         /\ thread'[t].pc = "flash" => file' = ServerImage
         /\ sent' => sent \/ (thread[t].pc = "flash" /\ file' = file)
  <1>1. CASE Begin(t)
    BY <1>1, StepsTo, Fields DEF Begin
  <1>2. CASE Loses(t)
    BY <1>2, StepsTo, Fields DEF Loses
  <1>3. CASE Connect(t)
    BY <1>3, StepsTo, Fields DEF Connect
  <1>4. CASE SendRequest(t)
    <2>1. PICK to : ThreadStep(t, "send", to) /\ to.pc # "flash"
      <3> DEFINE w == OrStopped(t, IF thread[t].resumes THEN "resume" ELSE "head")
                 n == IF thread[t].resumes THEN g_download_file_len + 1 ELSE 1
      <3>1. w.pc # "flash" /\ w \in ThreadRec
        BY Fields, ToType DEF Steps
      <3>2. [w EXCEPT !.next = n].pc = w.pc
        BY <3>1 DEF ThreadRec
      <3>3. ThreadStep(t, "send", [w EXCEPT !.next = n])
        BY <1>4 DEF SendRequest
      <3> QED BY <3>1, <3>2, <3>3
    <2> QED BY <1>4, <2>1, StepsTo DEF SendRequest
  <1>5. CASE RecvHead(t)
    BY <1>5, StepsTo, Fields DEF RecvHead
  <1>6. CASE Resumed(t)
    BY <1>6, StepsTo, Fields DEF Resumed
  <1>7. CASE RecvResumedHead(t)
    BY <1>7, StepsTo, Fields DEF RecvResumedHead
  <1>8. CASE Recv(t)
    BY <1>8, StepsTo, Fields DEF Recv
  <1>9. CASE RecvUnsaved(t)
    BY <1>9, StepsTo, Fields DEF RecvUnsaved
  <1>10. CASE RecvEnds(t)
    BY <1>10, StepsTo, Fields DEF RecvEnds
  <1>11. CASE CheckLength(t)
    BY <1>11, StepsTo, Fields DEF CheckLength
  <1>12. CASE CheckMD5(t)
    BY <1>12, StepsTo, Fields DEF CheckMD5
  <1>13. CASE UpdateToFlash(t)
    BY <1>13, StepsTo, Fields DEF UpdateToFlash
  <1>14. CASE FailedCancel(t)
    BY <1>14, StepsTo, Fields DEF FailedCancel
  <1>15. CASE FailedPause(t)
    BY <1>15, StepsTo, Fields DEF FailedPause
  <1>16. CASE FailedRetry(t)
    BY <1>16, StepsTo, Fields DEF FailedRetry
  <1>17. CASE Retry(t)
    BY <1>17, StepsTo, Fields DEF Retry
  <1>18. CASE RecvHeadUnsaved(t)
    <2>1. /\ ThreadStep(t, "head", To(t, "failed"))
          /\ UNCHANGED <<g_update_stat, g_download_cmd, sent>>
      BY <1>18 DEF RecvHeadUnsaved
    <2> QED BY <2>1, StepsTo, Fields
  <1>19. CASE RecvResumedUnsaved(t)
    BY <1>19, StepsTo, Fields DEF RecvResumedUnsaved
  <1> QED BY <1>1, <1>2, <1>3, <1>4, <1>5, <1>6, <1>7, <1>8, <1>9, <1>10, <1>11, <1>12,
             <1>13, <1>14, <1>15, <1>16, <1>17, <1>18, <1>19 DEF Download

LEMMA StaysActive ==
  ASSUME TypeOK, NEW c \in Clients, Handler(c), NEW u \in Active
  PROVE  u \in Active'
  <1>1. ASSUME NEW resumes, Spawn(resumes) PROVE u \in Active'
    BY <1>1 DEF Spawn, Active, TypeOK, NoThread
  <1> QED BY <1>1 DEF Active, Handler, StartTest, StartSet, Pause, Resume, Cancel, CancelDone,
     UploadBegin, UploadRefused, UploadFails, UploadHeader, UploadPiece, UploadLost,
     UploadChecked, UploadFlash, UploadStep, HandlerStep

LEMMA Spawned ==
  ASSUME TypeOK, NEW resumes, Spawn(resumes)
  PROVE  /\ Active' # {}
         /\ \A t \in Threads : thread'[t].pc = "flash" => thread[t].pc = "flash"
  BY DEF Spawn, Active, TypeOK, NoThread

\* A step of a handler: only one that is among the uploaders writes the file, or
\* one that has refused an upload, which counts as two if there is a writer.
LEMMA HandlerShape ==
  ASSUME TypeOK, NEW c \in Clients, Handler(c)
  PROVE  /\ ~Over /\ UNCHANGED flashed
         /\ \A d \in Clients \ {c} : pc'[d] = pc[d]
         /\ \A t \in Threads : thread'[t].pc = "flash" => thread[t].pc = "flash"
         /\ \/ file' = file
            \/ pc'[c] \in Uploading \ {"upflash"}
            \/ "overlap" \in spoilt'
            \/ ~(WriterCount > 0) /\ UNCHANGED <<thread, pc, sent>>
         /\ pc'[c] = "upflash" => file' = ClientImage \/ "overlap" \in spoilt'
         /\ sent' => sent \/ (pc[c] = "upflash" /\ file' = file)
  <1>0. pc \in [Clients -> {"idle", "start", "cancel", "lost"} \cup Uploading]
    BY DEF TypeOK
  <1>1. CASE StartTest(c)
    BY <1>0, <1>1 DEF StartTest, HandlerStep
  <1>2. CASE StartSet(c)
    BY <1>0, <1>2, Spawned DEF StartSet
  <1>3. CASE Pause(c)
    BY <1>0, <1>3 DEF Pause, HandlerStep
  <1>4. CASE Resume(c)
    BY <1>0, <1>4, Spawned DEF Resume, HandlerStep
  <1>5. CASE Cancel(c)
    BY <1>0, <1>5 DEF Cancel, HandlerStep
  <1>6. CASE CancelDone(c)
    BY <1>0, <1>6 DEF CancelDone, HandlerStep
  <1>7. CASE UploadBegin(c)
    BY <1>0, <1>7 DEF UploadBegin, UploadStep, HandlerStep, Uploading
  <1>8. CASE UploadHeader(c)
    BY <1>0, <1>8 DEF UploadHeader, UploadStep, HandlerStep, Uploading
  <1>9. CASE UploadPiece(c)
    BY <1>0, <1>9 DEF UploadPiece, UploadStep, HandlerStep, Uploading
  <1>10. CASE UploadLost(c)
    BY <1>0, <1>10 DEF UploadLost, UploadStep, HandlerStep
  <1>11. CASE UploadChecked(c)
    BY <1>0, <1>11 DEF UploadChecked, UploadStep, HandlerStep, Accepts
  <1>12. CASE UploadFlash(c)
    BY <1>0, <1>12 DEF UploadFlash, UploadStep, HandlerStep
  <1>13. CASE UploadRefused(c)
    BY <1>0, <1>13, WatchOnce DEF UploadRefused, UploadStep, HandlerStep
  <1>14. CASE UploadFails(c)
    BY <1>0, <1>14 DEF UploadFails, UploadStep, HandlerStep
  <1> QED BY <1>1, <1>2, <1>3, <1>4, <1>5, <1>6, <1>7, <1>8, <1>9, <1>10, <1>11, <1>12,
             <1>13, <1>14 DEF Handler

LEMMA DownloadKnows ==
  ASSUME TypeOK, TypeOK', Once, Once', FileKnown, spoilt \subseteq spoilt',
         NEW t \in Threads, Download(t)
  PROVE  FileKnown'
  <1> SUFFICES ASSUME "overlap" \notin spoilt' PROVE FileKnown'
    BY DEF FileKnown
  <1>1. /\ "overlap" \notin spoilt /\ WriterCount <= 1
        /\ t \in Active
    BY DownloadShape DEF Once, Active
  <1>2. /\ \A u \in Active : u = t
        /\ Uploaders = {} /\ ~sent
    BY <1>1, WritersNow DEF Writers
  <1>3. ASSUME NEW u \in Threads, thread'[u].pc = "flash" PROVE file' = ServerImage
    BY <1>2, <1>3, DownloadShape DEF Active
  <1>4. ASSUME NEW c \in Clients PROVE pc'[c] # "upflash"
    BY <1>2, DownloadShape DEF Uploaders, Uploading
  <1>5. sent' => file' \in Images
    BY <1>1, <1>2, DownloadShape DEF FileKnown, Images
  <1>6. ~Over'
    BY DownloadShape DEF Over
  <1> QED BY <1>3, <1>4, <1>5, <1>6 DEF FileKnown

LEMMA HandlerKnows ==
  ASSUME TypeOK, TypeOK', Once, Once', FileKnown, spoilt \subseteq spoilt',
         NEW c \in Clients, Handler(c)
  PROVE  FileKnown'
  <1> SUFFICES ASSUME "overlap" \notin spoilt' PROVE FileKnown'
    BY DEF FileKnown
  <1>1. "overlap" \notin spoilt /\ WriterCount' <= 1
    BY DEF Once
  <1>2. /\ \A d, e \in Uploaders' : d = e
        /\ Active' # {} => Uploaders' = {} /\ ~sent'
        /\ Uploaders' # {} => ~sent'
    BY <1>1, WritersNext DEF Writers
  <1>7. ~Over'
    BY HandlerShape DEF Over
  <1>8. CASE ~(WriterCount > 0) /\ UNCHANGED <<thread, pc, sent>>
    <2>1. Active = {} /\ Uploaders = {} /\ ~sent
      BY <1>8, WritersNow DEF Writers
    <2>2. /\ \A t \in Threads : thread'[t].pc # "flash"
          /\ \A d \in Clients : pc'[d] # "upflash"
      BY <1>8, <2>1 DEF Active, Uploaders, Uploading
    <2> QED BY <1>7, <1>8, <2>1, <2>2 DEF FileKnown
  <1> SUFFICES ASSUME file' = file \/ c \in Uploaders' PROVE FileKnown'
    BY <1>8, HandlerShape DEF Uploaders
  <1>3. file' = file \/ c \in Uploaders'
    OBVIOUS
  <1>4. ASSUME NEW t \in Threads, thread'[t].pc = "flash" PROVE file' = ServerImage
    <2>1. t \in Active'
      BY <1>4 DEF Active
    <2>2. file' = file /\ thread[t].pc = "flash"
      BY <1>2, <1>3, <1>4, <2>1, HandlerShape
    <2> QED BY <1>1, <2>2 DEF FileKnown
  <1>5. ASSUME NEW d \in Clients, pc'[d] = "upflash" PROVE file' = ClientImage
    <2>1. CASE d = c
      BY <1>5, <2>1, HandlerShape
    <2>2. CASE d # c
      <3>1. d \in Uploaders' /\ pc[d] = "upflash"
        BY <1>5, <2>2, HandlerShape DEF Uploaders, Uploading
      <3>2. file' = file
        BY <1>2, <1>3, <2>2, <3>1
      <3> QED BY <1>1, <3>1, <3>2 DEF FileKnown
    <2> QED BY <2>1, <2>2
  <1>6. ASSUME sent' PROVE file' \in Images
    <2>1. file' = file
      BY <1>2, <1>3, <1>6
    <2>2. sent \/ pc[c] = "upflash"
      BY <1>6, HandlerShape
    <2> QED BY <1>1, <2>1, <2>2 DEF FileKnown, Images
  <1> QED BY <1>4, <1>5, <1>6, <1>7 DEF FileKnown

LEMMA NextKnows ==
  ASSUME TypeOK, Once, FileKnown, [Next]_vars
  PROVE  FileKnown'
  <1>1. TypeOK' /\ Once' /\ spoilt \subseteq spoilt'
    BY NextTypes, NextOnce
  <1>2. CASE Flash
    BY <1>2 DEF Flash, FileKnown
  <1>3. CASE UNCHANGED vars
    BY <1>3 DEF vars, FileKnown, Over
  <1> QED BY <1>1, <1>2, <1>3, DownloadKnows, HandlerKnows DEF Next

LEMMA InitOnce == Init => Once /\ FileKnown
  <1> SUFFICES ASSUME Init PROVE Once /\ FileKnown
    OBVIOUS
  <1>1. /\ Active = {} /\ Uploaders = {} /\ ~sent /\ ~Over
    BY DEF Init, Active, Uploaders, Uploading, Over, NoThread
  <1>2. WriterCount = 0
    BY <1>1, InitTypes, Counts, FS_EmptySet
  <1>3. \A t \in Threads : thread[t].pc = "none"
    BY DEF Init, NoThread
  <1>4. \A c \in Clients : pc[c] = "idle"
    BY DEF Init
  <1> QED BY <1>1, <1>2, <1>3, <1>4 DEF Once, FileKnown

LEMMA Known == Spec => [](TypeOK /\ Once /\ FileKnown)
  BY InitTypes, NextTypes, InitOnce, NextOnce, NextKnows, PTL DEF Spec

\* What is flashed is a whole image of one of the two sources, unless two have
\* written the file at one time: from the comparison to the message nobody
\* else can have touched it.
THEOREM FlashesIntact == Spec => []FlashedIntact
  <1>1. TypeOK /\ Once /\ FileKnown => FlashedIntact
    BY DEF FileKnown, FlashedIntact, Images
  <1> QED BY <1>1, Known, PTL

-----------------------------------------------------------------------------
(* Who has the flag.                                                       *)

\* A download that was told to cancel has been told so by a handler that is yet
\* to clear the flag, unless an upload has taken the flag since.
CancelIsUnderWay ==
  updating /\ g_download_cmd = "CANCEL" /\ "overlap" \notin spoilt
    => sent \/ \E c \in Clients : pc[c] \in {"cancel", "lost"} \cup Uploading

Owned == CancelIsUnderWay /\ FlagIsOwned

LEMMA DownloadFlag ==
  ASSUME TypeOK, NEW t \in Threads, Download(t)
  PROVE  /\ sent => sent'
         /\ g_download_cmd' = "CANCEL" => g_download_cmd = "CANCEL"
         /\ \/ thread'[t].pc # "none" \/ sent' \/ g_update_stat' = "PAUSED"
            \/ g_download_cmd = "CANCEL"
  <1>1. CASE Begin(t)
    BY <1>1, StepsTo, Fields DEF Begin
  <1>2. CASE Loses(t)
    BY <1>2, StepsTo, Fields DEF Loses, ruVars
  <1>3. CASE Connect(t)
    BY <1>3, StepsTo, Fields DEF Connect, ruVars
  <1>4. CASE SendRequest(t)
    <2> DEFINE w == OrStopped(t, IF thread[t].resumes THEN "resume" ELSE "head")
               n == IF thread[t].resumes THEN g_download_file_len + 1 ELSE 1
    <2>1. w.pc # "none" /\ w \in ThreadRec
      BY Fields, ToType DEF Steps
    <2>2. [w EXCEPT !.next = n].pc # "none"
      BY <2>1 DEF ThreadRec
    <2>3. ThreadStep(t, "send", [w EXCEPT !.next = n])
      BY <1>4 DEF SendRequest
    <2>4. UNCHANGED <<g_download_cmd, sent>>
      BY <1>4 DEF SendRequest, ruVars
    <2>5. thread'[t] = [w EXCEPT !.next = n]
      BY <2>3, StepsTo
    <2> QED BY <2>2, <2>4, <2>5
  <1>5. CASE RecvHead(t)
    BY <1>5, StepsTo, Fields DEF RecvHead
  <1>6. CASE Resumed(t)
    BY <1>6, StepsTo, Fields DEF Resumed
  <1>7. CASE RecvResumedHead(t)
    BY <1>7, StepsTo, Fields DEF RecvResumedHead
  <1>8. CASE Recv(t)
    BY <1>8, StepsTo, Fields DEF Recv
  <1>9. CASE RecvUnsaved(t)
    BY <1>9, StepsTo, Fields DEF RecvUnsaved
  <1>10. CASE RecvEnds(t)
    BY <1>10, StepsTo, Fields DEF RecvEnds, ruVars
  <1>11. CASE CheckLength(t)
    BY <1>11, StepsTo, Fields DEF CheckLength
  <1>12. CASE CheckMD5(t)
    BY <1>12, StepsTo, Fields DEF CheckMD5
  <1>13. CASE UpdateToFlash(t)
    BY <1>13, StepsTo, Fields DEF UpdateToFlash, ruVars
  <1>14. CASE FailedCancel(t)
    BY <1>14, StepsTo, Fields DEF FailedCancel
  <1>15. CASE FailedPause(t)
    BY <1>15, StepsTo, Fields DEF FailedPause
  <1>16. CASE FailedRetry(t)
    BY <1>16, StepsTo, Fields DEF FailedRetry, ruVars
  <1>17. CASE Retry(t)
    BY <1>17, StepsTo, Fields DEF Retry, ruVars
  <1>18. CASE RecvHeadUnsaved(t)
    <2>1. /\ ThreadStep(t, "head", To(t, "failed"))
          /\ UNCHANGED <<g_update_stat, g_download_cmd, sent>>
      BY <1>18 DEF RecvHeadUnsaved
    <2> QED BY <2>1, StepsTo, Fields
  <1>19. CASE RecvResumedUnsaved(t)
    BY <1>19, StepsTo, Fields DEF RecvResumedUnsaved, ruVars
  <1> QED BY <1>1, <1>2, <1>3, <1>4, <1>5, <1>6, <1>7, <1>8, <1>9, <1>10, <1>11, <1>12,
             <1>13, <1>14, <1>15, <1>16, <1>17, <1>18, <1>19 DEF Download

\* A handler that leaves the flag set answers for it, or has a download to do
\* so, or has only told one to pause.
LEMMA HandlerFlag ==
  ASSUME TypeOK, NEW c \in Clients, Handler(c), updating'
  PROVE  \/ pc'[c] \in {"cancel", "lost"} \cup Uploading
         \/ sent'
         \/ Active' # {} /\ g_download_cmd' # "CANCEL"
         \/ /\ g_download_cmd' # "CANCEL" \/ UNCHANGED g_download_cmd
            /\ UNCHANGED <<updating, g_update_stat, thread, sent, pc>>
  <1>0. pc \in [Clients -> {"idle", "start", "cancel", "lost"} \cup Uploading]
    BY DEF TypeOK
  <1>1. CASE StartTest(c)
    BY <1>1 DEF StartTest
  <1>2. CASE StartSet(c)
    BY <1>2, Spawned DEF StartSet
  <1>3. CASE Pause(c)
    BY <1>0, <1>3 DEF Pause, HandlerStep
  <1>4. CASE Resume(c)
    BY <1>4, Spawned DEF Resume
  <1>5. CASE Cancel(c)
    BY <1>0, <1>5 DEF Cancel, HandlerStep
  <1>6. CASE CancelDone(c)
    BY <1>6 DEF CancelDone
  <1>7. CASE UploadBegin(c)
    BY <1>0, <1>7 DEF UploadBegin, UploadStep, HandlerStep, Uploading
  <1>8. CASE UploadHeader(c)
    BY <1>0, <1>8 DEF UploadHeader, UploadStep, HandlerStep, Uploading
  <1>9. CASE UploadPiece(c)
    BY <1>0, <1>9 DEF UploadPiece, UploadStep, HandlerStep, Uploading
  <1>10. CASE UploadLost(c)
    BY <1>0, <1>10 DEF UploadLost, UploadStep, HandlerStep
  <1>11. CASE UploadChecked(c)
    BY <1>0, <1>11 DEF UploadChecked, UploadStep, HandlerStep, Uploading
  <1>12. CASE UploadFlash(c)
    BY <1>12 DEF UploadFlash
  <1>13. CASE UploadRefused(c)
    BY <1>0, <1>13 DEF UploadRefused, UploadStep, HandlerStep, ruVars
  <1>14. CASE UploadFails(c)
    BY <1>14 DEF UploadFails
  <1> QED BY <1>1, <1>2, <1>3, <1>4, <1>5, <1>6, <1>7, <1>8, <1>9, <1>10, <1>11, <1>12,
             <1>13, <1>14 DEF Handler

LEMMA DownloadOwned ==
  ASSUME TypeOK, TypeOK', Owned, spoilt \subseteq spoilt', NEW t \in Threads, Download(t)
  PROVE  Owned'
  <1>1. UNCHANGED <<updating, pc>>
    BY DownloadShape
  <1>2. CancelIsUnderWay'
    BY <1>1, DownloadFlag DEF Owned, CancelIsUnderWay
  <1>3. FlagIsOwned'
    <2> SUFFICES ASSUME updating', "overlap" \notin spoilt',
                        ~(\E c \in Clients : pc'[c] \in {"cancel", "lost"}),
                        g_update_stat' # "PAUSED"
                 PROVE  WriterCount' > 0
      BY DEF FlagIsOwned
    <2>1. CASE thread'[t].pc # "none" \/ sent'
      BY <2>1, WritersNext DEF Writers, Active
    <2>2. CASE g_download_cmd = "CANCEL" /\ ~sent'
      <3>1. ~sent
        BY <2>2, DownloadFlag
      <3>2. \E c \in Clients : pc'[c] \in Uploading
        BY <1>1, <2>2, <3>1 DEF Owned, CancelIsUnderWay
      <3> QED BY <3>2, WritersNext DEF Writers, Uploaders
    <2> QED BY <2>1, <2>2, DownloadFlag
  <1> QED BY <1>2, <1>3 DEF Owned

LEMMA HandlerOwned ==
  ASSUME TypeOK, TypeOK', Owned, spoilt \subseteq spoilt', NEW c \in Clients, Handler(c)
  PROVE  Owned'
  <1> SUFFICES ASSUME updating', "overlap" \notin spoilt' PROVE Owned'
    BY DEF Owned, CancelIsUnderWay, FlagIsOwned
  <1>1. CASE pc'[c] \in Uploading \/ sent'
    <2>1. WriterCount' > 0
      BY <1>1, WritersNext DEF Writers, Uploaders
    <2> QED BY <1>1, <2>1 DEF Owned, CancelIsUnderWay, FlagIsOwned
  <1>2. CASE pc'[c] \in {"cancel", "lost"}
    BY <1>2 DEF Owned, CancelIsUnderWay, FlagIsOwned
  <1>3. CASE Active' # {} /\ g_download_cmd' # "CANCEL"
    <2>1. WriterCount' > 0
      BY <1>3, WritersNext DEF Writers
    <2> QED BY <1>3, <2>1 DEF Owned, CancelIsUnderWay, FlagIsOwned
  <1>4. CASE /\ g_download_cmd' # "CANCEL" \/ UNCHANGED g_download_cmd
             /\ UNCHANGED <<updating, g_update_stat, thread, sent, pc>>
    <2>1. WriterCount' = WriterCount
      BY <1>4 DEF WriterCount, Active
    <2> QED BY <1>4, <2>1 DEF Owned, CancelIsUnderWay, FlagIsOwned
  <1> QED BY <1>1, <1>2, <1>3, <1>4, HandlerFlag

LEMMA NextOwned ==
  ASSUME TypeOK, Once, Owned, [Next]_vars
  PROVE  Owned'
  <1>1. TypeOK' /\ spoilt \subseteq spoilt'
    BY NextTypes, NextOnce
  <1>2. CASE Flash \/ UNCHANGED vars
    <2>1. UNCHANGED <<updating, g_update_stat, g_download_cmd, thread, pc, sent, spoilt>>
      BY <1>2 DEF Flash, vars, ruVars
    <2>2. WriterCount' = WriterCount
      BY <2>1 DEF WriterCount, Active
    <2> QED BY <2>1, <2>2 DEF Owned, CancelIsUnderWay, FlagIsOwned
  <1> QED BY <1>1, <1>2, DownloadOwned, HandlerOwned DEF Next

\* The flag IsUpdating tests never stays behind when nobody is left to clear
\* it, as long as no two write the file at one time; the upload of a client
\* that is gone counts as somebody.
THEOREM FlagHasAnOwner == Spec => []FlagIsOwned
  <1>1. Init => Owned
    BY DEF Init, Owned, CancelIsUnderWay, FlagIsOwned
  <1>2. Owned => FlagIsOwned
    BY DEF Owned
  <1>3. Spec => [](TypeOK /\ Once /\ Owned)
    BY <1>1, InitTypes, NextTypes, InitOnce, NextOnce, NextOwned, PTL DEF Spec
  <1> QED BY <1>2, <1>3, PTL

-----------------------------------------------------------------------------
(* What a paused download has.                                             *)

Prefix(n) == [i \in 1..n |-> i]

\* What was counted is what the file has.
Whole == g_download_file_len <= Pieces /\ file = Prefix(g_download_file_len)

\* The place of a download says what it relies on.
At(t) ==
  /\ thread[t].pc = "begin" =>
       /\ thread[t].resumes <=> g_download_file_len # 0
       /\ g_download_file_len # 0 => Whole
  /\ thread[t].pc \in {"connect", "send"} =>
       Whole /\ (thread[t].resumes <=> g_download_file_len # 0)
  /\ thread[t].pc = "head" =>
       Whole /\ g_download_file_len = 0 /\ thread[t].next = 1
  /\ thread[t].pc \in {"resume", "rhead", "recv"} =>
       Whole /\ thread[t].next = g_download_file_len + 1
  /\ thread[t].pc \in {"check", "md5", "failed", "retry"} => Whole
  /\ thread[t].pc = "flash" => g_update_stat = "IN_UPDATE"

Undisturbed ==
  spoilt = {} =>
    /\ \A c \in Clients : pc[c] \notin Uploading
    /\ \A t \in Active : At(t)
    /\ g_update_stat = "PAUSED" /\ Active = {} => Whole

LEMMA Prefixes ==
  /\ Prefix(0) = <<>> /\ Append(<<>>, 1) = Prefix(1)
  /\ \A n \in Nat : Append(Prefix(n), n + 1) = Prefix(n + 1)
  /\ \A n \in Nat : n <= Pieces => Prefix(n) = SubSeq(ServerImage, 1, n)
  <1>1. Prefix(0) = <<>>
    BY DEF Prefix
  <1>2. ASSUME NEW n \in Nat PROVE Append(Prefix(n), n + 1) = Prefix(n + 1)
    <2>1. Prefix(n) \in Seq(Nat) /\ Len(Prefix(n)) = n
      BY DEF Prefix
    <2>2. /\ Append(Prefix(n), n + 1) \in Seq(Nat)
          /\ Len(Append(Prefix(n), n + 1)) = n + 1
          /\ \A i \in 1..n : Append(Prefix(n), n + 1)[i] = Prefix(n)[i]
          /\ Append(Prefix(n), n + 1)[n + 1] = n + 1
      BY <2>1
    <2>3. /\ Prefix(n + 1) \in Seq(Nat) /\ Len(Prefix(n + 1)) = n + 1
          /\ \A i \in 1..(n + 1) : Prefix(n + 1)[i] = i
          /\ \A i \in 1..n : Prefix(n)[i] = i
      BY DEF Prefix
    <2>4. \A i \in 1..(n + 1) : Append(Prefix(n), n + 1)[i] = Prefix(n + 1)[i]
      <3> TAKE i \in 1..(n + 1)
      <3>1. i \in 1..n \/ i = n + 1
        OBVIOUS
      <3> QED BY <2>2, <2>3, <3>1
    <2> QED BY <2>2, <2>3, <2>4
  <1>3. ASSUME NEW n \in Nat, n <= Pieces PROVE Prefix(n) = SubSeq(ServerImage, 1, n)
    <2>1. ServerImage \in Seq(Nat) /\ Len(ServerImage) = Pieces
      BY UpdateAssumption DEF ServerImage
    <2>2. /\ SubSeq(ServerImage, 1, n) \in Seq(Nat) /\ Len(SubSeq(ServerImage, 1, n)) = n
          /\ \A i \in 1..n : SubSeq(ServerImage, 1, n)[i] = i
      BY <1>3, <2>1, UpdateAssumption DEF ServerImage
    <2>3. Prefix(n) \in Seq(Nat) /\ Len(Prefix(n)) = n /\ \A i \in 1..n : Prefix(n)[i] = i
      BY DEF Prefix
    <2> QED BY <2>2, <2>3
  <1>4. Append(<<>>, 1) = Prefix(1)
    BY <1>1, <1>2, 0 \in Nat, 0 + 1 = 1
  <1> QED BY <1>1, <1>2, <1>3, <1>4

LEMMA SavedNext ==
  ASSUME TypeOK, Whole, g_download_file_len + 1 <= Pieces, Save(g_download_file_len + 1),
         g_download_file_len' = g_download_file_len + 1
  PROVE  Whole'
  BY Prefixes DEF TypeOK, Whole, Save

LEMMA Forgotten ==
  ASSUME TypeOK, Whole, Forget \/ UNCHANGED <<g_download_file_len, file>>
  PROVE  Whole'
  <1>1. CASE Forget
    BY <1>1, Prefixes, UpdateAssumption DEF Forget, Whole
  <1>2. CASE UNCHANGED <<g_download_file_len, file>>
    BY <1>2 DEF Whole
  <1> QED BY <1>1, <1>2

\* The other fields of a thread's record.
LEMMA OtherFields ==
  ASSUME TypeOK, NEW t \in Threads, NEW where
  PROVE  /\ To(t, where).resumes = thread[t].resumes
         /\ To(t, where).next = thread[t].next
         /\ OrStopped(t, where).resumes = thread[t].resumes
         /\ Went(t).next = thread[t].next + 1
         /\ Successor(t).resumes = (g_download_file_len # 0)
  <1>1. thread[t] \in ThreadRec
    BY DEF TypeOK, ThreadRec, Steps
  <1>2. \A w : /\ To(t, w).resumes = thread[t].resumes /\ To(t, w).next = thread[t].next
               /\ DOMAIN To(t, w) = {"pc", "resumes", "next"}
    BY <1>1 DEF To, ThreadRec
  <1>3. Went(t).next = thread[t].next + 1
    BY <1>2 DEF Went
  <1>4. OrStopped(t, where).resumes = thread[t].resumes
    BY <1>2 DEF OrStopped
  <1>5. Successor(t).resumes = (g_download_file_len # 0)
    BY DEF Successor, NoThread
  <1> QED BY <1>2, <1>3, <1>4, <1>5

LEMMA DownloadPlaces ==
  ASSUME TypeOK, NEW t \in Threads, Download(t), At(t), spoilt' = {}
  PROVE  /\ thread'[t].pc # "none" => At(t)'
         /\ thread'[t].pc = "none" /\ g_update_stat' = "PAUSED" => Whole'
  <1>0. /\ g_download_file_len \in Nat /\ Pieces \in Nat \ {0}
        /\ thread[t].resumes \in BOOLEAN /\ thread[t].next \in Nat
    BY UpdateAssumption DEF TypeOK
  <1>1. CASE Begin(t)
    <2>1. /\ thread[t].pc = "begin" /\ thread'[t] = To(t, "connect")
          /\ file' = IF thread[t].resumes THEN file ELSE <<>>
          /\ UNCHANGED g_download_file_len
      BY <1>1, StepsTo DEF Begin
    <2>2. thread'[t].resumes <=> g_download_file_len' # 0
      BY <2>1, OtherFields DEF At
    <2>3. Whole'
      <3>1. CASE thread[t].resumes
        BY <2>1, <3>1 DEF At, Whole
      <3>2. CASE ~thread[t].resumes
        <4>1. file' = <<>> /\ g_download_file_len' = 0
          BY <1>0, <2>1, <3>2 DEF At
        <4> QED BY <1>0, <4>1, Prefixes DEF Whole
      <3> QED BY <3>1, <3>2
    <2> QED BY <2>1, <2>2, <2>3, Fields DEF At
  <1>2. CASE Loses(t)
    <2>1. Whole /\ UNCHANGED <<g_download_file_len, file>>
      BY <1>2, StepsTo DEF Loses, At, ruVars
    <2>2. thread'[t] = To(t, "failed")
      BY <1>2, StepsTo DEF Loses
    <2> QED BY <2>1, <2>2, Fields DEF At, Whole
  <1>3. CASE Connect(t)
    <2>1. /\ thread[t].pc = "connect" /\ thread'[t] = OrStopped(t, "send")
          /\ UNCHANGED <<g_download_file_len, file>>
      BY <1>3, StepsTo DEF Connect, ruVars
    <2>2. Whole' /\ (thread[t].resumes <=> g_download_file_len' # 0)
      BY <2>1 DEF At, Whole
    <2> QED BY <2>1, <2>2, Fields, OtherFields DEF At
  <1>4. CASE SendRequest(t)
    <2> DEFINE w == OrStopped(t, IF thread[t].resumes THEN "resume" ELSE "head")
               n == IF thread[t].resumes THEN g_download_file_len + 1 ELSE 1
    <2>1. /\ thread[t].pc = "send" /\ thread'[t] = [w EXCEPT !.next = n]
          /\ UNCHANGED <<g_download_file_len, file>>
      BY <1>4, StepsTo DEF SendRequest, ruVars
    <2>2. w \in ThreadRec /\ w.pc \in {IF thread[t].resumes THEN "resume" ELSE "head", "failed"}
      BY Fields, ToType DEF Steps
    <2>3. thread'[t].pc = w.pc /\ thread'[t].next = n
      BY <2>1, <2>2 DEF ThreadRec
    <2>4. Whole' /\ (thread[t].resumes <=> g_download_file_len' # 0)
      BY <2>1 DEF At, Whole
    <2>5. CASE thread[t].resumes
      BY <2>1, <2>2, <2>3, <2>4, <2>5 DEF At
    <2>6. CASE ~thread[t].resumes
      BY <2>1, <2>2, <2>3, <2>4, <2>6 DEF At
    <2> QED BY <2>5, <2>6
  <1>5. CASE RecvHead(t)
    <2>1. thread[t].pc = "head" /\ Whole /\ g_download_file_len = 0
      BY <1>5, StepsTo DEF RecvHead, At
    <2>2. CASE offered
      <3>1. thread'[t] = Went(t) /\ g_download_file_len' = 1 /\ Save(1)
        BY <1>5, <2>2, StepsTo DEF RecvHead
      <3>2. Whole'
        BY <1>0, <2>1, <3>1, SavedNext
      <3>3. thread[t].next = 1
        BY <2>1 DEF At
      <3> QED BY <2>1, <3>1, <3>2, <3>3, Fields, OtherFields DEF At
    <2>3. CASE ~offered
      <3>1. thread'[t] = To(t, "failed") /\ UNCHANGED <<g_download_file_len, file>>
        BY <1>5, <2>3, StepsTo DEF RecvHead
      <3>2. Whole'
        BY <2>1, <3>1 DEF Whole
      <3> QED BY <3>1, <3>2, Fields DEF At
    <2> QED BY <2>2, <2>3
  <1>6. CASE Resumed(t)
    <2>1. /\ thread[t].pc = "resume" /\ thread'[t] = To(t, "rhead")
          /\ UNCHANGED <<g_download_file_len, file>>
      BY <1>6, StepsTo DEF Resumed
    <2>2. Whole' /\ thread[t].next = g_download_file_len' + 1
      BY <2>1 DEF At, Whole
    <2> QED BY <2>1, <2>2, Fields, OtherFields DEF At
  <1>7. CASE RecvResumedHead(t)
    <2>1. /\ thread[t].pc = "rhead" /\ thread'[t] = Went(t)
          /\ g_download_file_len' = g_download_file_len + 1
      BY <1>7, StepsTo DEF RecvResumedHead
    <2>2. Whole /\ thread[t].next = g_download_file_len + 1
      BY <2>1 DEF At
    <2>3. thread[t].next <= Pieces /\ Save(thread[t].next)
      BY <1>7 DEF RecvResumedHead, Watch
    <2>4. Whole'
      BY <2>1, <2>2, <2>3, SavedNext
    <2> QED BY <1>0, <2>1, <2>2, <2>4, Fields, OtherFields DEF At
  <1>8. CASE Recv(t)
    <2>1. /\ thread[t].pc = "recv" /\ thread'[t] = Went(t)
          /\ g_download_file_len' = g_download_file_len + 1
          /\ thread[t].next <= Pieces /\ Save(thread[t].next)
      BY <1>8, StepsTo DEF Recv
    <2>2. Whole /\ thread[t].next = g_download_file_len + 1
      BY <2>1 DEF At
    <2>4. Whole'
      BY <2>1, <2>2, SavedNext
    <2> QED BY <1>0, <2>1, <2>2, <2>4, Fields, OtherFields DEF At
  <1>9. CASE RecvUnsaved(t)
    BY <1>9 DEF RecvUnsaved, Watch
  <1>10. CASE RecvEnds(t)
    <2>1. Whole /\ thread'[t] = To(t, "check") /\ UNCHANGED <<g_download_file_len, file>>
      BY <1>10, StepsTo DEF RecvEnds, At, ruVars
    <2> QED BY <2>1, Fields DEF At, Whole
  <1>11. CASE CheckLength(t)
    <2>1. /\ Whole /\ thread'[t].pc \in {"md5", "failed"}
          /\ Forget \/ UNCHANGED <<g_download_file_len, file>>
      BY <1>11, StepsTo, Fields DEF CheckLength, At
    <2> QED BY <2>1, Forgotten DEF At
  <1>12. CASE CheckMD5(t)
    <2>1. /\ Whole
          /\ Forget \/ UNCHANGED <<g_download_file_len, file>>
          /\ thread'[t].pc = "failed" \/ (thread'[t].pc = "flash" /\ g_update_stat' = "IN_UPDATE")
      BY <1>12, StepsTo, Fields DEF CheckMD5, At
    <2> QED BY <2>1, Forgotten DEF At
  <1>13. CASE UpdateToFlash(t)
    <2>1. g_update_stat' = "IN_UPDATE" /\ thread'[t] = NoThread
      BY <1>13, StepsTo DEF UpdateToFlash, At, ruVars
    <2> QED BY <2>1 DEF NoThread
  <1>14. CASE FailedCancel(t)
    <2>1. g_update_stat' = "IDEL" /\ thread'[t] = NoThread
      BY <1>14, StepsTo DEF FailedCancel
    <2> QED BY <2>1 DEF NoThread
  <1>15. CASE FailedPause(t)
    <2>1. Whole /\ thread'[t] = NoThread /\ UNCHANGED <<g_download_file_len, file>>
      BY <1>15, StepsTo DEF FailedPause, At
    <2> QED BY <2>1 DEF NoThread, Whole
  <1>16. CASE FailedRetry(t)
    <2>1. Whole /\ thread'[t] = To(t, "retry") /\ UNCHANGED <<g_download_file_len, file>>
      BY <1>16, StepsTo DEF FailedRetry, At, ruVars
    <2> QED BY <2>1, Fields DEF At, Whole
  <1>17. CASE Retry(t)
    <2>1. Whole /\ thread'[t] = Successor(t) /\ UNCHANGED <<g_download_file_len, file>>
      BY <1>17, StepsTo DEF Retry, At, ruVars
    <2> QED BY <2>1, Fields, OtherFields DEF At, Whole
  <1>18. CASE RecvHeadUnsaved(t)
    BY <1>18 DEF RecvHeadUnsaved, Watch
  <1>19. CASE RecvResumedUnsaved(t)
    BY <1>19 DEF RecvResumedUnsaved, Watch
  <1> QED BY <1>1, <1>2, <1>3, <1>4, <1>5, <1>6, <1>7, <1>8, <1>9, <1>10, <1>11, <1>12,
             <1>13, <1>14, <1>15, <1>16, <1>17, <1>18, <1>19 DEF Download

\* A handler, when it is none of an upload, leaves the download and its file
\* alone or begins a download, anew or where a paused one stopped.
LEMMA HandlerPlaces ==
  ASSUME TypeOK, NEW c \in Clients, Handler(c), spoilt' = {}, pc[c] \notin Uploading
  PROVE  /\ pc'[c] \notin Uploading
         /\ \/ UNCHANGED <<file, g_download_file_len, g_update_stat, thread>>
            \/ \E t \in Threads \ Active :
                 /\ thread'[t].pc = "begin"
                 /\ thread'[t].resumes <=> g_download_file_len' # 0
                 /\ \/ g_download_file_len' = 0
                    \/ g_update_stat = "PAUSED" /\ UNCHANGED <<file, g_download_file_len>>
  <1>0. pc \in [Clients -> {"idle", "start", "cancel", "lost"} \cup Uploading]
    BY DEF TypeOK
  <1>1. CASE StartTest(c)
    BY <1>0, <1>1 DEF StartTest, HandlerStep, Uploading, ruVars
  <1>2. CASE StartSet(c)
    <2>1. PICK t \in Threads \ Active :
            thread' = [thread EXCEPT ![t] = [NoThread EXCEPT !.pc = "begin", !.resumes = FALSE]]
      BY <1>2 DEF StartSet, Spawn
    <2>2. thread'[t].pc = "begin" /\ thread'[t].resumes = FALSE
      BY <2>1 DEF TypeOK, NoThread
    <2>3. pc'[c] \notin Uploading /\ g_download_file_len' = 0
      BY <1>0, <1>2 DEF StartSet, Uploading
    <2> QED BY <2>2, <2>3
  <1>3. CASE Pause(c)
    BY <1>0, <1>3 DEF Pause, HandlerStep, Uploading
  <1>4. CASE Resume(c)
    <2>1. PICK t \in Threads \ Active :
            thread' = [thread EXCEPT ![t] =
                         [NoThread EXCEPT !.pc = "begin", !.resumes = g_download_file_len # 0]]
      BY <1>4 DEF Resume, Spawn
    <2>2. thread'[t].pc = "begin" /\ thread'[t].resumes = (g_download_file_len # 0)
      BY <2>1 DEF TypeOK, NoThread
    <2>3. /\ pc'[c] \notin Uploading /\ g_update_stat = "PAUSED"
          /\ UNCHANGED <<file, g_download_file_len>>
      BY <1>0, <1>4 DEF Resume, HandlerStep, Uploading
    <2> QED BY <2>2, <2>3
  <1>5. CASE Cancel(c)
    BY <1>0, <1>5 DEF Cancel, HandlerStep, Uploading
  <1>6. CASE CancelDone(c)
    BY <1>0, <1>6 DEF CancelDone, HandlerStep, Uploading, ruVars
  <1>7. CASE UploadBegin(c)
    BY <1>7 DEF UploadBegin, Watch
  <1>8. CASE UploadHeader(c)
    BY <1>8 DEF UploadHeader, UploadStep, HandlerStep, Uploading
  <1>9. CASE UploadPiece(c)
    BY <1>9 DEF UploadPiece, Uploading
  <1>10. CASE UploadLost(c)
    BY <1>10 DEF UploadLost, Uploading
  <1>11. CASE UploadChecked(c)
    BY <1>11 DEF UploadChecked, Uploading
  <1>12. CASE UploadFlash(c)
    BY <1>12 DEF UploadFlash, UploadStep, HandlerStep, Uploading
  <1>13. CASE UploadRefused(c)
    BY <1>13, WatchOnce DEF UploadRefused
  <1>14. CASE UploadFails(c)
    BY <1>14 DEF UploadFails, UploadStep, HandlerStep, Uploading
  <1> QED BY <1>1, <1>2, <1>3, <1>4, <1>5, <1>6, <1>7, <1>8, <1>9, <1>10, <1>11, <1>12,
             <1>13, <1>14 DEF Handler

LEMMA DownloadUndisturbed ==
  ASSUME TypeOK, TypeOK', Once, Undisturbed, spoilt \subseteq spoilt',
         NEW t \in Threads, Download(t)
  PROVE  Undisturbed'
  <1> SUFFICES ASSUME spoilt' = {} PROVE Undisturbed'
    BY DEF Undisturbed
  <1>1. spoilt = {} /\ WriterCount <= 1 /\ t \in Active
    BY DownloadShape DEF Once, Active
  <1>2. \A u \in Active : u = t
    BY <1>1, WritersNow DEF Writers
  <1>3. At(t) /\ \A c \in Clients : pc[c] \notin Uploading
    BY <1>1 DEF Undisturbed
  <1>4. \A c \in Clients : pc'[c] \notin Uploading
    BY <1>3, DownloadShape
  <1>5. \A u \in Active' : u = t
    BY <1>2, DownloadShape DEF Active
  <1>6. /\ thread'[t].pc # "none" => At(t)'
        /\ thread'[t].pc = "none" /\ g_update_stat' = "PAUSED" => Whole'
    BY <1>3, DownloadPlaces
  <1>7. \A u \in Active' : At(u)'
    BY <1>5, <1>6 DEF Active
  <1>8. g_update_stat' = "PAUSED" /\ Active' = {} => Whole'
    BY <1>6 DEF Active
  <1> QED BY <1>4, <1>7, <1>8 DEF Undisturbed

LEMMA HandlerUndisturbed ==
  ASSUME TypeOK, TypeOK', Once', Undisturbed, spoilt \subseteq spoilt',
         NEW c \in Clients, Handler(c)
  PROVE  Undisturbed'
  <1> SUFFICES ASSUME spoilt' = {} PROVE Undisturbed'
    BY DEF Undisturbed
  <1>1. /\ \A d \in Clients : pc[d] \notin Uploading
        /\ \A t \in Active : At(t)
        /\ g_update_stat = "PAUSED" /\ Active = {} => Whole
    BY DEF Undisturbed
  <1>2. \A d \in Clients : pc'[d] \notin Uploading
    BY <1>1, HandlerPlaces, HandlerShape
  <1>3. CASE UNCHANGED <<file, g_download_file_len, g_update_stat, thread>>
    <2>1. Active' = Active /\ (Whole' <=> Whole)
      BY <1>3 DEF Active, Whole
    <2>2. \A t \in Active' : At(t)'
      BY <1>1, <1>3, <2>1 DEF At
    <2> QED BY <1>1, <1>2, <1>3, <2>1, <2>2 DEF Undisturbed
  <1>4. ASSUME NEW t \in Threads \ Active,
               thread'[t].pc = "begin", thread'[t].resumes <=> g_download_file_len' # 0,
               \/ g_download_file_len' = 0
               \/ g_update_stat = "PAUSED" /\ UNCHANGED <<file, g_download_file_len>>
        PROVE  Undisturbed'
    <2>1. t \in Active' /\ \A u \in Active' : u = t
      <3>1. WriterCount' <= 1 /\ t \in Active'
        BY <1>4 DEF Once, Active
      <3> QED BY <3>1, WritersNext DEF Writers
    <2>2. Active = {}
      <3> SUFFICES ASSUME NEW u \in Active PROVE FALSE
        OBVIOUS
      <3>1. u \in Active'
        BY <1>4, <2>1, StaysActive
      <3> QED BY <1>4, <2>1, <3>1
    <2>3. g_download_file_len' # 0 => Whole'
      BY <1>1, <1>4, <2>2 DEF Whole
    <2>4. At(t)'
      BY <1>4, <2>3 DEF At
    <2> QED BY <1>2, <2>1, <2>4 DEF Undisturbed
  <1> QED BY <1>1, <1>3, <1>4, HandlerPlaces

LEMMA NextUndisturbed ==
  ASSUME TypeOK, Once, Undisturbed, [Next]_vars
  PROVE  Undisturbed'
  <1>1. TypeOK' /\ Once' /\ spoilt \subseteq spoilt'
    BY NextTypes, NextOnce
  <1>2. CASE Flash \/ UNCHANGED vars
    <2>1. UNCHANGED <<file, g_download_file_len, g_update_stat, thread, pc, spoilt>>
      BY <1>2 DEF Flash, vars, ruVars
    <2>2. Active' = Active /\ (Whole' <=> Whole)
      BY <2>1 DEF Active, Whole
    <2>3. \A t \in Threads : At(t)' <=> At(t)
      BY <2>1, <2>2 DEF At
    <2>4. Active \subseteq Threads
      BY DEF Active
    <2> QED BY <2>1, <2>2, <2>3, <2>4 DEF Undisturbed
  <1> QED BY <1>1, <1>2, DownloadUndisturbed, HandlerUndisturbed DEF Next

\* A paused download has in the file the very pieces it will not ask for again,
\* unless a piece could not be saved, the answer to a resumed request was
\* shorter than the buffer, or an upload or another download came between.
THEOREM PauseKeepsPrefix == Spec => []PausedFileIsPrefix
  <1>1. Init => Undisturbed
    BY DEF Init, Undisturbed, Active, NoThread, Uploading
  <1>2. TypeOK /\ Undisturbed => PausedFileIsPrefix
    BY Prefixes DEF TypeOK, Undisturbed, PausedFileIsPrefix, Whole
  <1>3. Spec => [](TypeOK /\ Once /\ Undisturbed)
    BY <1>1, InitTypes, NextTypes, InitOnce, NextOnce, NextUndisturbed, PTL DEF Spec
  <1> QED BY <1>2, <1>3, PTL
=============================================================================
