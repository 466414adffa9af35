---------------------------- MODULE RemoteUpdate ----------------------------
(***************************************************************************)
(* The update of the firmware (zmdnetlib/remoteupdate.c and the handlers   *)
(* of netuser.cpp): a client has the camera download an image from a       *)
(* server, pauses, resumes or cancels that, or uploads an image itself.    *)
(* All of it goes into one file and through global variables without a     *)
(* lock.  A download is a chain of threads: each one that fails starts the *)
(* next.  When the file is whole a message tells the program's main loop   *)
(* to have it written to flash; that is the end of this program.           *)
(*                                                                         *)
(* An image is cut into pieces, the first of which has its header; the     *)
(* file is the sequence of the pieces that were written to it.             *)
(***************************************************************************)
EXTENDS Integers, Sequences, FiniteSets

CONSTANTS
  Clients,         \* sessions that ask for updates
  Threads,         \* bound: download threads at one time
  Pieces,          \* of an image
  Bounds           \* bounds: how often each thing of Chances may happen

Chances == {"start", "command", "upload", "lose"}

ASSUME UpdateAssumption ==
  /\ IsFiniteSet(Clients) /\ IsFiniteSet(Threads)
  /\ Pieces \in Nat \ {0}
  /\ Bounds \subseteq [Chances -> Nat]

VARIABLES
  updating,            \* the net server's flag
  g_update_stat, g_download_cmd, g_download_file_len, g_update_file_len,
  g_UpdateFileHeader,  \* has the header been received?
  file,                \* UPDATEFILE
  thread,              \* the downloads: where each is, whether it resumes, and
                       \* the piece its connection comes to next
  pc, got,             \* the handler of each client; pieces of its upload
  sent, flashed,       \* the message CMD_UPGRADE; what has been flashed
  offered,             \* is the server's image one that may be installed?
  left,                \* how often each chance may still come
  cancelled,           \* history: the last request was to cancel, and was granted
  told,                \* history: has the download been told to stop ("yes"), or
                       \* too late for it to look ("late")?
  spoilt               \* history: what has come between a download and its file

ruVars == <<g_update_stat, g_download_cmd, g_download_file_len, g_update_file_len,
            g_UpdateFileHeader>>
stopVars == <<cancelled, told>>
vars == <<updating, ruVars, file, thread, pc, got, sent, flashed, offered, left,
          stopVars, spoilt>>

-----------------------------------------------------------------------------
ServerImage == [i \in 1..Pieces |-> i]
ClientImage == [i \in 1..Pieces |-> Pieces + i]
Junk == 0
Nothing == <<-1>>
NoThread == [pc |-> "none", resumes |-> FALSE, next |-> 1]
Over == flashed # Nothing
Uploading == {"header", "upload", "refused", "upflash"}

Active == {t \in Threads : thread[t].pc # "none"}
WriterCount == Cardinality(Active) + Cardinality({c \in Clients : pc[c] \in Uploading})
                 + (IF sent THEN 1 ELSE 0)

TypeOK ==
  /\ updating \in BOOLEAN
  /\ g_update_stat \in {"IDEL", "IN_DOWNLOAD", "PAUSED", "IN_UPDATE"}
  /\ g_download_cmd \in {"START", "PAUSE", "CANCEL"}
  /\ g_download_file_len \in Nat /\ g_update_file_len \in {0, Pieces}
  /\ g_UpdateFileHeader \in BOOLEAN
  /\ file \in Seq(0..2 * Pieces)
  /\ thread \in [Threads -> [pc : {"none", "begin", "connect", "send", "head",
                                   "resume", "rhead", "recv", "check", "md5", "flash",
                                   "failed", "retry"},
                             resumes : BOOLEAN, next : Nat]]
  /\ pc \in [Clients -> {"idle", "start", "cancel", "lost"} \cup Uploading]
  /\ got \in [Clients -> 0..Pieces]
  /\ sent \in BOOLEAN /\ flashed \in Seq(0..2 * Pieces) \cup {Nothing}
  /\ offered \in BOOLEAN /\ left \in [Chances -> Nat]
  /\ cancelled \in BOOLEAN /\ told \in {"no", "yes", "late"}
  /\ spoilt \subseteq {"overlap", "short", "unsaved", "uploaded"}

Init ==
  /\ updating = FALSE /\ g_update_stat = "IDEL" /\ g_download_cmd = "START"
  /\ g_download_file_len = 0 /\ g_update_file_len = 0 /\ g_UpdateFileHeader = FALSE
  /\ file = <<>> /\ thread = [t \in Threads |-> NoThread]
  /\ pc = [c \in Clients |-> "idle"] /\ got = [c \in Clients |-> 0]
  /\ sent = FALSE /\ flashed = Nothing
  /\ offered \in BOOLEAN /\ left \in Bounds
  /\ cancelled = FALSE /\ told = "no" /\ spoilt = {}

Spend(what) ==
  /\ left[what] > 0
  /\ left' = [left EXCEPT ![what] = @ - 1]

\* Two that write the file at one time are noted, whatever the step.
Watch(what) ==
  spoilt' = spoilt \cup what \cup (IF WriterCount' > 1 THEN {"overlap"} ELSE {})

-----------------------------------------------------------------------------
(* The download thread: ru_do_start_update, ru_do_resume_update.           *)

ThreadStep(t, from, to) ==
  /\ ~Over /\ thread[t].pc = from
  /\ thread' = [thread EXCEPT ![t] = to]
  /\ UNCHANGED <<updating, pc, got, flashed, offered, stopVars>>

To(t, where) == [thread[t] EXCEPT !.pc = where]
Stopped == g_download_cmd # "START"
OrStopped(t, where) == To(t, IF Stopped THEN "failed" ELSE where)

Begin(t) ==
  /\ ThreadStep(t, "begin", To(t, "connect"))
  /\ g_update_stat' = "IN_DOWNLOAD"
  /\ file' = IF thread[t].resumes THEN file ELSE <<>>
  /\ UNCHANGED <<g_download_cmd, g_download_file_len, g_update_file_len,
                 g_UpdateFileHeader, sent, left>> /\ Watch({})

\* No connection, no request sent, no answer, no header of the image.
Loses(t) ==
  /\ \E from \in {"connect", "send", "head", "rhead"} :
       ThreadStep(t, from, To(t, "failed"))
  /\ Spend("lose")
  /\ UNCHANGED <<ruVars, file, sent>> /\ Watch({})

Connect(t) ==
  /\ ThreadStep(t, "connect", OrStopped(t, "send"))
  /\ UNCHANGED <<ruVars, file, sent, left>> /\ Watch({})

\* The request names the piece to go on from.
SendRequest(t) ==
  /\ ThreadStep(t, "send",
                [OrStopped(t, IF thread[t].resumes THEN "resume" ELSE "head")
                   EXCEPT !.next = IF thread[t].resumes THEN g_download_file_len + 1
                                   ELSE 1])
  /\ UNCHANGED <<ruVars, file, sent, left>> /\ Watch({})

\* What is received is counted and put at the end of the file.  With no room for
\* it nothing is written, or a part.
Save(piece) == file' = Append(file, piece)
SavesPart == file' \in {file, Append(file, Junk)}
Went(t) == [To(t, "recv") EXCEPT !.next = @ + 1]

\* The answer's header and the image's, and what comes with them.  An image
\* that may not be installed is a failure like any other.
RecvHead(t) ==
  /\ ThreadStep(t, "head", IF offered THEN Went(t) ELSE To(t, "failed"))
  /\ g_update_file_len' = Pieces /\ g_UpdateFileHeader' = TRUE
  /\ IF offered THEN g_download_file_len' = 1 /\ Save(1)
     ELSE UNCHANGED <<g_download_file_len, file>>
  /\ UNCHANGED <<g_update_stat, g_download_cmd, sent, left>> /\ Watch({})

\* The piece is counted before it is saved.
RecvHeadUnsaved(t) ==
  /\ ThreadStep(t, "head", To(t, "failed"))
  /\ offered /\ Spend("lose")
  /\ g_update_file_len' = Pieces /\ g_UpdateFileHeader' = TRUE
  /\ g_download_file_len' = 1 /\ SavesPart
  /\ UNCHANGED <<g_update_stat, g_download_cmd, sent>> /\ Watch({"unsaved"})

\* A resumed download sets the command, whatever has become of it since the
\* test.
Resumed(t) ==
  /\ ThreadStep(t, "resume", To(t, "rhead"))
  /\ g_download_cmd' = "START"
  /\ UNCHANGED <<g_update_stat, g_download_file_len, g_update_file_len,
                 g_UpdateFileHeader, file, sent, left>> /\ Watch({})

\* Of the answer to a resumed download 2048 bytes are taken, header and
\* image, also when fewer have come.
RecvResumedHead(t) ==
  /\ ThreadStep(t, "rhead", Went(t))
  /\ g_download_file_len' = g_download_file_len + 1
  /\ UNCHANGED <<g_update_stat, g_download_cmd, g_update_file_len, g_UpdateFileHeader,
                 sent>>
  /\ \/ /\ thread[t].next <= Pieces /\ Save(thread[t].next)
        /\ UNCHANGED left /\ Watch({})
     \/ /\ IF thread[t].next <= Pieces THEN Spend("lose") ELSE UNCHANGED left
        /\ Save(Junk) /\ Watch({"short"})

RecvResumedUnsaved(t) ==             \* here it is saved before it is counted
  /\ ThreadStep(t, "rhead", To(t, "failed")) /\ Spend("lose")
  /\ SavesPart
  /\ UNCHANGED <<ruVars, sent>> /\ Watch({"unsaved"})

Recv(t) ==
  /\ ThreadStep(t, "recv", Went(t))
  /\ ~Stopped /\ thread[t].next <= Pieces
  /\ g_download_file_len' = g_download_file_len + 1
  /\ Save(thread[t].next)
  /\ UNCHANGED <<g_update_stat, g_download_cmd, g_update_file_len, g_UpdateFileHeader,
                 sent, left>> /\ Watch({})

RecvUnsaved(t) ==
  /\ ThreadStep(t, "recv", To(t, "failed"))
  /\ ~Stopped /\ thread[t].next <= Pieces /\ Spend("lose")
  /\ g_download_file_len' = g_download_file_len + 1 /\ SavesPart
  /\ UNCHANGED <<g_update_stat, g_download_cmd, g_update_file_len, g_UpdateFileHeader,
                 sent>> /\ Watch({"unsaved"})

\* Told to stop, at the end of the image, or the connection lost.
RecvEnds(t) ==
  /\ ThreadStep(t, "recv", To(t, "check"))
  /\ IF Stopped \/ thread[t].next > Pieces THEN UNCHANGED left ELSE Spend("lose")
  /\ UNCHANGED <<ruVars, file, sent>> /\ Watch({})

\* To begin anew: no piece received, the file empty.
Forget == g_download_file_len' = 0 /\ file' = <<>>

CheckLength(t) ==
  LET whole == ~Stopped /\ g_download_file_len = g_update_file_len
  IN /\ ThreadStep(t, "check", To(t, IF whole THEN "md5" ELSE "failed"))
     /\ IF ~Stopped /\ thread[t].resumes /\ g_download_file_len > g_update_file_len
        THEN Forget ELSE UNCHANGED <<g_download_file_len, file>>
     /\ UNCHANGED <<g_update_stat, g_download_cmd, g_update_file_len,
                    g_UpdateFileHeader, sent, left>> /\ Watch({})

CheckMD5Header(t) ==                 \* fault: with the header the file is good
  /\ IF g_UpdateFileHeader
     THEN /\ ThreadStep(t, "md5", To(t, "flash"))
          /\ g_update_stat' = "IN_UPDATE" /\ UNCHANGED <<g_download_file_len, file>>
     ELSE /\ ThreadStep(t, "md5", To(t, "failed"))
          /\ Forget /\ UNCHANGED g_update_stat
  /\ UNCHANGED <<g_download_cmd, g_update_file_len, g_UpdateFileHeader, sent, left>>
  /\ Watch({})

CheckMD5(t) ==
  /\ IF g_UpdateFileHeader /\ file = ServerImage
     THEN /\ ThreadStep(t, "md5", To(t, "flash"))
          /\ g_update_stat' = "IN_UPDATE" /\ UNCHANGED <<g_download_file_len, file>>
     ELSE /\ ThreadStep(t, "md5", To(t, "failed"))
          /\ Forget /\ UNCHANGED g_update_stat
  /\ UNCHANGED <<g_download_cmd, g_update_file_len, g_UpdateFileHeader, sent, left>>
  /\ Watch({})

UpdateToFlash(t) ==
  /\ ThreadStep(t, "flash", NoThread)
  /\ sent' = TRUE
  /\ UNCHANGED <<ruVars, file, left>> /\ Watch({})

\* The label Failed.
FailedCancel(t) ==
  /\ ThreadStep(t, "failed", NoThread) /\ g_download_cmd = "CANCEL"
  /\ file' = <<>> /\ g_update_stat' = "IDEL"
  /\ UNCHANGED <<g_download_cmd, g_download_file_len, g_update_file_len,
                 g_UpdateFileHeader, sent, left>> /\ Watch({})

FailedPauseRemoves(t) ==             \* fault: the file goes, as after a cancel
  /\ ThreadStep(t, "failed", NoThread) /\ g_download_cmd = "PAUSE"
  /\ g_update_stat' = "PAUSED" /\ file' = <<>>
  /\ UNCHANGED <<g_download_cmd, g_download_file_len, g_update_file_len,
                 g_UpdateFileHeader, sent, left>> /\ Watch({})

FailedPause(t) ==
  /\ ThreadStep(t, "failed", NoThread) /\ g_download_cmd = "PAUSE"
  /\ g_update_stat' = "PAUSED"
  /\ UNCHANGED <<g_download_cmd, g_download_file_len, g_update_file_len,
                 g_UpdateFileHeader, file, sent, left>> /\ Watch({})

FailedRetryAlways(t) ==              \* fault: the command is not looked at
  /\ ThreadStep(t, "failed", To(t, "retry"))
  /\ UNCHANGED <<ruVars, file, sent, left>> /\ Watch({})

FailedRetryResumes(t) ==             \* fault: only what has begun is gone on with
  /\ ThreadStep(t, "failed", IF g_download_file_len = 0 THEN NoThread ELSE To(t, "retry"))
  /\ ~Stopped
  /\ UNCHANGED <<ruVars, file, sent, left>> /\ Watch({})

FailedRetry(t) ==
  /\ ThreadStep(t, "failed", To(t, "retry")) /\ ~Stopped
  /\ UNCHANGED <<ruVars, file, sent, left>> /\ Watch({})

\* Two seconds later the next thread takes its place.
Successor(t) == [NoThread EXCEPT !.pc = "begin", !.resumes = g_download_file_len # 0]
Retry(t) ==
  /\ ThreadStep(t, "retry", Successor(t))
  /\ UNCHANGED <<ruVars, file, sent, left>> /\ Watch({})

Download(t) ==
  \/ Begin(t) \/ Loses(t) \/ Connect(t) \/ SendRequest(t)
  \/ RecvHead(t) \/ RecvHeadUnsaved(t)
  \/ Resumed(t) \/ RecvResumedHead(t) \/ RecvResumedUnsaved(t)
  \/ Recv(t) \/ RecvUnsaved(t) \/ RecvEnds(t)
  \/ CheckLength(t) \/ CheckMD5(t) \/ UpdateToFlash(t)
  \/ FailedCancel(t) \/ FailedPause(t) \/ FailedRetry(t) \/ Retry(t)

-----------------------------------------------------------------------------
(* The handlers of the sessions.                                           *)

HandlerStep(c, from, to) ==
  /\ ~Over /\ pc[c] = from
  /\ pc' = [pc EXCEPT ![c] = to]
  /\ UNCHANGED <<g_update_file_len, flashed, offered>>

Spawn(resumes) ==
  \E t \in Threads \ Active :
    thread' = [thread EXCEPT ![t] = [NoThread EXCEPT !.pc = "begin", !.resumes = resumes]]

Downloading == \E t \in Threads : thread[t].pc \notin {"none", "flash"}

\* A download that is about to take the answer to its resumed request, or has
\* compared the lengths, does not look at the command any more.
Told == IF \E t \in Threads : thread[t].pc \in {"resume", "md5"} THEN "late" ELSE "yes"

\* onStartRemoteUpdate tests the flag, and then sets it.
StartTest(c) ==
  /\ HandlerStep(c, "idle", "start") /\ Spend("start")
  /\ ~updating
  /\ UNCHANGED <<updating, ruVars, file, thread, got, sent, stopVars>> /\ Watch({})

StartSet(c) ==
  /\ ~Over /\ pc[c] = "start" /\ pc' = [pc EXCEPT ![c] = "idle"]
  /\ updating' = TRUE
  /\ g_update_stat' = "IDEL" /\ g_download_cmd' = "START"
  /\ g_download_file_len' = 0 /\ g_update_file_len' = 0 /\ g_UpdateFileHeader' = FALSE
  /\ Spawn(FALSE)
  /\ cancelled' = FALSE
  /\ told' = IF Downloading THEN told ELSE "no"
  /\ UNCHANGED <<file, got, sent, flashed, offered, left>> /\ Watch({})

\* onPauseRemoteUpdate
Pause(c) ==
  /\ HandlerStep(c, "idle", "idle") /\ Spend("command")
  /\ updating /\ g_update_stat = "IN_DOWNLOAD"
  /\ g_download_cmd' = "PAUSE" /\ cancelled' = FALSE /\ told' = Told
  /\ UNCHANGED <<updating, g_update_stat, g_download_file_len, g_UpdateFileHeader,
                 file, thread, got, sent>> /\ Watch({})

\* onResumeRemoteUpdate does not look at the flag.
Resume(c) ==
  /\ HandlerStep(c, "idle", "idle") /\ Spend("command")
  /\ g_update_stat = "PAUSED"
  /\ g_download_cmd' = "START" /\ told' = "no"
  /\ Spawn(g_download_file_len # 0)
  /\ UNCHANGED <<updating, g_update_stat, g_download_file_len, g_UpdateFileHeader,
                 file, got, sent, cancelled>> /\ Watch({})

\* onCancelRemoteUpdate gives the command, and then clears the flag.
Cancel(c) ==
  /\ HandlerStep(c, "idle", "cancel") /\ Spend("command")
  /\ updating /\ g_update_stat # "IN_UPDATE"
  /\ g_download_cmd' = "CANCEL" /\ told' = Told
  /\ UNCHANGED <<updating, g_update_stat, g_download_file_len, g_UpdateFileHeader,
                 file, thread, got, sent, cancelled>> /\ Watch({})

CancelDone(c) ==
  /\ HandlerStep(c, "cancel", "idle")
  /\ updating' = FALSE /\ cancelled' = TRUE
  /\ UNCHANGED <<ruVars, file, thread, got, sent, left, told>> /\ Watch({})

\* onRequestUpdate removes the file and sets the flag, whatever it was.
UploadStep(c, from, to) ==
  /\ HandlerStep(c, from, to)
  /\ UNCHANGED <<ruVars, thread>>

UploadBegin(c) ==
  /\ UploadStep(c, "idle", "header") /\ Spend("upload")
  /\ file' = <<>> /\ updating' = TRUE /\ cancelled' = FALSE
  /\ UNCHANGED <<got, sent, told>> /\ Watch({"uploaded"})

\* A request without the check flag is refused, but the file is gone.
UploadRefused(c) ==
  /\ UploadStep(c, "idle", "idle") /\ Spend("upload")
  /\ file' = <<>>
  /\ UNCHANGED <<updating, got, sent, stopVars>>
  /\ Watch(IF WriterCount > 0 THEN {"uploaded", "overlap"} ELSE {"uploaded"})

UploadFails(c) ==                    \* no memory for it, or its request too short
  /\ UploadStep(c, "header", "idle") /\ Spend("lose")
  /\ updating' = FALSE
  /\ UNCHANGED <<file, got, sent, stopVars>> /\ Watch({})

\* An image that may not be installed is received to its end all the same.
UploadHeader(c) ==
  /\ UploadStep(c, "header", "upload") \/ UploadStep(c, "header", "refused")
  /\ file' = <<Pieces + 1>> /\ got' = [got EXCEPT ![c] = 1]
  /\ UNCHANGED <<updating, sent, left, stopVars>> /\ Watch({})

UploadPieceMore(c) ==                \* fault: one piece too many is waited for
  /\ UploadStep(c, pc[c], pc[c]) /\ pc[c] \in {"upload", "refused"}
  /\ got[c] <= Pieces
  /\ got' = [got EXCEPT ![c] = @ + 1]
  /\ \E piece \in {Junk} : Save(piece)
  /\ UNCHANGED <<updating, sent, left, stopVars>> /\ Watch({})

UploadPiece(c) ==
  /\ UploadStep(c, pc[c], pc[c]) /\ pc[c] \in {"upload", "refused"}
  /\ got[c] < Pieces
  /\ got' = [got EXCEPT ![c] = @ + 1]
  /\ \E piece \in {Pieces + got[c] + 1, Junk} : Save(piece)
  /\ UNCHANGED <<updating, sent, left, stopVars>> /\ Watch({})

\* The client is gone: nothing more comes, and the loop that waits for the
\* rest tests for less than nothing.
UploadLost(c) ==
  /\ UploadStep(c, pc[c], "lost") /\ pc[c] \in {"header", "upload", "refused"}
  /\ got[c] < Pieces /\ Spend("lose")
  /\ UNCHANGED <<updating, file, got, sent, stopVars>> /\ Watch({})

Accepts(c) == pc[c] = "upload" /\ file = ClientImage

UploadCheckedKeeps(c) ==             \* fault: the flag stays
  /\ pc[c] \in {"upload", "refused"} /\ got[c] = Pieces
  /\ UploadStep(c, pc[c], IF Accepts(c) THEN "upflash" ELSE "idle")
  /\ got' = [got EXCEPT ![c] = 0]
  /\ UNCHANGED <<updating, file, sent, left, stopVars>> /\ Watch({})

UploadChecked(c) ==
  /\ pc[c] \in {"upload", "refused"} /\ got[c] = Pieces
  /\ UploadStep(c, pc[c], IF Accepts(c) THEN "upflash" ELSE "idle")
  /\ updating' = IF Accepts(c) THEN updating ELSE FALSE
  /\ got' = [got EXCEPT ![c] = 0]
  /\ UNCHANGED <<file, sent, left, stopVars>> /\ Watch({})

UploadFlash(c) ==
  /\ UploadStep(c, "upflash", "idle")
  /\ sent' = TRUE
  /\ UNCHANGED <<updating, file, got, left, stopVars>> /\ Watch({})

Handler(c) ==
  \/ StartTest(c) \/ StartSet(c) \/ Pause(c) \/ Resume(c) \/ Cancel(c) \/ CancelDone(c)
  \/ UploadBegin(c) \/ UploadRefused(c) \/ UploadFails(c) \/ UploadHeader(c)
  \/ UploadPiece(c) \/ UploadLost(c) \/ UploadChecked(c) \/ UploadFlash(c)

-----------------------------------------------------------------------------
\* The main loop gets the message; the upgrade tool takes the file, and over.
Flash ==
  /\ ~Over /\ sent /\ flashed' = file
  /\ UNCHANGED <<updating, ruVars, file, thread, pc, got, sent, offered, left,
                 stopVars, spoilt>>

Next ==
  \/ \E t \in Threads : Download(t)
  \/ \E c \in Clients : Handler(c)
  \/ Flash

\* Threads run, sockets time out; clients owe nothing.
Fairness == \A t \in Threads : WF_vars(Download(t))

Spec == Init /\ [][Next]_vars /\ Fairness

-----------------------------------------------------------------------------
(* What is flashed is an image as its maker made it, the server's or the
   client's, over pauses, losses and failed writes, unless two have written
   the file at one time. *)
FlashedIntact == Over /\ "overlap" \notin spoilt => flashed \in {ServerImage, ClientImage}

(* A download that has paused has its first pieces in the file, as many as it
   will ask the server to leave out: to resume it is to go on.  Not so once a
   piece could not be saved, the answer to a resumed request was shorter than
   the buffer, or an upload or a second download has written to the file:
   then file and count may differ, and the download goes on from a wrong
   place, until the check of its length or its MD5 begins it anew. *)
PausedFileIsPrefix ==
  (g_update_stat = "PAUSED" /\ Active = {} /\ spoilt = {})
    => file = SubSeq(ServerImage, 1, g_download_file_len)

(* The flag that keeps others off is set on behalf of somebody who will clear
   it: a download that runs or is paused, a handler, an update that is being
   flashed.  A lost client's upload never ends, and keeps it; and the property
   says nothing once two have written the file at one time, when one may clear
   the flag under the other. *)
FlagIsOwned ==
  updating /\ "overlap" \notin spoilt
    => \/ WriterCount > 0 \/ g_update_stat = "PAUSED"
       \/ \E c \in Clients : pc[c] \in {"cancel", "lost"}

(* "0: cancelled": what was cancelled is not flashed. *)
CancelIsFinal == cancelled => ~sent

(* A download that is granted a pause or a cancel ends, paused or idle and
   with nothing flashed, unless a client has it go on: no look of it at the
   command comes too early, and no retry forgets the command.  Two cases are
   lost in the code and left out by name: a stop that comes when the thread
   looks no more (told = "late": between its test at 550 and the START it sets
   itself at 389, or after its last test at 460), and one under which another
   download is started or resumed (overlap). *)
StopsWhenTold ==
  (told = "yes" /\ Downloading)
    ~> \/ told # "yes" \/ "overlap" \in spoilt
       \/ ~Downloading /\ g_update_stat \in {"PAUSED", "IDEL"}

(* A download does not give up: whatever is lost on the way, it ends with the
   image, or with somebody's pause or cancel.  An image that may not be
   installed it asks for again for ever. *)
RetriesUntilDone ==
  (g_update_stat = "IN_DOWNLOAD" /\ offered)
    ~> (g_update_stat # "IN_DOWNLOAD" \/ "overlap" \in spoilt \/ Over)
=============================================================================
