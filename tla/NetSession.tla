----------------------------- MODULE NetSession -----------------------------
(***************************************************************************)
(* The TCP sessions of zmdnetlib: the listening thread hands every         *)
(* connection one of MAX_NET_TCP_USER CNetUser objects, which are made     *)
(* once and reused (netserver.cpp, netuser.cpp); a thread per connection   *)
(* serves the client's requests, idles and closes (tcpserver.cpp).  The    *)
(* sessions share the reader cursors of the frame pools (mediamgr.cpp),    *)
(* the talk channel with the amplifier, and the update flag.               *)
(*                                                                         *)
(* A lock covers one table access, never a handler.  A handler is one step *)
(* up to the point where another thread can see a difference; the close    *)
(* callback, which goes on using the object after it has given the object  *)
(* back, is five.                                                          *)
(***************************************************************************)
EXTENDS Integers, FiniteSets

CONSTANTS
  Conns,        \* connections: clients, one at a time each
  NoConn,       \* the null session handle
  MaxTcpUser,   \* MAX_NET_TCP_USER
  StreamTypes,  \* VGA_CHN_TYPE, QVGA_CHN_TYPE, D720P_CHN_TYPE
  MaxMedia,     \* MAX_MEDIA_PLAYER, ids of one type
  Menus         \* bound: sets of requests, of one of which the clients of a
                \* behaviour choose

Requests == {"video", "talk", "playback", "update", "p2p"}

ASSUME SessionAssumption ==
  /\ NoConn \notin Conns
  /\ MaxTcpUser \in Nat \ {0} /\ MaxMedia \in Nat \ {0, 1}
  /\ Menus \subseteq SUBSET Requests

VARIABLES
  used,                        \* m_loginUserList[].used
  user,                        \* m_loginUserList[].userobj
  media, recMedia,             \* ids in use: per stream type, for playback
  m_talkOn, m_talkUserID,      \* who talks
  amp,                         \* the amplifier, StartAudioDecode/StopAudioDecode
  m_isUpdating,
  pc, slot, rec, net,        \* the session thread of a connection
  overtaken,   \* history: slots given out again while the last session's
               \* thread was still resetting the object
  astray,      \* history: cursors in use that a second start on a connection
               \* made the session forget, and that are not free since
  mixed,       \* history: cursors put together by a refused second start, of
               \* the type asked for and the id of the stream it has
  menu         \* what the clients ask for, one of Menus

sharedVars == <<media, recMedia, m_talkOn, m_talkUserID, amp, m_isUpdating>>
talkVars == <<m_talkOn, m_talkUserID>>
threadVars == <<slot, rec, net>>
startVars == <<astray, mixed>>
historyVars == <<overtaken, startVars, menu>>
vars == <<used, user, sharedVars, pc, threadVars, historyVars>>

-----------------------------------------------------------------------------
Slots == 0..(MaxTcpUser - 1)
Invalid == -1                  \* INVALID_USERID, INVALID_SESSION
LiveIds == 1..(MaxMedia - 1)   \* "from 1: bufmanager takes 0 for illegal"
RecIds == 0..(MaxMedia - 1)

Serving == {"loop", "answer", "talk", "talkoff", "play", "update"}
Closing == {"closeMedia", "freeSlot"}                    \* onClose, slot still held
Tail == {"closeTalk", "resetTalk", "resetUser"}          \* onClose, slot given back
PCs == {"none", "accepting"} \cup Serving \cup Closing \cup Tail

CNetUser == [m_sessionHandle : Conns \cup {NoConn}, m_nUserID : Slots \cup {Invalid},
             m_mediaSid : LiveIds \cup {Invalid}, m_ChannelType : StreamTypes,
             m_bStartSendMedia : BOOLEAN, m_bStartTalk : BOOLEAN,
             m_protoP2P : BOOLEAN]           \* m_protoType = ProtoP2P

TypeOK ==
  /\ used \in [Slots -> BOOLEAN]
  /\ user \in [Slots -> CNetUser]
  /\ media \in [StreamTypes -> SUBSET LiveIds]
  /\ recMedia \in SUBSET RecIds
  /\ m_talkOn \in BOOLEAN /\ m_talkUserID \in Slots \cup {Invalid}
  /\ amp \in BOOLEAN /\ m_isUpdating \in BOOLEAN
  /\ pc \in [Conns -> PCs]
  /\ slot \in [Conns -> Slots \cup {Invalid}]
  /\ \A c \in Conns : pc[c] # "none" => slot[c] \in Slots
  /\ rec \in [Conns -> RecIds \cup {Invalid}]
  /\ net \in [Conns -> {"up", "lost"}]
  /\ overtaken \in SUBSET Slots
  /\ astray \in SUBSET (StreamTypes \X LiveIds)
  /\ mixed \in SUBSET (StreamTypes \X LiveIds)
  /\ menu \in SUBSET Requests

AnyType == CHOOSE t \in StreamTypes : TRUE

\* A user object after ResetUser.  m_ChannelType is not among the fields it
\* resets, but a value left over is never read: every m_mediaSid is set after
\* an m_ChannelType.  Here it is AnyType then.
Cleared(u) == [u EXCEPT !.m_sessionHandle = NoConn, !.m_nUserID = Invalid,
                        !.m_mediaSid = Invalid, !.m_ChannelType = AnyType,
                        !.m_bStartSendMedia = FALSE, !.m_bStartTalk = FALSE,
                        !.m_protoP2P = FALSE]

Init ==
  /\ used = [s \in Slots |-> FALSE]
  /\ user \in [Slots -> {u \in CNetUser : u = Cleared(u)}]
  /\ media = [t \in StreamTypes |-> {}] /\ recMedia = {}
  /\ m_talkOn = FALSE /\ m_talkUserID = Invalid /\ amp = FALSE
  /\ m_isUpdating = FALSE
  /\ pc = [c \in Conns |-> "none"] /\ slot = [c \in Conns |-> Invalid]
  /\ rec = [c \in Conns |-> Invalid]
  /\ net = [c \in Conns |-> "up"]
  /\ overtaken = {} /\ astray = {} /\ mixed = {} /\ menu \in Menus

\* The tables are searched from the lowest index up.
FirstFree(i, ids, taken) == /\ i \in ids \ taken
                            /\ \A j \in ids : j < i => j \in taken

Goto(c, label) == pc' = [pc EXCEPT ![c] = label]
SetUser(c, u) == user' = [user EXCEPT ![slot[c]] = u]
UserOf(c) == user[slot[c]]

HasStream(c) == UserOf(c).m_mediaSid # Invalid

\* The cursor a session reads from: pool and user id in the pool.
Cursor(c) == <<UserOf(c).m_ChannelType, UserOf(c).m_mediaSid>>

-----------------------------------------------------------------------------
(* The talk channel.  RequestTalkOn and RequestTalkOff hold m_taklMutex,   *)
(* and nothing else takes the speaker (GetSpeeker), which is therefore     *)
(* free exactly when m_talkOn is false.                                    *)

RequestTalkOn(id) == ~m_talkOn /\ m_talkOn' = TRUE /\ m_talkUserID' = id

RequestTalkOffAny(id) ==                        \* fault: whoever talks is cut off
  m_talkOn' = FALSE /\ m_talkUserID' = Invalid

\* Only the user that talks ends the talk.  m_talkUserID is not read while
\* m_talkOn is false; here it is Invalid then.
RequestTalkOff(id) ==
  IF m_talkOn /\ id = m_talkUserID
  THEN m_talkOn' = FALSE /\ m_talkUserID' = Invalid
  ELSE UNCHANGED talkVars

\* Whoever calls it.  (Its result, an error of the GPIO device, is not looked at.)
StopAudioDecode == amp' = FALSE

-----------------------------------------------------------------------------
(* The listening thread: listenThreadProc, CNetServer::onAccept.           *)

AcceptAnySlot(c) ==                             \* fault: used is not tested
  \E s \in Slots :
    /\ used' = [used EXCEPT ![s] = TRUE]
    /\ slot' = [slot EXCEPT ![c] = s]
    /\ UNCHANGED overtaken

getUnuseWorkSession(c) ==
  \E s \in Slots :
    /\ FirstFree(s, Slots, {i \in Slots : used[i]})
    /\ used' = [used EXCEPT ![s] = TRUE]
    /\ slot' = [slot EXCEPT ![c] = s]
    /\ overtaken' = IF \E d \in Conns : pc[d] \in Tail /\ slot[d] = s
                    THEN overtaken \cup {s} ELSE overtaken

Accept(c) ==
  /\ pc[c] = "none" /\ \A d \in Conns : pc[d] # "accepting"
  /\ getUnuseWorkSession(c)
  /\ Goto(c, "accepting")
  /\ UNCHANGED <<user, sharedVars, rec, net, startVars, menu>>

\* No object is free: the session is deleted and the socket closed.
Refuse(c) ==
  /\ pc[c] = "none" /\ \A d \in Conns : pc[d] # "accepting"
  /\ \A s \in Slots : used[s]
  /\ UNCHANGED vars

\* ResetUser, the handle and the id are set, the session thread starts.
Accepted(c) ==
  /\ pc[c] = "accepting"
  /\ RequestTalkOff(UserOf(c).m_nUserID)
  /\ SetUser(c, [Cleared(UserOf(c)) EXCEPT !.m_sessionHandle = c,
                                           !.m_nUserID = slot[c]])
  /\ Goto(c, "loop")
  /\ UNCHANGED <<used, media, recMedia, amp, m_isUpdating, threadVars, historyVars>>

-----------------------------------------------------------------------------
(* The session thread: requests of the client.                             *)

InLoop(c) == pc[c] = "loop"
Asks(c, request) == InLoop(c) /\ net[c] = "up" /\ request \in menu

GrantAnyId(c, t) ==                             \* fault: used[] is not tested
  \E i \in LiveIds :
    /\ media' = [media EXCEPT ![t] = @ \cup {i}]
    /\ SetUser(c, [UserOf(c) EXCEPT !.m_ChannelType = t, !.m_mediaSid = i])
    /\ Goto(c, "answer")

GrantPastEnd(c, t) ==                           \* fault: <= for < in the search
  \E i \in 1..MaxMedia :
    /\ FirstFree(i, 1..MaxMedia, media[t])
    /\ media' = [media EXCEPT ![t] = @ \cup {i}]
    /\ SetUser(c, [UserOf(c) EXCEPT !.m_ChannelType = t, !.m_mediaSid = i])
    /\ Goto(c, "answer")

\* An idle id of that type; one the object already had is overwritten.
getUnuseMediaSession(c, t) ==
  \E i \in LiveIds :
    /\ FirstFree(i, LiveIds, media[t])
    /\ media' = [media EXCEPT ![t] = @ \cup {i}]
    /\ SetUser(c, [UserOf(c) EXCEPT !.m_ChannelType = t, !.m_mediaSid = i])
    /\ Goto(c, "answer")

\* Refused: no id, the camera is switched off, or too many users by
\* m_nUserCount.  m_ChannelType is set by then, and the session closes.
RefuseVideoLiving(c, t) ==
  /\ SetUser(c, [UserOf(c) EXCEPT !.m_ChannelType = t])
  /\ Goto(c, "closeMedia")
  /\ UNCHANGED media

\* A stream the connection already has is forgotten with its id still in use ...
Forgets(c) == astray' = IF HasStream(c) THEN astray \cup {Cursor(c)} ELSE astray

\* ... or, where the new start is refused, keeps its id under the new type.
Mixes(c, t) ==
  IF HasStream(c) /\ t # UserOf(c).m_ChannelType
  THEN Forgets(c) /\ mixed' = mixed \cup {<<t, UserOf(c).m_mediaSid>>}
  ELSE UNCHANGED startVars

\* Nothing asks whether the connection has a stream already.
onRequestVideoLiving(c, t) ==
  /\ Asks(c, "video")
  /\ \/ getUnuseMediaSession(c, t) /\ Forgets(c) /\ UNCHANGED mixed
     \/ RefuseVideoLiving(c, t) /\ Mixes(c, t)
  /\ UNCHANGED <<used, recMedia, talkVars, amp, m_isUpdating, threadVars,
                 overtaken, menu>>

\* A send to a client that is lost may fail.  It clears the session's run
\* flag, which the loop tests next.
SendFails(c) == net[c] = "lost" /\ UserOf(c).m_sessionHandle = c

\* The answer is sent, then sending is switched on whatever became of it.
StartVideoLiving(c) ==
  /\ pc[c] = "answer"
  /\ SetUser(c, [UserOf(c) EXCEPT !.m_bStartSendMedia = TRUE])
  /\ Goto(c, "loop") \/ (SendFails(c) /\ Goto(c, "closeMedia"))
  /\ UNCHANGED <<used, sharedVars, threadVars, historyVars>>

onStopVideoLiving(c) ==
  /\ Asks(c, "video")
  /\ SetUser(c, [UserOf(c) EXCEPT !.m_bStartSendMedia = FALSE])
  /\ Goto(c, "closeMedia")
  /\ UNCHANGED <<used, sharedVars, threadVars, historyVars>>

\* onTalkOn, first half: refused without a trace while somebody talks.
onTalkOn(c) ==
  /\ Asks(c, "talk")
  /\ RequestTalkOn(UserOf(c).m_nUserID)
  /\ Goto(c, "talk")
  /\ UNCHANGED <<used, user, media, recMedia, amp, m_isUpdating, threadVars, historyVars>>

\* Second half: StartAudioDecode, which may fail; the talk then stays taken
\* with m_bStartTalk false.
StartTalk(c) ==
  /\ pc[c] = "talk"
  /\ \/ amp' = TRUE /\ SetUser(c, [UserOf(c) EXCEPT !.m_bStartTalk = TRUE])
     \/ UNCHANGED <<amp, user>>
  /\ Goto(c, "loop")
  /\ UNCHANGED <<used, media, recMedia, talkVars, m_isUpdating, threadVars, historyVars>>

\* onTalOff, first half: refused or not, the handler goes on.
onTalOff(c) ==
  /\ Asks(c, "talk")
  /\ RequestTalkOff(UserOf(c).m_nUserID)
  /\ Goto(c, "talkoff")
  /\ UNCHANGED <<used, user, media, recMedia, amp, m_isUpdating, threadVars, historyVars>>

StopTalk(c) ==
  /\ pc[c] = "talkoff"
  /\ StopAudioDecode
  /\ SetUser(c, [UserOf(c) EXCEPT !.m_bStartTalk = FALSE])
  /\ Goto(c, "loop")
  /\ UNCHANGED <<used, media, recMedia, talkVars, m_isUpdating, threadVars, historyVars>>

\* A refused playback (updating, no id, no such file, camera off) closes the
\* session and is ReceiveFails.
onPlaybackPlay(c) ==
  /\ Asks(c, "playback") /\ ~m_isUpdating
  /\ \E i \in RecIds : /\ FirstFree(i, RecIds, recMedia)
                       /\ recMedia' = recMedia \cup {i}
                       /\ rec' = [rec EXCEPT ![c] = i]
  /\ Goto(c, "play")
  /\ UNCHANGED <<used, user, media, talkVars, amp, m_isUpdating, slot, net, historyVars>>

PlaybackEndKeepsId(c) ==                        \* fault: an exit that does not free
  /\ pc[c] = "play"
  /\ rec' = [rec EXCEPT ![c] = Invalid]
  /\ Goto(c, "closeMedia")
  /\ UNCHANGED <<used, user, sharedVars, slot, net, historyVars>>

\* End of the file, a failed read or send, or an update in progress.
PlaybackEnd(c) ==
  /\ pc[c] = "play"
  /\ recMedia' = recMedia \ {rec[c]}
  /\ rec' = [rec EXCEPT ![c] = Invalid]
  /\ Goto(c, "closeMedia")
  /\ UNCHANGED <<used, user, media, talkVars, amp, m_isUpdating, slot, net, historyVars>>

onRequestUpdate(c) ==
  /\ Asks(c, "update")
  /\ m_isUpdating' = TRUE
  /\ Goto(c, "update")
  /\ UNCHANGED <<used, user, media, recMedia, talkVars, amp, threadVars, historyVars>>

\* The file is received only while there is a client and a handle to receive
\* from: TcpBlockRecv gives 0 otherwise, and the loop waits for less than 0.
\* A file that passes the checks leaves the flag set for UpdateToFlash.
UpdateReceived(c) ==
  /\ pc[c] = "update" /\ net[c] = "up" /\ UserOf(c).m_sessionHandle = c
  /\ m_isUpdating' \in {FALSE, m_isUpdating}
  /\ Goto(c, "closeMedia")
  /\ UNCHANGED <<used, user, media, recMedia, talkVars, amp, threadVars, historyVars>>

\* Another round of that loop with nothing received.
UpdateWaits(c) == pc[c] = "update" /\ UNCHANGED vars

-----------------------------------------------------------------------------
(* The session thread: the network, the clock and the end of the loop.     *)

ClientLost(c) ==
  /\ pc[c] \in Serving /\ net[c] = "up"
  /\ net' = [net EXCEPT ![c] = "lost"]
  /\ UNCHANGED <<used, user, sharedVars, pc, slot, rec, historyVars>>

\* OnTcpReceive gives false: the client closed or reset the connection, or
\* sent a command after which the connection is closed.
ReceiveFails(c) ==
  /\ InLoop(c)
  /\ Goto(c, "closeMedia")
  /\ UNCHANGED <<used, user, sharedVars, threadVars, historyVars>>

TimesOutNever(c) ==                             \* fault: the run flag stays set
  /\ InLoop(c) /\ ~UserOf(c).m_bStartSendMedia
  /\ SetUser(c, [UserOf(c) EXCEPT !.m_sessionHandle = NoConn])
  /\ UNCHANGED <<used, sharedVars, pc, threadVars, historyVars>>

\* A packet with the P2P head: from now on every idle renews m_ActiveTime.
\* The packet stays in the receive buffer (no byte of it is used), so that no
\* packet after it turns the protocol back; those before it, if it did not come
\* alone, are handled again with every receive.
onP2P(c) ==
  /\ Asks(c, "p2p")
  /\ SetUser(c, [UserOf(c) EXCEPT !.m_protoP2P = TRUE])
  /\ UNCHANGED <<used, sharedVars, pc, threadVars, historyVars>>

\* Nothing to stream, and the idle callback keeps the session from timing out.
KeptAlive(c) == UserOf(c).m_protoP2P /\ ~UserOf(c).m_bStartSendMedia

\* onIdle, nothing to stream and nothing heard for 20 s: StopTcpSession clears
\* the run flag, but does nothing when the object's handle is null.
TimesOut(c) ==
  /\ InLoop(c) /\ ~UserOf(c).m_bStartSendMedia /\ ~KeptAlive(c)
  /\ UserOf(c).m_sessionHandle = c
  /\ Goto(c, "closeMedia")
  /\ UNCHANGED <<used, user, sharedVars, threadVars, historyVars>>

\* onIdle, streaming: the send of the next frame to a lost client fails.
SendLivingData(c) ==
  /\ InLoop(c) /\ UserOf(c).m_bStartSendMedia /\ UserOf(c).m_mediaSid # Invalid
  /\ SendFails(c)
  /\ Goto(c, "closeMedia")
  /\ UNCHANGED <<used, user, sharedVars, threadVars, historyVars>>

-----------------------------------------------------------------------------
(* CNetUser::onClose, on the object of the connection's slot.              *)

CloseMedia(c) ==
  /\ pc[c] = "closeMedia"
  /\ SetUser(c, [UserOf(c) EXCEPT !.m_sessionHandle = NoConn,
                                  !.m_mediaSid = Invalid, !.m_bStartSendMedia = FALSE])
  /\ media' = [media EXCEPT ![UserOf(c).m_ChannelType] = @ \ {UserOf(c).m_mediaSid}]
  /\ astray' = astray \ {Cursor(c)}
  /\ Goto(c, "freeSlot")
  /\ UNCHANGED <<used, recMedia, talkVars, amp, m_isUpdating, threadVars,
                 overtaken, mixed, menu>>

\* freeWorkSession: by the id in the object, refused when that is invalid.
FreeSlot(c) ==
  /\ pc[c] = "freeSlot"
  /\ used' = [s \in Slots |-> used[s] /\ s # UserOf(c).m_nUserID]
  /\ Goto(c, "closeTalk")
  /\ UNCHANGED <<user, sharedVars, threadVars, historyVars>>

CloseTalk(c) ==
  /\ pc[c] = "closeTalk"
  /\ IF UserOf(c).m_bStartTalk
     THEN /\ StopAudioDecode
          /\ RequestTalkOff(UserOf(c).m_nUserID)
          /\ SetUser(c, [UserOf(c) EXCEPT !.m_bStartTalk = FALSE])
     ELSE UNCHANGED <<amp, talkVars, user>>
  /\ Goto(c, "resetTalk")
  /\ UNCHANGED <<used, media, recMedia, m_isUpdating, threadVars, historyVars>>

\* The protocol is unknown again; then ResetUser up to RequestTalkOff, which
\* frees a talk that never started.
ResetTalk(c) ==
  /\ pc[c] = "resetTalk"
  /\ SetUser(c, [UserOf(c) EXCEPT !.m_protoP2P = FALSE, !.m_bStartTalk = FALSE])
  /\ RequestTalkOff(UserOf(c).m_nUserID)
  /\ Goto(c, "resetUser")
  /\ UNCHANGED <<used, media, recMedia, amp, m_isUpdating, threadVars, historyVars>>

\* The rest of ResetUser; the session is deleted and its thread ends.
ResetUser(c) ==
  /\ pc[c] = "resetUser"
  /\ SetUser(c, [Cleared(UserOf(c)) EXCEPT !.m_bStartTalk = UserOf(c).m_bStartTalk])
  /\ Goto(c, "none")
  /\ slot' = [slot EXCEPT ![c] = Invalid]
  /\ net' = [net EXCEPT ![c] = "up"]
  /\ UNCHANGED <<used, sharedVars, rec, historyVars>>

-----------------------------------------------------------------------------
Listen(c) == Accept(c) \/ Refuse(c) \/ Accepted(c)

Request(c) ==
  \/ \E t \in StreamTypes : onRequestVideoLiving(c, t)
  \/ onStopVideoLiving(c)
  \/ onTalkOn(c) \/ onTalOff(c)
  \/ onPlaybackPlay(c)
  \/ onRequestUpdate(c)
  \/ onP2P(c)

Answer(c) == \/ StartVideoLiving(c) \/ StartTalk(c) \/ StopTalk(c)
             \/ PlaybackEnd(c)

onClose(c) == \/ CloseMedia(c) \/ FreeSlot(c) \/ CloseTalk(c)
              \/ ResetTalk(c) \/ ResetUser(c)

Next ==
  \E c \in Conns :
    \/ Listen(c) \/ Request(c) \/ Answer(c)
    \/ UpdateReceived(c) \/ UpdateWaits(c)
    \/ ClientLost(c) \/ ReceiveFails(c) \/ TimesOut(c) \/ SendLivingData(c)
    \/ onClose(c)

Spec == Init /\ [][Next]_vars

\* A session thread runs on: handlers return, files end, frames keep coming
\* and the 20 s pass.  What the client does, or the network, is not fair.
Runs(c) ==
  \/ Answer(c) \/ SendLivingData(c) \/ onClose(c)
  \/ net[c] = "lost" /\ TimesOut(c)

Fairness == \A c \in Conns : WF_vars(Runs(c)) /\ WF_vars(Accepted(c))
FairSpec == Spec /\ Fairness

-----------------------------------------------------------------------------
(* Properties.                                                             *)

Holds(c, s) == pc[c] \in {"accepting"} \cup Serving \cup Closing /\ slot[c] = s

\* A user object belongs to one connection from getUnuseWorkSession to
\* freeWorkSession, also after its id was wiped by an earlier session's reset.
OneSessionPerSlot ==
  \A c, d \in Conns, s \in Slots : Holds(c, s) /\ Holds(d, s) => c = d

Streams(c) == pc[c] \in Serving /\ UserOf(c).m_bStartSendMedia /\ HasStream(c)

\* While a session streams its cursor is reserved and no other session's: the
\* pool moves a cursor at every read, so two readers would each get half of
\* the frames.  Second starts on one connection are among the behaviours; what
\* is excepted is a cursor a refused one has mixed: at the session's close its
\* id is freed under a type that may be another reader's.
CursorReserved ==
  \A c \in Conns : Streams(c) /\ Cursor(c) \notin mixed =>
    /\ UserOf(c).m_mediaSid \in media[UserOf(c).m_ChannelType]
    /\ \A d \in Conns \ {c} : Streams(d) => Cursor(d) # Cursor(c)

\* Whatever way a session ends, what is taken is held by a session that will
\* give it back: work sessions, live ids, playback ids.  Live ids that a second
\* start on a connection has overwritten are held by nobody: those in astray,
\* and no others.  (Nothing is said once an object was given out before its
\* reset was over: the reset wipes what the new session has to give back.)
NothingLeaks ==
  overtaken = {} =>
    /\ \A s \in Slots : used[s] => \E c \in Conns : Holds(c, s)
    /\ \A t \in StreamTypes : \A i \in media[t] :
         \/ \E c \in Conns : pc[c] \in Serving \cup {"closeMedia"} /\ Cursor(c) = <<t, i>>
         \/ <<t, i>> \in astray
    /\ \A i \in recMedia : \E c \in Conns : pc[c] = "play" /\ rec[c] = i

\* The talk channel is held by a session that is still to run RequestTalkOff
\* with the id it was taken under, and a session that believes it talks is the
\* one that does: also when StartAudioDecode failed and m_bStartTalk never
\* was set.  The amplifier is on only for a session that is still to switch it
\* off.  (That it is on while one talks is not so: any session's talk-off
\* switches it off.)
TalkAccounted ==
  overtaken = {} =>
    /\ m_talkOn => \E c \in Conns :
                     /\ pc[c] \in Serving \cup Closing \cup {"closeTalk", "resetTalk"}
                     /\ slot[c] = m_talkUserID
    /\ \A c \in Conns : pc[c] \in Serving \ {"talkoff"} /\ UserOf(c).m_bStartTalk
         => m_talkOn /\ m_talkUserID = slot[c]
    /\ amp => \E c \in Conns : /\ pc[c] \in Serving \cup Closing \cup {"closeTalk"}
                              /\ UserOf(c).m_bStartTalk

\* A client that vanished without a word does not keep its user object: the
\* idle time-out or a failing send ends the session.  Not so three sessions: one
\* that receives an update waits for ever, one whose handle was wiped cannot be
\* stopped, and one that spoke P2P and streams nothing is kept alive by its own
\* idle callback.
LostClientIsDropped ==
  \A c \in Conns : net[c] = "lost" /\ pc[c] # "update"
     ~> \/ pc[c] = "none"
        \/ slot[c] \in overtaken
        \/ InLoop(c) /\ KeptAlive(c)

\* netserver.cpp:691: an accepted user object is no other thread's to close, so
\* it may be used without the lock.
AcceptedUserKept ==
  \A c \in Conns : pc[c] \in Serving =>
    UserOf(c).m_sessionHandle = c /\ UserOf(c).m_nUserID = slot[c]
=============================================================================
