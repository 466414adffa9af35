-------------------------- MODULE NetSessionProofs --------------------------
(***************************************************************************)
(* What the session tables promise for every number of clients, user       *)
(* objects, stream types and ids.                                          *)
(*                                                                         *)
(* All actions of a connection change the user object of its slot only;    *)
(* they differ in what becomes of the slot itself.  Shapes sorts them, and *)
(* the invariants of the user table follow from the sort (SlotInv).        *)
(***************************************************************************)
EXTENDS NetSession, TLAPS

Active == {"accepting"} \cup Serving \cup Closing

\* A user object's id is its index, or was wiped by a reset.
IdOfSlot == \A s \in Slots : user[s].m_nUserID \in {s, Invalid}

HeldUsed == \A c \in Conns, s \in Slots : Holds(c, s) => used[s]

SlotInv == TypeOK /\ IdOfSlot /\ HeldUsed /\ OneSessionPerSlot

\* What an action of c may do to c's slot: nothing, take it, give it back, or
\* leave it after it was given back.
Keeps(c) ==
  /\ pc[c] \in Active /\ pc' = [pc EXCEPT ![c] = pc'[c]]
  /\ pc'[c] \in Serving \cup Closing
  /\ UNCHANGED <<used, slot>>

Leaves(c) ==
  /\ pc[c] \in Tail /\ pc' = [pc EXCEPT ![c] = pc'[c]]
  /\ pc'[c] \in Tail \cup {"none"}
  /\ pc'[c] # "none" => UNCHANGED slot
  /\ slot' \in {slot, [slot EXCEPT ![c] = Invalid]}
  /\ UNCHANGED used

\* What it may do to the object, and the ids it may then have.
IdAfter(c, id) ==
  \/ id = UserOf(c).m_nUserID
  \/ Accepted(c) /\ id = slot[c]
  \/ ResetUser(c) /\ id = Invalid

Rewrites(c) ==
  \/ UNCHANGED user
  \/ \E u \in CNetUser : /\ user' = [user EXCEPT ![slot[c]] = u]
                         /\ IdAfter(c, u.m_nUserID)

Step(c) ==
  \/ Listen(c) \/ Request(c) \/ Answer(c)
  \/ UpdateReceived(c) \/ UpdateWaits(c)
  \/ ClientLost(c) \/ ReceiveFails(c) \/ TimesOut(c) \/ SendLivingData(c)
  \/ onClose(c)

-----------------------------------------------------------------------------
(* Objects and types.                                                      *)

LEMMA InvalidNoSlot == Invalid \notin Slots /\ Invalid \notin LiveIds /\ Invalid \notin RecIds
  BY SessionAssumption DEF Invalid, Slots, LiveIds, RecIds

LEMMA AnyTypeOK == ASSUME NEW t \in StreamTypes PROVE AnyType \in StreamTypes
  BY DEF AnyType

LEMMA ClearedUser ==
  ASSUME NEW u \in CNetUser
  PROVE  /\ Cleared(u) \in CNetUser /\ Cleared(u).m_nUserID = Invalid
         /\ Cleared(u).m_mediaSid = Invalid
  <1>1. u.m_ChannelType \in StreamTypes
    BY DEF CNetUser
  <1>2. AnyType \in StreamTypes
    BY <1>1, AnyTypeOK
  <1> QED BY <1>2 DEF Cleared, CNetUser

LEMMA InitSlotInv == Init => SlotInv
  <1> SUFFICES ASSUME Init PROVE SlotInv
    OBVIOUS
  <1>1. user \in [Slots -> CNetUser] /\ \A s \in Slots : user[s] = Cleared(user[s])
    BY DEF Init
  <1>2. TypeOK
    BY <1>1, SessionAssumption DEF Init, TypeOK, PCs
  <1>3. IdOfSlot
    BY <1>1, ClearedUser DEF IdOfSlot
  <1>4. HeldUsed /\ OneSessionPerSlot
    BY DEF Init, HeldUsed, OneSessionPerSlot, Holds, Serving, Closing
  <1> QED BY <1>2, <1>3, <1>4 DEF SlotInv

LEMMA UserOfType ==
  ASSUME TypeOK, NEW c \in Conns, pc[c] # "none"
  PROVE  slot[c] \in Slots /\ UserOf(c) \in CNetUser /\ UserOf(c) = user[slot[c]]
  BY DEF TypeOK, UserOf

LEMMA SetUserRewrites ==
  ASSUME NEW c \in Conns, NEW u \in CNetUser, SetUser(c, u), IdAfter(c, u.m_nUserID)
  PROVE  Rewrites(c)
  BY DEF SetUser, Rewrites

LEMMA StepRewrites ==
  ASSUME TypeOK, IdOfSlot, NEW c \in Conns, Step(c)
  PROVE  Rewrites(c)
  <1>1. CASE Listen(c)
    <2>1. CASE Accepted(c)
      <3>1. pc[c] # "none" /\ slot[c] \in Slots
        BY <2>1, UserOfType DEF Accepted
      <3> DEFINE u == [Cleared(UserOf(c)) EXCEPT !.m_sessionHandle = c,
                                                 !.m_nUserID = slot[c]]
      <3>2. Cleared(UserOf(c)) \in CNetUser
        BY <3>1, UserOfType, ClearedUser
      <3>3. u \in CNetUser /\ u.m_nUserID = slot[c]
        BY <3>1, <3>2 DEF CNetUser
      <3>4. SetUser(c, u)
        BY <2>1 DEF Accepted
      <3> QED BY <2>1, <3>3, <3>4, SetUserRewrites DEF IdAfter
    <2> QED BY <1>1, <2>1 DEF Listen, Accept, Refuse, vars, Rewrites
  <1>2. CASE Request(c)
    <2>1. ASSUME NEW t \in StreamTypes, onRequestVideoLiving(c, t) PROVE Rewrites(c)
      <3>1. pc[c] # "none"
        BY <2>1 DEF onRequestVideoLiving, Asks, InLoop
      <3>2. ASSUME NEW i \in LiveIds,
                   SetUser(c, [UserOf(c) EXCEPT !.m_ChannelType = t, !.m_mediaSid = i])
            PROVE  Rewrites(c)
        <4> DEFINE u == [UserOf(c) EXCEPT !.m_ChannelType = t, !.m_mediaSid = i]
        <4>1. u \in CNetUser /\ u.m_nUserID = UserOf(c).m_nUserID
          BY <3>1, UserOfType DEF CNetUser
        <4> QED BY <3>1, <3>2, <4>1, SetUserRewrites DEF IdAfter
      <3>3. CASE RefuseVideoLiving(c, t)
        <4> DEFINE u == [UserOf(c) EXCEPT !.m_ChannelType = t]
        <4>1. u \in CNetUser /\ u.m_nUserID = UserOf(c).m_nUserID
          BY <3>1, UserOfType DEF CNetUser
        <4> QED BY <3>1, <3>3, <4>1, SetUserRewrites DEF IdAfter, RefuseVideoLiving
      <3> QED BY <2>1, <3>2, <3>3 DEF onRequestVideoLiving, getUnuseMediaSession
    <2>2. CASE onStopVideoLiving(c)
      <3>1. pc[c] # "none"
        BY <2>2 DEF onStopVideoLiving, Asks, InLoop
      <3> DEFINE u == [UserOf(c) EXCEPT !.m_bStartSendMedia = FALSE]
      <3>2. u \in CNetUser /\ u.m_nUserID = UserOf(c).m_nUserID
        BY <3>1, UserOfType DEF CNetUser
      <3> QED BY <2>2, <3>1, <3>2, SetUserRewrites DEF IdAfter, onStopVideoLiving
    <2>3. CASE onP2P(c)
      <3>1. pc[c] # "none"
        BY <2>3 DEF onP2P, Asks, InLoop
      <3> DEFINE u == [UserOf(c) EXCEPT !.m_protoP2P = TRUE]
      <3>2. u \in CNetUser /\ u.m_nUserID = UserOf(c).m_nUserID
        BY <3>1, UserOfType DEF CNetUser
      <3> QED BY <2>3, <3>1, <3>2, SetUserRewrites DEF IdAfter, onP2P
    <2> QED BY <1>2, <2>1, <2>2, <2>3
            DEF Request, onTalkOn, onTalOff, onPlaybackPlay, onRequestUpdate, Rewrites
  <1>3. CASE Answer(c)
    <2>1. pc[c] # "none"
      BY <1>3 DEF Answer, StartVideoLiving, StartTalk, StopTalk, PlaybackEnd
    <2> DEFINE Media(b) == [UserOf(c) EXCEPT !.m_bStartSendMedia = b]
               Talk(b) == [UserOf(c) EXCEPT !.m_bStartTalk = b]
    <2>2. \A b \in BOOLEAN :
            /\ Media(b) \in CNetUser /\ Media(b).m_nUserID = UserOf(c).m_nUserID
            /\ Talk(b) \in CNetUser /\ Talk(b).m_nUserID = UserOf(c).m_nUserID
      BY <2>1, UserOfType DEF CNetUser
    <2>3. UNCHANGED user \/ \E b \in BOOLEAN : SetUser(c, Media(b)) \/ SetUser(c, Talk(b))
      BY <1>3 DEF Answer, StartVideoLiving, StartTalk, StopTalk, PlaybackEnd
    <2> QED BY <2>1, <2>2, <2>3, SetUserRewrites DEF IdAfter, Rewrites
  <1>4. CASE \/ UpdateReceived(c) \/ UpdateWaits(c) \/ ClientLost(c) \/ ReceiveFails(c)
             \/ TimesOut(c) \/ SendLivingData(c)
    BY <1>4 DEF UpdateReceived, UpdateWaits, ClientLost, ReceiveFails, TimesOut,
                SendLivingData, vars, Rewrites
  <1>5. CASE onClose(c)
    <2>1. pc[c] # "none"
      BY <1>5 DEF onClose, CloseMedia, FreeSlot, CloseTalk, ResetTalk, ResetUser
    <2>2. CASE CloseMedia(c)
      <3> DEFINE u == [UserOf(c) EXCEPT !.m_sessionHandle = NoConn,
                          !.m_mediaSid = Invalid, !.m_bStartSendMedia = FALSE]
      <3>1. u \in CNetUser /\ u.m_nUserID = UserOf(c).m_nUserID
        BY <2>1, UserOfType DEF CNetUser
      <3> QED BY <2>1, <2>2, <3>1, SetUserRewrites DEF IdAfter, CloseMedia
    <2>3. CASE CloseTalk(c) \/ ResetTalk(c)
      <3> DEFINE u == [UserOf(c) EXCEPT !.m_bStartTalk = FALSE]
                 v == [UserOf(c) EXCEPT !.m_protoP2P = FALSE, !.m_bStartTalk = FALSE]
      <3>1. /\ u \in CNetUser /\ u.m_nUserID = UserOf(c).m_nUserID
            /\ v \in CNetUser /\ v.m_nUserID = UserOf(c).m_nUserID
        BY <2>1, UserOfType DEF CNetUser
      <3>2. UNCHANGED user \/ SetUser(c, u) \/ SetUser(c, v)
        BY <2>3 DEF CloseTalk, ResetTalk
      <3> QED BY <2>1, <3>1, <3>2, SetUserRewrites DEF IdAfter, Rewrites
    <2>4. CASE ResetUser(c)
      <3> DEFINE u == [Cleared(UserOf(c)) EXCEPT !.m_bStartTalk = UserOf(c).m_bStartTalk]
      <3>1. u \in CNetUser /\ u.m_nUserID = Invalid
        BY <2>1, UserOfType, ClearedUser DEF CNetUser
      <3> QED BY <2>1, <2>4, <3>1, SetUserRewrites DEF IdAfter, ResetUser
    <2> QED BY <1>5, <2>2, <2>3, <2>4 DEF onClose, FreeSlot, Rewrites
  <1> QED BY <1>1, <1>2, <1>3, <1>4, <1>5 DEF Step

LEMMA RewriteKeeps ==
  ASSUME TypeOK, IdOfSlot, NEW c \in Conns, Rewrites(c)
  PROVE  user' \in [Slots -> CNetUser] /\ IdOfSlot'
  BY DEF TypeOK, IdOfSlot, Rewrites, IdAfter, UserOf

-----------------------------------------------------------------------------
(* Slots and types.                                                        *)

\* Every step takes a slot, gives one back, keeps the slot or leaves it.
LEMMA Shapes ==
  ASSUME TypeOK, NEW c \in Conns, Step(c)
  PROVE  \/ Accept(c) \/ FreeSlot(c) \/ Keeps(c) \/ Leaves(c) \/ UNCHANGED vars
  <1> USE DEF TypeOK, Keeps, Leaves, Active, Serving, Closing, Tail, Goto, threadVars
  <1>1. CASE Listen(c)
    BY <1>1 DEF Listen, Refuse, Accepted
  <1>2. CASE Request(c)
    BY <1>2 DEF Request, onRequestVideoLiving, getUnuseMediaSession, RefuseVideoLiving,
         onStopVideoLiving, onTalkOn, onTalOff, onPlaybackPlay, onRequestUpdate, onP2P, Asks, InLoop
  <1>3. CASE Answer(c)
    BY <1>3 DEF Answer, StartVideoLiving, StartTalk, StopTalk, PlaybackEnd
  <1>4. CASE UpdateReceived(c) \/ UpdateWaits(c) \/ ReceiveFails(c) \/ TimesOut(c)
             \/ SendLivingData(c)
    BY <1>4 DEF UpdateReceived, UpdateWaits, ReceiveFails, TimesOut, SendLivingData, InLoop
  <1>5. CASE ClientLost(c)
    BY <1>5 DEF ClientLost
  <1>6. CASE CloseMedia(c)
    BY <1>6 DEF CloseMedia
  <1>7. CASE CloseTalk(c) \/ ResetTalk(c) \/ ResetUser(c)
    BY <1>7 DEF CloseTalk, ResetTalk, ResetUser
  <1> QED BY <1>1, <1>2, <1>3, <1>4, <1>5, <1>6, <1>7 DEF Step, onClose

\* The pc, and the slot of every running session.
LEMMA ShapeTypes ==
  ASSUME TypeOK, NEW c \in Conns, Step(c)
  PROVE  /\ used' \in [Slots -> BOOLEAN] /\ pc' \in [Conns -> PCs]
         /\ slot' \in [Conns -> Slots \cup {Invalid}]
         /\ \A d \in Conns : pc'[d] # "none" => slot'[d] \in Slots
  <1> USE DEF TypeOK, Serving, Closing, Tail, PCs
  <1>1. CASE Accept(c)
    <2>1. PICK s \in Slots : /\ used' = [used EXCEPT ![s] = TRUE]
                             /\ slot' = [slot EXCEPT ![c] = s]
      BY <1>1 DEF Accept, getUnuseWorkSession
    <2>2. pc' = [pc EXCEPT ![c] = "accepting"]
      BY <1>1 DEF Accept, Goto
    <2> QED BY <2>1, <2>2
  <1>2. CASE FreeSlot(c)
    <2>1. used' \in [Slots -> BOOLEAN]
      BY <1>2 DEF FreeSlot
    <2> QED BY <1>2, <2>1 DEF FreeSlot, Goto, threadVars
  <1>3. CASE Keeps(c)
    BY <1>3 DEF Keeps, Active
  <1>4. CASE Leaves(c)
    BY <1>4 DEF Leaves
  <1>5. CASE UNCHANGED vars
    BY <1>5 DEF vars, threadVars
  <1> QED BY <1>1, <1>2, <1>3, <1>4, <1>5, Shapes

\* The tables and flags the sessions share.
LEMMA TalkOffTypes ==
  ASSUME TypeOK, NEW id, RequestTalkOff(id)
  PROVE  m_talkOn' \in BOOLEAN /\ m_talkUserID' \in Slots \cup {Invalid}
  BY DEF TypeOK, RequestTalkOff, talkVars

LEMMA SharedTypes ==
  ASSUME TypeOK, IdOfSlot, NEW c \in Conns, Step(c)
  PROVE  /\ media' \in [StreamTypes -> SUBSET LiveIds] /\ recMedia' \in SUBSET RecIds
         /\ m_talkOn' \in BOOLEAN /\ m_talkUserID' \in Slots \cup {Invalid}
         /\ amp' \in BOOLEAN /\ m_isUpdating' \in BOOLEAN
         /\ rec' \in [Conns -> RecIds \cup {Invalid}]
         /\ net' \in [Conns -> {"up", "lost"}]
         /\ overtaken' \in SUBSET Slots
         /\ astray' \in SUBSET (StreamTypes \X LiveIds)
         /\ mixed' \in SUBSET (StreamTypes \X LiveIds)
         /\ menu' \in SUBSET Requests
  <1> USE DEF TypeOK, sharedVars, talkVars, threadVars, historyVars, startVars
  <1>1. CASE Listen(c)
    <2>1. CASE Accept(c)
      BY <2>1 DEF Accept, getUnuseWorkSession
    <2>2. CASE Accepted(c)
      BY <2>2, TalkOffTypes DEF Accepted
    <2> QED BY <1>1, <2>1, <2>2 DEF Listen, Refuse, vars
  <1>2. CASE Request(c)
    <2>1. ASSUME NEW t \in StreamTypes, onRequestVideoLiving(c, t)
          PROVE  /\ media' \in [StreamTypes -> SUBSET LiveIds]
                 /\ astray' \in SUBSET (StreamTypes \X LiveIds)
                 /\ mixed' \in SUBSET (StreamTypes \X LiveIds)
                 /\ UNCHANGED <<recMedia, talkVars, amp, m_isUpdating, rec, net, overtaken,
                                menu>>
      <3>1. UNCHANGED media \/ \E i \in LiveIds : media' = [media EXCEPT ![t] = @ \cup {i}]
        BY <2>1 DEF onRequestVideoLiving, getUnuseMediaSession, RefuseVideoLiving
      <3>2. media' \in [StreamTypes -> SUBSET LiveIds]
        BY <3>1
      <3>3. UserOf(c) \in CNetUser
        BY <2>1, UserOfType DEF onRequestVideoLiving, Asks, InLoop
      <3>4. /\ HasStream(c) => Cursor(c) \in StreamTypes \X LiveIds
            /\ HasStream(c) => <<t, UserOf(c).m_mediaSid>> \in StreamTypes \X LiveIds
        BY <3>3 DEF HasStream, Cursor, CNetUser
      <3>5. astray' \in {astray, astray \cup {Cursor(c)}} /\ (astray' # astray => HasStream(c))
        BY <2>1 DEF onRequestVideoLiving, Forgets, Mixes
      <3>6. /\ mixed' \in {mixed, mixed \cup {<<t, UserOf(c).m_mediaSid>>}}
            /\ mixed' # mixed => HasStream(c)
        BY <2>1 DEF onRequestVideoLiving, Mixes
      <3>7. /\ astray' \in SUBSET (StreamTypes \X LiveIds)
            /\ mixed' \in SUBSET (StreamTypes \X LiveIds)
        BY <3>4, <3>5, <3>6
      <3> QED BY <2>1, <3>2, <3>7 DEF onRequestVideoLiving
    <2>2. CASE onTalkOn(c)
      <3>1. m_talkUserID' \in Slots \cup {Invalid} /\ m_talkOn' \in BOOLEAN
        BY <2>2, UserOfType DEF onTalkOn, RequestTalkOn, Asks, InLoop, IdOfSlot
      <3> QED BY <2>2, <3>1 DEF onTalkOn
    <2>3. CASE onTalOff(c)
      BY <2>3, TalkOffTypes DEF onTalOff
    <2>4. CASE onPlaybackPlay(c)
      <3>1. PICK i \in RecIds : recMedia' = recMedia \cup {i} /\ rec' = [rec EXCEPT ![c] = i]
        BY <2>4 DEF onPlaybackPlay
      <3> QED BY <2>4, <3>1 DEF onPlaybackPlay
    <2>5. CASE onStopVideoLiving(c) \/ onRequestUpdate(c) \/ onP2P(c)
      BY <2>5 DEF onStopVideoLiving, onRequestUpdate, onP2P
    <2> QED BY <1>2, <2>1, <2>2, <2>3, <2>4, <2>5 DEF Request
  <1>3. CASE Answer(c)
    BY <1>3 DEF Answer, StartVideoLiving, StartTalk, StopTalk, PlaybackEnd, StopAudioDecode
  <1>4. CASE \/ UpdateReceived(c) \/ UpdateWaits(c) \/ ReceiveFails(c) \/ TimesOut(c)
             \/ SendLivingData(c) \/ ClientLost(c)
    BY <1>4 DEF UpdateReceived, UpdateWaits, ReceiveFails, TimesOut, SendLivingData,
                ClientLost, vars
  <1>5. CASE CloseMedia(c) \/ FreeSlot(c) \/ ResetUser(c)
    BY <1>5 DEF CloseMedia, FreeSlot, ResetUser
  <1>6. CASE ResetTalk(c)
    BY <1>6, TalkOffTypes DEF ResetTalk
  <1>7. CASE CloseTalk(c)
    BY <1>7, TalkOffTypes DEF CloseTalk, StopAudioDecode
  <1> QED BY <1>1, <1>2, <1>3, <1>4, <1>5, <1>6, <1>7 DEF Step, onClose

LEMMA StepTypes == ASSUME TypeOK, IdOfSlot, NEW c \in Conns, Step(c) PROVE TypeOK'
  <1>1. user' \in [Slots -> CNetUser]
    BY StepRewrites, RewriteKeeps
  <1> QED BY <1>1, ShapeTypes, SharedTypes DEF TypeOK

-----------------------------------------------------------------------------
(* The user table.                                                         *)

LEMMA StepSlotInv == ASSUME SlotInv, NEW c \in Conns, Step(c) PROVE SlotInv'
  <1> USE DEF SlotInv
  <1>1. TypeOK' /\ IdOfSlot'
    BY StepTypes, StepRewrites, RewriteKeeps
  <1>2. CASE Accept(c)
    <2>1. PICK s \in Slots : /\ ~used[s] /\ used' = [used EXCEPT ![s] = TRUE]
                             /\ slot' = [slot EXCEPT ![c] = s]
      BY <1>2 DEF Accept, getUnuseWorkSession, FirstFree
    <2>2. pc' = [pc EXCEPT ![c] = "accepting"]
      BY <1>2 DEF Accept, Goto
    <2>3. \A d \in Conns, r \in Slots :
            Holds(d, r)' <=> (IF d = c THEN r = s ELSE Holds(d, r))
      BY <2>1, <2>2 DEF Holds, TypeOK
    <2>4. HeldUsed'
      BY <2>1, <2>3 DEF HeldUsed, TypeOK
    <2>5. OneSessionPerSlot'
      BY <2>1, <2>3 DEF HeldUsed, OneSessionPerSlot
    <2> QED BY <1>1, <2>4, <2>5
  <1>3. CASE FreeSlot(c)
    <2>1. Holds(c, slot[c]) /\ slot[c] \in Slots
      BY <1>3 DEF FreeSlot, Holds, Closing, TypeOK
    <2>2. \A d \in Conns, s \in Slots : Holds(d, s)' <=> d # c /\ Holds(d, s)
      BY <1>3 DEF FreeSlot, Goto, threadVars, Holds, Serving, Closing, TypeOK
    <2>3. \A s \in Slots : used[s] /\ s # slot[c] => used'[s]
      BY <1>3, <2>1, UserOfType, InvalidNoSlot DEF FreeSlot, IdOfSlot
    <2>4. HeldUsed'
      BY <2>1, <2>2, <2>3 DEF HeldUsed, OneSessionPerSlot
    <2>5. OneSessionPerSlot'
      BY <2>2 DEF OneSessionPerSlot
    <2> QED BY <1>1, <2>4, <2>5
  <1>4. CASE Keeps(c)
    <2>1. \A d \in Conns, s \in Slots : Holds(d, s)' <=> Holds(d, s)
      BY <1>4 DEF Keeps, Active, Holds, TypeOK
    <2> QED BY <1>1, <1>4, <2>1 DEF Keeps, HeldUsed, OneSessionPerSlot
  <1>5. CASE Leaves(c)
    <2>1. \A d \in Conns, s \in Slots : Holds(d, s)' <=> Holds(d, s)
      BY <1>5 DEF Leaves, Holds, Serving, Closing, Tail, TypeOK
    <2> QED BY <1>1, <1>5, <2>1 DEF Leaves, HeldUsed, OneSessionPerSlot
  <1>6. CASE UNCHANGED vars
    BY <1>1, <1>6 DEF vars, threadVars, HeldUsed, OneSessionPerSlot, Holds
  <1> QED BY <1>2, <1>3, <1>4, <1>5, <1>6, Shapes

LEMMA NextSteps == Next => \E c \in Conns : Step(c)
  BY DEF Next, Step

LEMMA NextSlotInv == SlotInv /\ [Next]_vars => SlotInv'
  <1>1. SlotInv /\ Next => SlotInv'
    BY NextSteps, StepSlotInv
  <1>2. SlotInv /\ UNCHANGED vars => SlotInv'
    BY DEF vars, sharedVars, threadVars, historyVars, startVars, SlotInv, TypeOK, IdOfSlot, HeldUsed,
           OneSessionPerSlot, Holds
  <1> QED BY <1>1, <1>2

LEMMA SlotInvariant == Spec => []SlotInv
  BY InitSlotInv, NextSlotInv, PTL DEF Spec

\* Types of all tables and objects: no id or index outside its table is ever
\* granted or stored (getUnuseMediaSession, getUnuseWorkSession).
THEOREM TypeCorrect == Spec => []TypeOK
  <1>1. SlotInv => TypeOK
    BY DEF SlotInv
  <1> QED BY <1>1, SlotInvariant, PTL

\* A user object never serves two connections (getUnuseWorkSession, onAccept,
\* onClose), whatever number of clients, and also when an earlier session's
\* thread is still resetting the object.
THEOREM OneSession == Spec => []OneSessionPerSlot
  <1>1. SlotInv => OneSessionPerSlot
    BY DEF SlotInv
  <1> QED BY <1>1, SlotInvariant, PTL

-----------------------------------------------------------------------------
(* The cursors.                                                            *)

Uses(c) == pc[c] \in Serving \cup {"closeMedia"} /\ HasStream(c)

CursorInv ==
  \A c \in Conns : Uses(c) /\ Cursor(c) \notin mixed =>
    /\ UserOf(c).m_mediaSid \in media[UserOf(c).m_ChannelType]
    /\ \A d \in Conns : Uses(d) /\ Cursor(d) = Cursor(c) => d = c

\* A step of c leaves d's cursor alone, or wipes it.
Spares(d) == Uses(d)' => Uses(d) /\ Cursor(d)' = Cursor(d)

\* It does not wipe it.
Kept(d) == Uses(d) => Uses(d)' /\ Cursor(d)' = Cursor(d)

\* The four ways a step can treat the cursors.
KeepsCursor(c) == UNCHANGED <<media, startVars>> /\ Spares(c) /\ Kept(c)

Grants(c, t, i) ==
  /\ pc'[c] = "answer" /\ Cursor(c)' = <<t, i>>
  /\ i \notin media[t] /\ media' = [media EXCEPT ![t] = @ \cup {i}]
  /\ Forgets(c) /\ UNCHANGED mixed

Remixes(c) ==
  /\ UNCHANGED media /\ Forgets(c) /\ HasStream(c)
  /\ mixed' = mixed \cup {Cursor(c)'}

Frees(c) ==
  /\ pc[c] = "closeMedia" /\ pc' = [pc EXCEPT ![c] = "freeSlot"]
  /\ media' = [media EXCEPT ![UserOf(c).m_ChannelType] = @ \ {UserOf(c).m_mediaSid}]
  /\ astray' = astray \ {Cursor(c)} /\ UNCHANGED mixed

\* The step is made on an object of c's own, or of its former slot.
LEMMA OthersSpared ==
  ASSUME SlotInv, NEW c \in Conns, NEW d \in Conns \ {c}, Step(c)
  PROVE  Spares(d)
  <1> USE DEF SlotInv, TypeOK, Spares, Uses, HasStream, Cursor, UserOf, Serving
  <1>1. CASE Accept(c)
    <2>1. user' = user /\ pc'[d] = pc[d] /\ slot'[d] = slot[d]
      BY <1>1 DEF Accept, Goto, getUnuseWorkSession
    <2> QED BY <2>1
  <1>2. CASE FreeSlot(c)
    BY <1>2 DEF FreeSlot, Goto, threadVars
  <1>3. CASE Keeps(c)
    <2>1. pc'[d] = pc[d] /\ slot'[d] = slot[d]
      BY <1>3 DEF Keeps
    <2>2. CASE Uses(d)'
      <3>1. pc[d] \in Serving \cup {"closeMedia"} /\ slot[d] \in Slots
        BY <2>1, <2>2
      <3>2. slot[c] \in Slots /\ Holds(c, slot[c]) /\ Holds(d, slot[d])
        BY <1>3, <3>1 DEF Keeps, Active, Holds, Closing
      <3>3. slot[d] # slot[c]
        BY <3>1, <3>2 DEF OneSessionPerSlot
      <3>4. user'[slot[d]] = user[slot[d]]
        BY <3>1, <3>3, StepRewrites DEF Rewrites
      <3> QED BY <2>1, <2>2, <3>4
    <2> QED BY <2>2
  <1>4. CASE CloseTalk(c) \/ ResetTalk(c)
    <2>1. /\ pc'[d] = pc[d] /\ slot'[d] = slot[d]
          /\ \/ UNCHANGED user
             \/ \E b \in BOOLEAN : user' = [user EXCEPT ![slot[c]] =
                  [user[slot[c]] EXCEPT !.m_protoP2P = b, !.m_bStartTalk = FALSE]]
      <3>1. pc'[d] = pc[d] /\ slot'[d] = slot[d]
        BY <1>4 DEF CloseTalk, ResetTalk, Goto, threadVars
      <3>2. user[slot[c]] \in CNetUser
        BY <1>4 DEF CloseTalk, ResetTalk
      <3>3. [user[slot[c]] EXCEPT !.m_bStartTalk = FALSE] =
              [user[slot[c]] EXCEPT !.m_protoP2P = user[slot[c]].m_protoP2P, !.m_bStartTalk = FALSE]
        BY <3>2 DEF CNetUser
      <3>4. user[slot[c]].m_protoP2P \in BOOLEAN
        BY <3>2 DEF CNetUser
      <3> QED BY <1>4, <3>1, <3>3, <3>4 DEF CloseTalk, ResetTalk, SetUser
    <2>2. \A s \in Slots : /\ user'[s].m_mediaSid = user[s].m_mediaSid
                           /\ user'[s].m_ChannelType = user[s].m_ChannelType
      <3>1. CASE UNCHANGED user
        BY <3>1
      <3>2. ASSUME NEW b \in BOOLEAN,
                   user' = [user EXCEPT ![slot[c]] =
                     [user[slot[c]] EXCEPT !.m_protoP2P = b, !.m_bStartTalk = FALSE]]
            PROVE  \A s \in Slots : /\ user'[s].m_mediaSid = user[s].m_mediaSid
                                    /\ user'[s].m_ChannelType = user[s].m_ChannelType
        BY <3>2 DEF CNetUser
      <3> QED BY <2>1, <3>1, <3>2
    <2> QED BY <2>1, <2>2
  <1>5. CASE ResetUser(c)
    <2>1. /\ pc'[d] = pc[d] /\ slot'[d] = slot[d]
          /\ user' = [user EXCEPT ![slot[c]] =
                        [Cleared(user[slot[c]]) EXCEPT !.m_bStartTalk = user[slot[c]].m_bStartTalk]]
      BY <1>5 DEF ResetUser, Goto, SetUser
    <2>2. \A s \in Slots : user'[s] = user[s] \/ user'[s].m_mediaSid = Invalid
      BY <2>1 DEF Cleared, CNetUser
    <2> QED BY <2>1, <2>2
  <1>6. CASE UNCHANGED vars
    BY <1>6 DEF vars, threadVars
  <1>7. Leaves(c) => CloseTalk(c) \/ ResetTalk(c) \/ ResetUser(c) \/ UNCHANGED vars
    BY DEF Leaves, Tail, Step, Listen, Request, Answer, onClose, Accept, Refuse, Accepted,
       onRequestVideoLiving, onStopVideoLiving, onTalkOn, onTalOff, onPlaybackPlay,
       onRequestUpdate, onP2P, StartVideoLiving, StartTalk, StopTalk, PlaybackEnd, UpdateReceived,
       UpdateWaits, ClientLost, ReceiveFails, TimesOut, SendLivingData, CloseMedia, FreeSlot,
       Asks, InLoop
  <1> QED BY <1>1, <1>2, <1>3, <1>4, <1>5, <1>6, <1>7, Shapes

\* A session that serves goes on serving or begins to close.
LEMMA ServingGoes ==
  ASSUME TypeOK, NEW c \in Conns, pc[c] \in Serving, Step(c)
  PROVE  pc'[c] \in Serving \cup {"closeMedia"}
  <1> USE DEF TypeOK, Serving, Goto
  <1>1. CASE Request(c)
    BY <1>1 DEF Request, onRequestVideoLiving, getUnuseMediaSession, RefuseVideoLiving,
         onStopVideoLiving, onTalkOn, onTalOff, onPlaybackPlay, onRequestUpdate, onP2P
  <1>2. CASE Answer(c)
    BY <1>2 DEF Answer, StartVideoLiving, StartTalk, StopTalk, PlaybackEnd
  <1>3. CASE UpdateReceived(c) \/ UpdateWaits(c) \/ ReceiveFails(c) \/ TimesOut(c)
             \/ SendLivingData(c) \/ ClientLost(c)
    BY <1>3 DEF UpdateReceived, UpdateWaits, ReceiveFails, TimesOut, SendLivingData,
         ClientLost, vars
  <1>4. ~Listen(c) /\ ~onClose(c)
    BY DEF Listen, Accept, Refuse, Accepted, onClose, CloseMedia, FreeSlot, CloseTalk,
       ResetTalk, ResetUser
  <1> QED BY <1>1, <1>2, <1>3, <1>4 DEF Step

\* An object that is rewritten with the same cursor, or with none.
LEMMA SameCursor ==
  ASSUME SlotInv, NEW c \in Conns, Step(c), pc[c] \in Serving, NEW u \in CNetUser,
         UNCHANGED user \/ SetUser(c, u),
         u.m_mediaSid = UserOf(c).m_mediaSid,
         u.m_mediaSid # Invalid => u.m_ChannelType = UserOf(c).m_ChannelType,
         UNCHANGED slot
  PROVE  Spares(c) /\ Kept(c)
  <1>1. slot[c] \in Slots /\ user \in [Slots -> CNetUser]
    BY DEF SlotInv, TypeOK, Serving
  <1>2. pc'[c] \in Serving \cup {"closeMedia"}
    BY ServingGoes DEF SlotInv
  <1> QED BY <1>1, <1>2 DEF SetUser, Spares, Kept, Uses, HasStream, Cursor, UserOf

LEMMA OwnCursor ==
  ASSUME SlotInv, NEW c \in Conns, Step(c)
  PROVE  \/ KeepsCursor(c) \/ Remixes(c) \/ Frees(c)
         \/ \E t \in StreamTypes, i \in LiveIds : Grants(c, t, i)
  <1> USE DEF historyVars, startVars
  <1>0. pc[c] # "none" => slot[c] \in Slots /\ UserOf(c) \in CNetUser /\ UserOf(c) = user[slot[c]]
    BY UserOfType DEF SlotInv
  <1>1. CASE /\ pc[c] \notin Serving \cup {"closeMedia"} /\ UNCHANGED <<media, startVars>>
             /\ pc'[c] \notin Serving \cup {"closeMedia"}
    BY <1>1 DEF KeepsCursor, Spares, Kept, Uses
  <1>2. CASE Listen(c)
    <2>1. CASE Accepted(c)
      <3>1. Cleared(UserOf(c)) \in CNetUser /\ Cleared(UserOf(c)).m_mediaSid = Invalid
        BY <2>1, <1>0, ClearedUser DEF Accepted
      <3>2. UserOf(c)'.m_mediaSid = Invalid
        BY <2>1, <3>1, <1>0 DEF Accepted, SetUser, UserOf, threadVars, SlotInv, TypeOK, CNetUser
      <3> QED BY <2>1, <3>2 DEF Accepted, KeepsCursor, Spares, Kept, Uses, HasStream, Serving
    <2>2. CASE Accept(c)
      BY <2>2, <1>1 DEF Accept, Goto, sharedVars, Serving, SlotInv, TypeOK
    <2>3. CASE Refuse(c)
      BY <2>3 DEF Refuse, vars, sharedVars, threadVars, KeepsCursor, Spares, Kept, Uses,
         HasStream, Cursor, UserOf
    <2> QED BY <1>2, <2>1, <2>2, <2>3 DEF Listen
  <1>3. CASE Request(c)
    <2>1. pc[c] \in Serving /\ pc[c] # "none"
      BY <1>3 DEF Request, onRequestVideoLiving, onStopVideoLiving, onTalkOn, onTalOff,
           onPlaybackPlay, onRequestUpdate, onP2P, Asks, InLoop, Serving
    <2>2. ASSUME NEW t \in StreamTypes, onRequestVideoLiving(c, t)
          PROVE  KeepsCursor(c) \/ Remixes(c) \/ \E i \in LiveIds : Grants(c, t, i)
      <3>1. CASE RefuseVideoLiving(c, t) /\ Mixes(c, t)
        <4> DEFINE u == [UserOf(c) EXCEPT !.m_ChannelType = t]
        <4>1. u \in CNetUser /\ u.m_mediaSid = UserOf(c).m_mediaSid /\ u.m_ChannelType = t
          BY <2>1, <1>0 DEF CNetUser
        <4>2. SetUser(c, u) /\ UNCHANGED <<media, slot>>
          BY <2>2, <3>1 DEF RefuseVideoLiving, onRequestVideoLiving, threadVars
        <4>3. CASE HasStream(c) /\ t # UserOf(c).m_ChannelType
          <5>1. UserOf(c)' = u
            BY <1>0, <2>1, <4>2 DEF SetUser, UserOf, SlotInv, TypeOK
          <5>2. Cursor(c)' = <<t, UserOf(c).m_mediaSid>>
            BY <4>1, <5>1 DEF Cursor
          <5> QED BY <3>1, <4>2, <4>3, <5>2 DEF Mixes, Remixes
        <4>4. CASE ~(HasStream(c) /\ t # UserOf(c).m_ChannelType)
          <5>1. u.m_mediaSid # Invalid => u.m_ChannelType = UserOf(c).m_ChannelType
            BY <4>1, <4>4 DEF HasStream
          <5>2. Spares(c) /\ Kept(c)
            BY <2>1, <4>1, <4>2, <5>1, SameCursor
          <5> QED BY <3>1, <4>2, <4>4, <5>2 DEF Mixes, KeepsCursor
        <4> QED BY <4>3, <4>4
      <3>2. CASE getUnuseMediaSession(c, t) /\ Forgets(c) /\ UNCHANGED mixed
        <4>1. PICK i \in LiveIds :
                /\ i \notin media[t] /\ media' = [media EXCEPT ![t] = @ \cup {i}]
                /\ SetUser(c, [UserOf(c) EXCEPT !.m_ChannelType = t, !.m_mediaSid = i])
          BY <3>2 DEF getUnuseMediaSession, FirstFree
        <4>2. UserOf(c)' = [UserOf(c) EXCEPT !.m_ChannelType = t, !.m_mediaSid = i]
          BY <2>1, <2>2, <4>1, <1>0
          DEF SetUser, UserOf, onRequestVideoLiving, threadVars, SlotInv, TypeOK
        <4>3. Cursor(c)' = <<t, i>>
          BY <2>1, <4>2, <1>0 DEF Cursor, CNetUser
        <4>4. pc'[c] = "answer"
          BY <3>2 DEF getUnuseMediaSession, Goto, SlotInv, TypeOK
        <4> QED BY <3>2, <4>1, <4>3, <4>4 DEF Grants
      <3> QED BY <2>2, <3>1, <3>2 DEF onRequestVideoLiving
    <2>3. CASE onStopVideoLiving(c) \/ onP2P(c)
      <3> DEFINE u == [UserOf(c) EXCEPT !.m_bStartSendMedia = FALSE]
                 v == [UserOf(c) EXCEPT !.m_protoP2P = TRUE]
      <3>1. /\ u \in CNetUser /\ u.m_mediaSid = UserOf(c).m_mediaSid
            /\ u.m_ChannelType = UserOf(c).m_ChannelType
            /\ v \in CNetUser /\ v.m_mediaSid = UserOf(c).m_mediaSid
            /\ v.m_ChannelType = UserOf(c).m_ChannelType
        BY <2>1, <1>0 DEF CNetUser
      <3>2. SetUser(c, u) \/ SetUser(c, v)
        BY <2>3 DEF onStopVideoLiving, onP2P
      <3>3. UNCHANGED <<media, startVars, slot>>
        BY <2>3 DEF onStopVideoLiving, onP2P, sharedVars, threadVars
      <3>4. Spares(c) /\ Kept(c)
        BY <2>1, <3>1, <3>2, <3>3, SameCursor
      <3> QED BY <3>3, <3>4 DEF KeepsCursor
    <2>4. CASE onTalkOn(c) \/ onTalOff(c) \/ onPlaybackPlay(c) \/ onRequestUpdate(c)
      <3>1. UNCHANGED <<media, startVars, user, slot>>
        BY <2>4 DEF onTalkOn, onTalOff, onPlaybackPlay, onRequestUpdate, threadVars
      <3>2. Spares(c) /\ Kept(c)
        BY <2>1, <3>1, <1>0, SameCursor
      <3> QED BY <3>1, <3>2 DEF KeepsCursor
    <2> QED BY <1>3, <2>2, <2>3, <2>4 DEF Request
  <1>4. CASE Answer(c)
    <2>1. pc[c] \in Serving /\ pc[c] # "none" /\ UNCHANGED <<media, startVars, slot>>
      BY <1>4 DEF Answer, StartVideoLiving, StartTalk, StopTalk, PlaybackEnd, Serving,
           sharedVars, threadVars
    <2> DEFINE Media(b) == [UserOf(c) EXCEPT !.m_bStartSendMedia = b]
               Talk(b) == [UserOf(c) EXCEPT !.m_bStartTalk = b]
    <2>2. \A b \in BOOLEAN :
            /\ Media(b) \in CNetUser /\ Media(b).m_mediaSid = UserOf(c).m_mediaSid
            /\ Media(b).m_ChannelType = UserOf(c).m_ChannelType
            /\ Talk(b) \in CNetUser /\ Talk(b).m_mediaSid = UserOf(c).m_mediaSid
            /\ Talk(b).m_ChannelType = UserOf(c).m_ChannelType
      BY <2>1, <1>0 DEF CNetUser
    <2>3. UNCHANGED user \/ \E b \in BOOLEAN : SetUser(c, Media(b)) \/ SetUser(c, Talk(b))
      BY <1>4 DEF Answer, StartVideoLiving, StartTalk, StopTalk, PlaybackEnd
    <2>4. Spares(c) /\ Kept(c)
      BY <2>1, <2>2, <2>3, <1>0, SameCursor
    <2> QED BY <2>1, <2>4 DEF KeepsCursor
  <1>5. CASE \/ UpdateReceived(c) \/ ReceiveFails(c) \/ TimesOut(c) \/ SendLivingData(c)
             \/ ClientLost(c) \/ UpdateWaits(c)
    <2>1. pc[c] \in Serving /\ pc[c] # "none" /\ UNCHANGED <<media, startVars, user, slot>>
      BY <1>5 DEF UpdateReceived, ReceiveFails, TimesOut, SendLivingData, ClientLost,
           UpdateWaits, InLoop, Serving, sharedVars, threadVars, vars
    <2>2. Spares(c) /\ Kept(c)
      BY <2>1, <1>0, SameCursor
    <2> QED BY <2>1, <2>2 DEF KeepsCursor
  <1>6. CASE CloseMedia(c)
    BY <1>6 DEF CloseMedia, Goto, Frees
  <1>7. CASE FreeSlot(c) \/ CloseTalk(c) \/ ResetTalk(c) \/ ResetUser(c)
    BY <1>7, <1>1 DEF FreeSlot, CloseTalk, ResetTalk, ResetUser, Goto, sharedVars, Serving,
         SlotInv, TypeOK
  <1> QED BY <1>2, <1>3, <1>4, <1>5, <1>6, <1>7 DEF Step, onClose

LEMMA StepCursorInv ==
  ASSUME SlotInv, CursorInv, NEW c \in Conns, Step(c) PROVE CursorInv'
  <1>1. \A d \in Conns \ {c} : Uses(d)' => Uses(d) /\ Cursor(d)' = Cursor(d)
    BY OthersSpared DEF Spares
  <1>2. \A d \in Conns : Uses(d) =>
           UserOf(d).m_ChannelType \in StreamTypes /\ UserOf(d).m_mediaSid # Invalid
    BY DEF Uses, HasStream, SlotInv, TypeOK, UserOf, CNetUser, Serving
  <1>3. media \in [StreamTypes -> SUBSET LiveIds]
    BY DEF SlotInv, TypeOK
  <1>4. \A d \in Conns : /\ Cursor(d) = <<UserOf(d).m_ChannelType, UserOf(d).m_mediaSid>>
                         /\ Cursor(d)' = <<UserOf(d)'.m_ChannelType, UserOf(d)'.m_mediaSid>>
    BY DEF Cursor
  <1>5. CASE KeepsCursor(c)
    <2>1. \A d \in Conns : Uses(d)' => Uses(d) /\ Cursor(d)' = Cursor(d)
      BY <1>1, <1>5 DEF KeepsCursor, Spares
    <2>2. media' = media /\ mixed' = mixed
      BY <1>5 DEF KeepsCursor, startVars
    <2> QED BY <1>4, <2>1, <2>2 DEF CursorInv
  <1>6. ASSUME NEW t \in StreamTypes, NEW i \in LiveIds, Grants(c, t, i) PROVE CursorInv'
    <2>1. \A d \in Conns \ {c} : Uses(d)' /\ Cursor(d)' \notin mixed' => Cursor(d)' # <<t, i>>
      BY <1>1, <1>4, <1>6 DEF CursorInv, Grants
    <2>2. media' = [media EXCEPT ![t] = @ \cup {i}] /\ mixed' = mixed /\ Cursor(c)' = <<t, i>>
      BY <1>6 DEF Grants
    <2>3. \A d \in Conns : Uses(d)' /\ Cursor(d)' \notin mixed' =>
            UserOf(d)'.m_mediaSid \in media'[UserOf(d)'.m_ChannelType]
      <3>1. UserOf(c)'.m_mediaSid \in media'[UserOf(c)'.m_ChannelType]
        BY <1>3, <1>4, <2>2
      <3>2. ASSUME NEW d \in Conns \ {c}, Uses(d)', Cursor(d)' \notin mixed'
            PROVE  UserOf(d)'.m_mediaSid \in media'[UserOf(d)'.m_ChannelType]
        <4>1. /\ UserOf(d).m_mediaSid \in media[UserOf(d).m_ChannelType]
              /\ UserOf(d).m_ChannelType \in StreamTypes
              /\ UserOf(d)'.m_ChannelType = UserOf(d).m_ChannelType
              /\ UserOf(d)'.m_mediaSid = UserOf(d).m_mediaSid
          BY <1>1, <1>2, <1>4, <2>2, <3>2 DEF CursorInv
        <4> QED BY <1>3, <2>2, <4>1
      <3> QED BY <3>1, <3>2
    <2>4. \A d, e \in Conns : Uses(d)' /\ Cursor(d)' \notin mixed' /\ Uses(e)'
                              /\ Cursor(e)' = Cursor(d)' => e = d
      BY <1>1, <2>1, <2>2 DEF CursorInv
    <2> QED BY <2>3, <2>4 DEF CursorInv
  <1>7. CASE Remixes(c)
    <2>1. media' = media /\ mixed' = mixed \cup {Cursor(c)'}
      BY <1>7 DEF Remixes
    <2>2. \A d \in Conns : Uses(d)' /\ Cursor(d)' \notin mixed' =>
            /\ Uses(d) /\ Cursor(d)' = Cursor(d) /\ Cursor(d) \notin mixed
            /\ \A e \in Conns : Uses(e)' /\ Cursor(e)' = Cursor(d)' =>
                 Uses(e) /\ Cursor(e) = Cursor(d)
      BY <1>1, <2>1
    <2> QED BY <1>4, <2>1, <2>2 DEF CursorInv
  <1>8. CASE Frees(c)
    <2>1. ~Uses(c)'
      BY <1>8 DEF Frees, Uses, Serving, SlotInv, TypeOK
    <2>2. \A d \in Conns : Uses(d)' => d # c /\ Uses(d) /\ Cursor(d)' = Cursor(d)
      BY <1>1, <2>1
    <2>3. \A d \in Conns : Uses(d)' /\ Cursor(d)' \notin mixed' =>
            UserOf(d)'.m_mediaSid \in media'[UserOf(d)'.m_ChannelType]
      <3> SUFFICES ASSUME NEW d \in Conns, Uses(d)', Cursor(d)' \notin mixed'
                   PROVE  UserOf(d)'.m_mediaSid \in media'[UserOf(d)'.m_ChannelType]
        OBVIOUS
      <3>1. d # c /\ Uses(d) /\ Cursor(d)' = Cursor(d) /\ Cursor(d) \notin mixed
        BY <1>8, <2>2 DEF Frees
      <3>2. UserOf(c).m_mediaSid # Invalid => Cursor(d) # Cursor(c)
        BY <1>8, <3>1 DEF CursorInv, Uses, HasStream, Frees
      <3>3. /\ UserOf(d).m_mediaSid # Invalid /\ UserOf(d).m_ChannelType \in StreamTypes
            /\ UserOf(d).m_mediaSid \in media[UserOf(d).m_ChannelType]
        BY <1>2, <3>1 DEF CursorInv
      <3>4. media' = [media EXCEPT ![UserOf(c).m_ChannelType] = @ \ {UserOf(c).m_mediaSid}]
        BY <1>8 DEF Frees
      <3>5. UserOf(d).m_mediaSid \in media'[UserOf(d).m_ChannelType]
        BY <1>3, <1>4, <3>2, <3>3, <3>4
      <3> QED BY <1>4, <3>1, <3>5
    <2>4. \A d, e \in Conns : Uses(d)' /\ Cursor(d)' \notin mixed' /\ Uses(e)'
                              /\ Cursor(e)' = Cursor(d)' => e = d
      BY <1>8, <2>2 DEF CursorInv, Frees
    <2> QED BY <2>3, <2>4 DEF CursorInv
  <1> QED BY <1>5, <1>6, <1>7, <1>8, OwnCursor

LEMMA CursorInvariant == Spec => [](SlotInv /\ CursorInv)
  <1>1. Init => SlotInv /\ CursorInv
    <2>1. Init => CursorInv
      BY DEF Init, CursorInv, Uses, Serving
    <2> QED BY <2>1, InitSlotInv
  <1>2. SlotInv /\ CursorInv /\ [Next]_vars => (SlotInv /\ CursorInv)'
    <2>1. SlotInv /\ CursorInv /\ Next => CursorInv'
      BY NextSteps, StepCursorInv
    <2>2. CursorInv /\ UNCHANGED vars => CursorInv'
      BY DEF vars, sharedVars, threadVars, historyVars, startVars, CursorInv, Uses,
         HasStream, Cursor, UserOf
    <2> QED BY <2>1, <2>2, NextSlotInv
  <1> QED BY <1>1, <1>2, PTL DEF Spec

\* A session that streams reads with a cursor that is reserved and its own
\* (getUnuseMediaSession, freeMediaSession), also when clients ask for a second
\* stream on a connection, which nothing refuses: all but the cursors that a
\* refused second start has mixed (RequestStartVideoLiving).
THEOREM OneReaderPerCursor == Spec => []CursorReserved
  <1>1. SlotInv /\ CursorInv => CursorReserved
    <2>1. \A c \in Conns : Streams(c) => Uses(c)
      BY DEF Streams, Uses
    <2> QED BY <2>1 DEF CursorInv, CursorReserved
  <1> QED BY <1>1, CursorInvariant, PTL

-----------------------------------------------------------------------------
(* Nothing leaks, as long as no object is handed on before its reset.      *)

\* A user object has one thread at most, and its id is its index.
Alone ==
  overtaken = {} =>
    /\ \A c, d \in Conns : pc[c] # "none" /\ pc[d] # "none" /\ slot[c] = slot[d] => c = d
    /\ \A c \in Conns : pc[c] \in Serving \cup Closing \cup Tail =>
         UserOf(c).m_nUserID = slot[c]

LEMMA OvertakenGrows ==
  ASSUME TypeOK, NEW c \in Conns, Step(c), overtaken' = {} PROVE overtaken = {}
  <1>1. CASE Accept(c)
    BY <1>1 DEF Accept, getUnuseWorkSession
  <1>2. CASE ~Accept(c)
    BY <1>2 DEF Step, Listen, Refuse, Accepted, Request, onRequestVideoLiving,
       onStopVideoLiving, onTalkOn, onTalOff, onPlaybackPlay, onRequestUpdate, onP2P, Answer,
       StartVideoLiving, StartTalk, StopTalk, PlaybackEnd, UpdateReceived, UpdateWaits,
       ClientLost, ReceiveFails, TimesOut, SendLivingData, onClose, CloseMedia, FreeSlot,
       CloseTalk, ResetTalk, ResetUser, vars, historyVars
  <1> QED BY <1>1, <1>2

\* What a step of c leaves of another session.
Untouched(d) == pc'[d] = pc[d] /\ slot'[d] = slot[d] /\ UserOf(d)' = UserOf(d)

LEMMA OthersUntouched ==
  ASSUME SlotInv, Alone, overtaken = {}, NEW c \in Conns, NEW d \in Conns \ {c},
         Step(c), pc[d] # "none"
  PROVE  Untouched(d)
  <1> USE DEF SlotInv, TypeOK, Untouched
  <1>1. pc'[d] = pc[d] /\ slot'[d] = slot[d]
    BY Shapes DEF Accept, Goto, getUnuseWorkSession, FreeSlot, threadVars, Keeps, Leaves, vars
  <1>2. CASE pc[c] = "none"
    <2>1. user' = user
      BY <1>2, Shapes DEF Accept, FreeSlot, Keeps, Leaves, Active, Serving, Closing, Tail, vars
    <2> QED BY <1>1, <2>1 DEF UserOf
  <1>3. CASE pc[c] # "none"
    <2>1. slot[c] # slot[d] /\ slot[d] \in Slots
      BY <1>3 DEF Alone
    <2>2. user'[slot[d]] = user[slot[d]]
      BY <2>1, StepRewrites DEF Rewrites
    <2> QED BY <1>1, <2>2 DEF UserOf
  <1> QED BY <1>2, <1>3

LEMMA StepAlone ==
  ASSUME SlotInv, Alone, NEW c \in Conns, Step(c)
  PROVE  Alone'
  <1> SUFFICES ASSUME overtaken' = {}
               PROVE  Alone'
    BY DEF Alone
  <1> USE DEF SlotInv, TypeOK
  <1>1. overtaken = {}
    BY OvertakenGrows
  <1>2. \A d \in Conns \ {c} : pc[d] # "none" => Untouched(d)
    BY <1>1, OthersUntouched
  <1>3. \A d \in Conns \ {c} : pc'[d] = pc[d]
    BY Shapes DEF Accept, Goto, FreeSlot, threadVars, Keeps, Leaves, vars
  <1>4. CASE Accept(c)
    <2>1. PICK s \in Slots : /\ ~used[s] /\ slot' = [slot EXCEPT ![c] = s]
                             /\ ~\E d \in Conns : pc[d] \in Tail /\ slot[d] = s
      BY <1>1, <1>4 DEF Accept, getUnuseWorkSession, FirstFree
    <2>2. pc' = [pc EXCEPT ![c] = "accepting"]
      BY <1>4 DEF Accept, Goto
    <2>3. \A d \in Conns \ {c} : pc[d] # "none" => slot[d] # s
      BY <2>1 DEF HeldUsed, Holds, PCs, Tail
    <2> QED BY <1>1, <1>2, <1>3, <2>1, <2>2, <2>3
            DEF Alone, Untouched, Serving, Closing, Tail
  <1>5. CASE ~Accept(c)
    <2>1. pc'[c] # "none" => pc[c] # "none" /\ slot'[c] = slot[c]
      BY <1>5, Shapes DEF FreeSlot, threadVars, Keeps, Leaves, Active, Serving, Closing,
         Tail, vars
    <2>2. \A d, e \in Conns : pc'[d] # "none" /\ pc'[e] # "none" /\ slot'[d] = slot'[e]
                              => d = e
      BY <1>1, <1>2, <1>3, <2>1 DEF Alone, Untouched
    <2>3. pc'[c] \in Serving \cup Closing \cup Tail => UserOf(c)'.m_nUserID = slot'[c]
      <3> SUFFICES ASSUME pc'[c] \in Serving \cup Closing \cup Tail
                   PROVE  UserOf(c)'.m_nUserID = slot'[c]
        OBVIOUS
      <3>1. pc[c] # "none" /\ slot'[c] = slot[c] /\ slot[c] \in Slots
        BY <2>1 DEF Serving, Closing, Tail
      <3>2. ~ResetUser(c)
        BY <3>1 DEF ResetUser, Goto, Serving, Closing, Tail
      <3>3. CASE Accepted(c)
        <4>1. Cleared(UserOf(c)) \in CNetUser
          BY <3>1, UserOfType, ClearedUser
        <4>2. user'[slot[c]].m_nUserID = slot[c]
          BY <3>1, <3>3, <4>1 DEF Accepted, SetUser, CNetUser
        <4> QED BY <3>1, <4>2 DEF UserOf
      <3>4. CASE ~Accepted(c)
        <4>1. pc[c] \in Serving \cup Closing \cup Tail
          <5>1. ~Listen(c)
            BY <1>5, <3>1, <3>4 DEF Listen, Refuse
          <5>2. ~Listen(c) => pc[c] # "accepting"
            BY DEF Step, Request, onRequestVideoLiving, onStopVideoLiving, onTalkOn, onTalOff,
               onPlaybackPlay, onRequestUpdate, onP2P, Asks, InLoop, Answer, StartVideoLiving,
               StartTalk, StopTalk, PlaybackEnd, UpdateReceived, UpdateWaits, ClientLost,
               ReceiveFails, TimesOut, SendLivingData, onClose, CloseMedia, FreeSlot,
               CloseTalk, ResetTalk, ResetUser, Serving
          <5> QED BY <3>1, <5>1, <5>2 DEF PCs
        <4>2. UserOf(c).m_nUserID = slot[c]
          BY <1>1, <4>1 DEF Alone
        <4>3. UserOf(c)'.m_nUserID = UserOf(c).m_nUserID
          BY <3>1, <3>2, <3>4, StepRewrites DEF Rewrites, IdAfter, UserOf
        <4> QED BY <3>1, <4>2, <4>3
      <3> QED BY <3>3, <3>4
    <2>4. \A d \in Conns : pc'[d] \in Serving \cup Closing \cup Tail =>
            UserOf(d)'.m_nUserID = slot'[d]
      BY <1>1, <1>2, <1>3, <2>3 DEF Alone, Untouched, Serving, Closing, Tail
    <2> QED BY <2>2, <2>4 DEF Alone
  <1> QED BY <1>4, <1>5

\* A used object is held; a live id that is taken is some session's cursor, or
\* was lost to a second start; a playback id is some session's that plays.
UsedHeld == overtaken = {} => \A s \in Slots : used[s] => \E c \in Conns : Holds(c, s)

MediaHeld ==
  overtaken = {} =>
    \A t \in StreamTypes, i \in LiveIds :
      i \in media[t] => \/ \E c \in Conns : Uses(c) /\ Cursor(c) = <<t, i>>
                        \/ <<t, i>> \in astray

RecHeld == \A i \in recMedia : \E c \in Conns : pc[c] = "play" /\ rec[c] = i

LEMMA StepUsedHeld ==
  ASSUME SlotInv, Alone, UsedHeld, NEW c \in Conns, Step(c)
  PROVE  UsedHeld'
  <1> SUFFICES ASSUME overtaken' = {}, NEW s \in Slots, used'[s]
               PROVE  \E d \in Conns : Holds(d, s)'
    BY DEF UsedHeld
  <1> USE DEF SlotInv, TypeOK
  <1>1. overtaken = {}
    BY OvertakenGrows
  <1>2. \A d \in Conns \ {c} : pc[d] # "none" => Untouched(d)
    BY <1>1, OthersUntouched
  <1>3. CASE used[s]
    <2>1. PICK d \in Conns : Holds(d, s)
      BY <1>1, <1>3 DEF UsedHeld
    <2>2. CASE d # c
      BY <1>2, <2>1, <2>2 DEF Untouched, Holds, Serving, Closing
    <2>3. CASE d = c
      <3>1. ~FreeSlot(c)
        <4> SUFFICES ASSUME FreeSlot(c) PROVE FALSE
          OBVIOUS
        <4>1. UserOf(c).m_nUserID = s
          BY <1>1, <2>1, <2>3 DEF FreeSlot, Alone, Holds, Closing
        <4> QED BY <4>1 DEF FreeSlot
      <3>2. ~Accept(c) /\ ~Leaves(c)
        BY <2>1, <2>3 DEF Accept, Leaves, Holds, Serving, Closing, Tail
      <3>3. Keeps(c) \/ UNCHANGED vars
        BY <3>1, <3>2, Shapes
      <3>4. Holds(c, s)'
        BY <2>1, <2>3, <3>3 DEF Keeps, Holds, vars, threadVars
      <3> QED BY <3>4
    <2> QED BY <2>2, <2>3
  <1>4. CASE ~used[s]
    <2>1. Accept(c)
      BY <1>4, Shapes DEF FreeSlot, Keeps, Leaves, vars
    <2>2. slot' = [slot EXCEPT ![c] = s]
      BY <1>4, <2>1 DEF Accept, getUnuseWorkSession
    <2>3. Holds(c, s)'
      BY <2>1, <2>2 DEF Accept, Goto, Holds
    <2> QED BY <2>3
  <1> QED BY <1>3, <1>4

LEMMA StepMediaHeld ==
  ASSUME SlotInv, Alone, MediaHeld, NEW c \in Conns, Step(c)
  PROVE  MediaHeld'
  <1> SUFFICES ASSUME overtaken' = {}, NEW t \in StreamTypes, NEW i \in LiveIds, i \in media'[t],
                      <<t, i>> \notin astray'
               PROVE  \E d \in Conns : Uses(d)' /\ Cursor(d)' = <<t, i>>
    BY DEF MediaHeld
  <1>1. overtaken = {}
    BY OvertakenGrows DEF SlotInv
  <1>2. \A d \in Conns \ {c} : Uses(d) => Uses(d)' /\ Cursor(d)' = Cursor(d)
    BY <1>1, OthersUntouched DEF Untouched, Uses, HasStream, Cursor, Serving
  <1>3. media \in [StreamTypes -> SUBSET LiveIds]
    BY DEF SlotInv, TypeOK
  <1>4. i \in media[t] /\ <<t, i>> \notin astray =>
          \E d \in Conns : Uses(d) /\ Cursor(d) = <<t, i>>
    BY <1>1 DEF MediaHeld
  <1>5. CASE KeepsCursor(c)
    <2>1. PICK d \in Conns : Uses(d) /\ Cursor(d) = <<t, i>>
      BY <1>4, <1>5 DEF KeepsCursor, startVars
    <2> QED BY <1>2, <1>5, <2>1 DEF KeepsCursor, Kept
  <1>6. ASSUME NEW y \in StreamTypes, NEW j \in LiveIds, Grants(c, y, j)
        PROVE  \E d \in Conns : Uses(d)' /\ Cursor(d)' = <<t, i>>
    <2>1. CASE <<t, i>> # <<y, j>>
      <3>1. i \in media[t] /\ <<t, i>> \notin astray
        BY <1>3, <1>6, <2>1 DEF Grants, Forgets
      <3>2. PICK d \in Conns : Uses(d) /\ Cursor(d) = <<t, i>>
        BY <1>4, <3>1
      <3>3. d # c
        BY <1>6, <3>2 DEF Grants, Forgets, Uses
      <3> QED BY <1>2, <3>2, <3>3
    <2>2. CASE <<t, i>> = <<y, j>>
      <3>1. pc'[c] = "answer" /\ Cursor(c)' = <<t, i>>
        BY <1>6, <2>2 DEF Grants
      <3>2. UserOf(c)'.m_mediaSid = i
        BY <3>1 DEF Cursor
      <3> QED BY <3>1, <3>2, InvalidNoSlot DEF Uses, HasStream, Serving
    <2> QED BY <2>1, <2>2
  <1>7. CASE Remixes(c)
    <2>1. i \in media[t] /\ <<t, i>> \notin astray
      BY <1>7 DEF Remixes, Forgets
    <2>2. PICK d \in Conns : Uses(d) /\ Cursor(d) = <<t, i>>
      BY <1>4, <2>1
    <2>3. d # c
      BY <1>7, <2>2 DEF Remixes, Forgets
    <2> QED BY <1>2, <2>2, <2>3
  <1>8. CASE Frees(c)
    <2>1. i \in media[t] /\ <<t, i>> # Cursor(c)
      BY <1>3, <1>8 DEF Frees, Cursor
    <2>2. <<t, i>> \notin astray
      BY <1>8, <2>1 DEF Frees
    <2>3. PICK d \in Conns : Uses(d) /\ Cursor(d) = <<t, i>>
      BY <1>4, <2>1, <2>2
    <2> QED BY <1>2, <2>1, <2>3
  <1> QED BY <1>5, <1>6, <1>7, <1>8, OwnCursor

LEMMA StepRecHeld ==
  ASSUME TypeOK, RecHeld, NEW c \in Conns, Step(c)
  PROVE  RecHeld'
  <1> USE DEF TypeOK
  <1>1. CASE onPlaybackPlay(c)
    <2>1. PICK i \in RecIds : recMedia' = recMedia \cup {i} /\ rec' = [rec EXCEPT ![c] = i]
      BY <1>1 DEF onPlaybackPlay
    <2>2. pc[c] = "loop" /\ pc' = [pc EXCEPT ![c] = "play"]
      BY <1>1 DEF onPlaybackPlay, Asks, InLoop, Goto
    <2> QED BY <2>1, <2>2 DEF RecHeld
  <1>2. CASE PlaybackEnd(c)
    BY <1>2 DEF PlaybackEnd, Goto, RecHeld
  <1>3. CASE ~onPlaybackPlay(c) /\ ~PlaybackEnd(c)
    <2>1. UNCHANGED <<recMedia, rec>>
      BY <1>3 DEF Step, Listen, Accept, Refuse, Accepted, Request, onRequestVideoLiving,
         onStopVideoLiving, onTalkOn, onTalOff, onRequestUpdate, onP2P, Answer, StartVideoLiving,
         StartTalk, StopTalk, UpdateReceived, UpdateWaits, ClientLost, ReceiveFails,
         TimesOut, SendLivingData, onClose, CloseMedia, FreeSlot, CloseTalk, ResetTalk,
         ResetUser, vars, sharedVars, threadVars
    <2>2. pc[c] = "play" => pc' = pc
      BY <1>3 DEF Step, Listen, Accept, Refuse, Accepted, Request, onRequestVideoLiving,
         onStopVideoLiving, onTalkOn, onTalOff, onRequestUpdate, onP2P, Asks, InLoop, Answer,
         StartVideoLiving, StartTalk, StopTalk, UpdateReceived, UpdateWaits, ClientLost,
         ReceiveFails, TimesOut, SendLivingData, onClose, CloseMedia, FreeSlot, CloseTalk,
         ResetTalk, ResetUser, vars
    <2>3. \A d \in Conns \ {c} : pc'[d] = pc[d]
      BY Shapes DEF Accept, Goto, FreeSlot, Keeps, Leaves, vars
    <2> QED BY <2>1, <2>2, <2>3 DEF RecHeld
  <1> QED BY <1>1, <1>2, <1>3

Exact == SlotInv /\ Alone /\ UsedHeld /\ MediaHeld /\ RecHeld

LEMMA ExactInvariant == Spec => []Exact
  <1>1. Init => Exact
    BY InitSlotInv
    DEF Init, Exact, Uses, Serving, Closing, Tail, Alone, UsedHeld, MediaHeld, RecHeld
  <1>2. Exact /\ [Next]_vars => Exact'
    <2>1. Exact /\ Next => Exact'
      <3> SUFFICES ASSUME Exact, NEW c \in Conns, Step(c) PROVE Exact'
        BY NextSteps
      <3>1. SlotInv' /\ Alone' /\ UsedHeld' /\ MediaHeld'
        BY StepSlotInv, StepAlone, StepUsedHeld, StepMediaHeld DEF Exact
      <3>2. RecHeld'
        BY StepRecHeld DEF Exact, SlotInv
      <3> QED BY <3>1, <3>2 DEF Exact
    <2>2. Exact /\ UNCHANGED vars => Exact'
      <3> SUFFICES ASSUME Exact, UNCHANGED vars PROVE Exact'
        OBVIOUS
      <3>1. SlotInv'
        BY NextSlotInv DEF Exact
      <3>2. MediaHeld'
        BY DEF Exact, vars, sharedVars, threadVars, historyVars, startVars, MediaHeld, Uses,
           HasStream, Cursor, UserOf
      <3>3. Alone' /\ UsedHeld' /\ RecHeld'
        BY DEF Exact, vars, sharedVars, threadVars, historyVars, Alone, UsedHeld, RecHeld, Holds, UserOf
      <3> QED BY <3>1, <3>2, <3>3 DEF Exact
    <2> QED BY <2>1, <2>2
  <1> QED BY <1>1, <1>2, PTL DEF Spec

\* Whatever the order of requests, losses, time-outs and closes, what is taken
\* is held by a session that will give it back: no exit of a handler leaks a
\* work session, a live id or a playback id (onClose, freeMediaSession,
\* freeWorkSession), as long as no object is handed on before its reset.  The
\* live ids that do leak are those in astray, which a second start on a
\* connection overwrote (RequestStartVideoLiving).
THEOREM Exactness == Spec => []NothingLeaks
  <1>1. Exact => NothingLeaks
    <2> SUFFICES ASSUME Exact, overtaken = {} PROVE NothingLeaks
      BY DEF NothingLeaks
    <2>1. \A t \in StreamTypes : \A i \in media[t] : i \in LiveIds
      BY DEF Exact, SlotInv, TypeOK
    <2>2. \A t \in StreamTypes : \A i \in media[t] :
            \/ \E c \in Conns : pc[c] \in Serving \cup {"closeMedia"} /\ Cursor(c) = <<t, i>>
            \/ <<t, i>> \in astray
      BY <2>1 DEF Exact, MediaHeld, Uses
    <2> QED BY <2>2 DEF Exact, UsedHeld, RecHeld, NothingLeaks
  <1> QED BY <1>1, ExactInvariant, PTL

-----------------------------------------------------------------------------
(* The talk channel.                                                       *)

Talks(c) == m_talkOn /\ m_talkUserID = slot[c]

TalkInv ==
  overtaken = {} =>
    /\ m_talkOn => \E c \in Conns :
                     /\ pc[c] \in Serving \cup Closing \cup {"closeTalk", "resetTalk"}
                     /\ slot[c] = m_talkUserID
    /\ \A c \in Conns : pc[c] = "talk" => Talks(c)
    /\ \A c \in Conns :
         pc[c] \in Serving \ {"talkoff"} /\ UserOf(c).m_bStartTalk => Talks(c)

\* The steps that touch neither the channel nor m_bStartTalk.
Silent(c) ==
  \/ \E t \in StreamTypes : onRequestVideoLiving(c, t)
  \/ onStopVideoLiving(c) \/ onPlaybackPlay(c) \/ onRequestUpdate(c) \/ onP2P(c)
  \/ StartVideoLiving(c) \/ PlaybackEnd(c) \/ UpdateReceived(c)
  \/ ClientLost(c) \/ ReceiveFails(c) \/ TimesOut(c) \/ SendLivingData(c)

LEMMA SilentStep ==
  ASSUME SlotInv, NEW c \in Conns, Silent(c)
  PROVE  /\ UNCHANGED <<talkVars, amp, slot>> /\ pc' = [pc EXCEPT ![c] = pc'[c]]
         /\ pc[c] \in Serving /\ pc'[c] \in Serving \cup {"closeMedia"}
         /\ pc'[c] = "talk" => pc[c] = "talk"
         /\ pc[c] = "talkoff" => pc'[c] = "talkoff"
         /\ UserOf(c)'.m_bStartTalk = UserOf(c).m_bStartTalk
  <1>1. /\ UNCHANGED <<talkVars, amp, slot>> /\ pc' = [pc EXCEPT ![c] = pc'[c]]
        /\ pc[c] \in Serving /\ pc'[c] \in Serving \cup {"closeMedia"}
        /\ pc'[c] = "talk" => pc[c] = "talk"
        /\ pc[c] = "talkoff" => pc'[c] = "talkoff"
    <2> USE DEF SlotInv, TypeOK, Goto, Serving, Asks, InLoop, sharedVars, threadVars, talkVars
    <2>1. ASSUME NEW t \in StreamTypes, onRequestVideoLiving(c, t)
          PROVE  /\ UNCHANGED <<talkVars, amp, slot>> /\ pc' = [pc EXCEPT ![c] = pc'[c]]
                 /\ pc[c] \in Serving /\ pc'[c] \in Serving \cup {"closeMedia"}
                 /\ pc'[c] = "talk" => pc[c] = "talk"
                 /\ pc[c] = "talkoff" => pc'[c] = "talkoff"
      BY <2>1 DEF onRequestVideoLiving, getUnuseMediaSession, RefuseVideoLiving
    <2>2. CASE \/ onStopVideoLiving(c) \/ onPlaybackPlay(c) \/ onRequestUpdate(c)
               \/ StartVideoLiving(c) \/ PlaybackEnd(c) \/ UpdateReceived(c) \/ onP2P(c)
      BY <2>2 DEF onStopVideoLiving, onPlaybackPlay, onRequestUpdate, onP2P, StartVideoLiving,
         PlaybackEnd, UpdateReceived
    <2>3. CASE ClientLost(c) \/ ReceiveFails(c) \/ TimesOut(c) \/ SendLivingData(c)
      BY <2>3 DEF ClientLost, ReceiveFails, TimesOut, SendLivingData
    <2> QED BY <2>1, <2>2, <2>3 DEF Silent
  <1>2. slot[c] \in Slots /\ user \in [Slots -> CNetUser] /\ UserOf(c) \in CNetUser
    BY <1>1 DEF SlotInv, TypeOK, UserOf, Serving
  <1>3. \/ UNCHANGED user
        \/ \E t \in StreamTypes, i \in LiveIds :
             SetUser(c, [UserOf(c) EXCEPT !.m_ChannelType = t, !.m_mediaSid = i])
        \/ \E t \in StreamTypes : SetUser(c, [UserOf(c) EXCEPT !.m_ChannelType = t])
        \/ \E b \in BOOLEAN : SetUser(c, [UserOf(c) EXCEPT !.m_bStartSendMedia = b])
        \/ SetUser(c, [UserOf(c) EXCEPT !.m_protoP2P = TRUE])
    BY DEF Silent, onRequestVideoLiving, getUnuseMediaSession, RefuseVideoLiving,
       onStopVideoLiving, onPlaybackPlay, onRequestUpdate, onP2P, StartVideoLiving, PlaybackEnd,
       UpdateReceived, ClientLost, ReceiveFails, TimesOut, SendLivingData, sharedVars
  <1>4. user'[slot[c]].m_bStartTalk = UserOf(c).m_bStartTalk
    BY <1>2, <1>3 DEF SetUser, UserOf, CNetUser
  <1> QED BY <1>1, <1>4 DEF UserOf

\* The talk is ended by the session itself, or was not its own.
EndsTalk(c) ==
  /\ RequestTalkOff(slot[c]) /\ UNCHANGED slot /\ pc' = [pc EXCEPT ![c] = pc'[c]]
  /\ pc'[c] \in {"talkoff", "resetTalk", "resetUser"}

\* The talk is as it was, and so is the session's part in it.
LeavesTalk(c) ==
  /\ UNCHANGED talkVars /\ pc' = [pc EXCEPT ![c] = pc'[c]]
  /\ pc[c] \in Serving \cup Closing \cup {"closeTalk", "resetTalk"} =>
       /\ pc'[c] \in Serving \cup Closing \cup {"closeTalk", "resetTalk"}
       /\ slot'[c] = slot[c]
  /\ pc'[c] = "talk" => pc[c] = "talk"
  /\ pc'[c] \in Serving \ {"talkoff"} /\ UserOf(c)'.m_bStartTalk =>
       \/ pc[c] = "talk"
       \/ pc[c] \in Serving \ {"talkoff"} /\ UserOf(c).m_bStartTalk

LEMMA TalkSteps ==
  ASSUME SlotInv, Alone, TalkInv, overtaken = {}, NEW c \in Conns, Step(c)
  PROVE  onTalkOn(c) \/ EndsTalk(c) \/ LeavesTalk(c) \/ UNCHANGED vars
  <1> USE DEF SlotInv, TypeOK
  <1>1. pc[c] \in Serving \cup Closing \cup Tail => UserOf(c).m_nUserID = slot[c]
    BY DEF Alone
  <1>2. CASE Silent(c)
    <2>1. pc'[c] \in Serving \ {"talkoff"} => pc[c] \in Serving \ {"talkoff"}
      BY <1>2, SilentStep
    <2>2. UserOf(c)'.m_bStartTalk = UserOf(c).m_bStartTalk
      BY <1>2, SilentStep
    <2>3. UserOf(c)'.m_bStartTalk => UserOf(c).m_bStartTalk
      BY <2>2
    <2>4. /\ UNCHANGED <<talkVars, slot>> /\ pc' = [pc EXCEPT ![c] = pc'[c]]
          /\ pc'[c] \in Serving \cup {"closeMedia"}
          /\ pc'[c] = "talk" => pc[c] = "talk"
      BY <1>2, SilentStep
    <2>5. pc'[c] \in Serving \cup Closing \cup {"closeTalk", "resetTalk"} /\ slot'[c] = slot[c]
      BY <2>4 DEF Closing
    <2> QED BY <2>1, <2>3, <2>4, <2>5 DEF LeavesTalk
  <1>3. CASE Accept(c)
    BY <1>3 DEF Accept, Goto, sharedVars, talkVars, LeavesTalk, Serving, Closing
  <1>4. CASE Accepted(c)
    <2>1. slot[c] \in Slots /\ UserOf(c) \in CNetUser /\ UserOf(c).m_nUserID \in {slot[c], Invalid}
      BY <1>4, UserOfType DEF Accepted, IdOfSlot
    <2>2. m_talkOn => m_talkUserID # UserOf(c).m_nUserID
      <3> SUFFICES ASSUME m_talkOn PROVE m_talkUserID # UserOf(c).m_nUserID
        OBVIOUS
      <3>1. PICK w \in Conns : /\ pc[w] \in Serving \cup Closing \cup {"closeTalk", "resetTalk"}
                               /\ slot[w] = m_talkUserID
        BY DEF TalkInv
      <3>2. slot[w] \in Slots /\ slot[w] # slot[c]
        BY <1>4, <3>1 DEF Alone, Accepted, Serving, Closing
      <3> QED BY <2>1, <3>1, <3>2, InvalidNoSlot
    <2>3. UNCHANGED talkVars
      BY <1>4, <2>2 DEF Accepted, RequestTalkOff
    <2>4. Cleared(UserOf(c)) \in CNetUser /\ Cleared(UserOf(c)).m_bStartTalk = FALSE
      BY <2>1, ClearedUser DEF Cleared, CNetUser
    <2>5. ~UserOf(c)'.m_bStartTalk
      BY <1>4, <2>1, <2>4 DEF Accepted, SetUser, UserOf, threadVars, CNetUser
    <2> QED BY <1>4, <2>3, <2>5 DEF Accepted, Goto, threadVars, LeavesTalk, Serving, Closing
  <1>5. CASE onTalOff(c) \/ ResetTalk(c)
    <2>1. RequestTalkOff(slot[c])
      BY <1>1, <1>5 DEF onTalOff, Asks, InLoop, ResetTalk, Serving, Tail
    <2> QED BY <1>5, <2>1 DEF onTalOff, ResetTalk, Goto, threadVars, EndsTalk
  <1>6. CASE CloseTalk(c)
    <2>1. CASE UserOf(c).m_bStartTalk
      <3>1. RequestTalkOff(slot[c])
        BY <1>1, <1>6, <2>1 DEF CloseTalk, Tail
      <3> QED BY <1>6, <3>1 DEF CloseTalk, Goto, threadVars, EndsTalk
    <2>2. CASE ~UserOf(c).m_bStartTalk
      BY <1>6, <2>2 DEF CloseTalk, Goto, threadVars, talkVars, LeavesTalk, Serving
    <2> QED BY <2>1, <2>2
  <1>7. CASE StartTalk(c)
    BY <1>7 DEF StartTalk, Goto, threadVars, LeavesTalk, Serving
  <1>8. CASE StopTalk(c)
    <2>1. slot[c] \in Slots /\ UserOf(c) \in CNetUser /\ UserOf(c) = user[slot[c]]
      BY <1>8, UserOfType DEF StopTalk
    <2>2. ~UserOf(c)'.m_bStartTalk
      BY <1>8, <2>1 DEF StopTalk, SetUser, UserOf, threadVars, CNetUser
    <2> QED BY <1>8, <2>2 DEF StopTalk, Goto, threadVars, LeavesTalk, Serving
  <1>9. CASE CloseMedia(c) \/ FreeSlot(c) \/ ResetUser(c)
    BY <1>9 DEF CloseMedia, FreeSlot, ResetUser, Goto, sharedVars, threadVars, talkVars,
       LeavesTalk, Serving, Closing
  <1> QED
    BY <1>2, <1>3, <1>4, <1>5, <1>6, <1>7, <1>8, <1>9
    DEF Step, Listen, Refuse, Request, Answer, UpdateWaits, onClose, Silent

LEMMA StepTalkInv ==
  ASSUME SlotInv, Alone, TalkInv, NEW c \in Conns, Step(c)
  PROVE  TalkInv'
  <1> SUFFICES ASSUME overtaken' = {}
               PROVE  TalkInv'
    BY DEF TalkInv
  <1> USE DEF SlotInv, TypeOK
  <1>1. overtaken = {}
    BY OvertakenGrows
  <1>2. \A d \in Conns \ {c} : pc[d] # "none" => Untouched(d)
    BY <1>1, OthersUntouched
  <1>3. \A d \in Conns \ {c} : pc'[d] = pc[d]
    BY Shapes DEF Accept, Goto, FreeSlot, threadVars, Keeps, Leaves, vars
  <1>4. CASE onTalkOn(c)
    <2>1. /\ pc[c] = "loop" /\ pc' = [pc EXCEPT ![c] = "talk"] /\ UNCHANGED slot
          /\ ~m_talkOn /\ m_talkOn' /\ m_talkUserID' = slot[c]
      BY <1>1, <1>4 DEF onTalkOn, Asks, InLoop, Goto, RequestTalkOn, threadVars, Alone, Serving
    <2>2. \A d \in Conns \ {c} :
            /\ pc[d] # "talk" /\ ~(pc[d] \in Serving \ {"talkoff"} /\ UserOf(d).m_bStartTalk)
      BY <1>1, <2>1 DEF TalkInv, Talks
    <2> QED BY <1>2, <1>3, <2>1, <2>2 DEF TalkInv, Talks, Untouched, Serving
  <1>5. CASE EndsTalk(c)
    <2>1. pc[c] # "none" => \A d \in Conns \ {c} : pc[d] # "none" => slot[d] # slot[c]
      BY <1>1 DEF Alone
    <2>2. pc[c] # "none"
      BY <1>5, Shapes DEF EndsTalk, Accept, Goto, FreeSlot, Keeps, Leaves, Active, Serving,
         Closing, Tail, vars
    <2>3. m_talkOn' => /\ UNCHANGED talkVars /\ m_talkUserID # slot[c]
      BY <1>5 DEF EndsTalk, RequestTalkOff, talkVars
    <2>4. \A d \in Conns \ {c} : pc[d] # "none" /\ Talks(d) => Talks(d)'
      BY <1>2, <1>5, <2>1, <2>2 DEF EndsTalk, RequestTalkOff, talkVars, Talks, Untouched
    <2>5. m_talkOn' => \E d \in Conns :
             /\ pc'[d] \in Serving \cup Closing \cup {"closeTalk", "resetTalk"}
             /\ slot'[d] = m_talkUserID'
      <3> SUFFICES ASSUME m_talkOn'
                   PROVE  \E d \in Conns :
                            /\ pc'[d] \in Serving \cup Closing \cup {"closeTalk", "resetTalk"}
                            /\ slot'[d] = m_talkUserID'
        OBVIOUS
      <3>1. PICK d \in Conns : /\ pc[d] \in Serving \cup Closing \cup {"closeTalk", "resetTalk"}
                               /\ slot[d] = m_talkUserID
        BY <1>1, <2>3 DEF TalkInv, talkVars
      <3>2. d # c
        BY <2>3, <3>1
      <3> QED BY <1>5, <1>3, <2>3, <3>1, <3>2 DEF EndsTalk, talkVars
    <2>6. pc'[c] # "talk" /\ pc'[c] \notin Serving \ {"talkoff"}
      BY <1>5 DEF EndsTalk, Serving
    <2> QED BY <1>1, <1>2, <1>3, <2>4, <2>5, <2>6 DEF TalkInv, Untouched, Serving
  <1>6. CASE LeavesTalk(c)
    <2>1. m_talkOn' => \E d \in Conns :
             /\ pc'[d] \in Serving \cup Closing \cup {"closeTalk", "resetTalk"}
             /\ slot'[d] = m_talkUserID'
      <3> SUFFICES ASSUME m_talkOn'
                   PROVE  \E d \in Conns :
                            /\ pc'[d] \in Serving \cup Closing \cup {"closeTalk", "resetTalk"}
                            /\ slot'[d] = m_talkUserID'
        OBVIOUS
      <3>1. PICK d \in Conns : /\ pc[d] \in Serving \cup Closing \cup {"closeTalk", "resetTalk"}
                               /\ slot[d] = m_talkUserID
        BY <1>1, <1>6 DEF TalkInv, LeavesTalk, talkVars
      <3>2. pc[d] # "none"
        BY <3>1 DEF Serving, Closing
      <3> QED BY <1>2, <1>6, <3>1, <3>2 DEF LeavesTalk, talkVars, Untouched
    <2>2. \A d \in Conns \ {c} : pc[d] # "none" /\ Talks(d) => Talks(d)'
      BY <1>2, <1>6 DEF LeavesTalk, talkVars, Talks, Untouched
    <2>3. pc[c] \in Serving /\ Talks(c) => Talks(c)'
      BY <1>6 DEF LeavesTalk, talkVars, Talks
    <2>4. pc'[c] = "talk" => Talks(c)'
      BY <1>1, <1>6, <2>3 DEF LeavesTalk, TalkInv, Serving
    <2>5. pc'[c] \in Serving \ {"talkoff"} /\ UserOf(c)'.m_bStartTalk => Talks(c)'
      BY <1>1, <1>6, <2>3 DEF LeavesTalk, TalkInv, Serving
    <2> QED BY <1>1, <1>2, <1>3, <2>1, <2>2, <2>4, <2>5 DEF TalkInv, Untouched, Serving
  <1>7. CASE UNCHANGED vars
    BY <1>7 DEF vars, sharedVars, threadVars, historyVars, TalkInv, Talks, UserOf
  <1> QED BY <1>1, <1>4, <1>5, <1>6, <1>7, TalkSteps

(* The amplifier.                                                          *)

\* c is still to switch the amplifier off, should it be on.
Mutes(c) == pc[c] \in Serving \cup Closing \cup {"closeTalk"} /\ UserOf(c).m_bStartTalk

AmpInv == overtaken = {} /\ amp => \E c \in Conns : Mutes(c)

LEMMA AmpSteps ==
  ASSUME SlotInv, NEW c \in Conns, Step(c)
  PROVE  \/ ~amp'
         \/ Mutes(c)'
         \/ UNCHANGED amp /\ ~Mutes(c)
  <1> USE DEF SlotInv, TypeOK, Mutes
  <1>1. CASE pc[c] \notin Serving \cup Closing \cup {"closeTalk"}
    BY <1>1 DEF Step, Listen, Accept, Refuse, Accepted, Request, onRequestVideoLiving,
       onStopVideoLiving, onTalkOn, onTalOff, onPlaybackPlay, onRequestUpdate, onP2P, Asks,
       InLoop, Answer, StartVideoLiving, StartTalk, StopTalk, PlaybackEnd, UpdateReceived,
       UpdateWaits, ClientLost, ReceiveFails, TimesOut, SendLivingData, onClose, CloseMedia,
       FreeSlot, CloseTalk, ResetTalk, ResetUser, Serving, Closing, vars, sharedVars
  <1>2. CASE pc[c] \in Serving \cup Closing \cup {"closeTalk"}
    <2>1. slot[c] \in Slots /\ UserOf(c) \in CNetUser /\ UserOf(c) = user[slot[c]]
      BY <1>2, UserOfType DEF Serving, Closing
    <2>2. CASE Silent(c)
      <3>1. /\ UNCHANGED amp /\ pc'[c] \in Serving \cup {"closeMedia"}
            /\ UserOf(c)'.m_bStartTalk = UserOf(c).m_bStartTalk
        BY <2>2, SilentStep
      <3> QED BY <3>1 DEF Closing
    <2>3. CASE Listen(c)
      BY <1>2, <2>3 DEF Listen, Accept, Accepted, Refuse, Serving, Closing, vars, sharedVars
    <2>4. CASE onTalkOn(c) \/ onTalOff(c)
      BY <2>4 DEF onTalkOn, onTalOff, Goto, Serving, threadVars, UserOf
    <2>5. CASE StartTalk(c)
      <3>1. CASE UNCHANGED <<amp, user>>
        BY <2>5, <3>1 DEF StartTalk, Goto, Serving, threadVars, UserOf
      <3>2. CASE SetUser(c, [UserOf(c) EXCEPT !.m_bStartTalk = TRUE])
        <4>1. user'[slot[c]].m_bStartTalk
          BY <2>1, <3>2 DEF SetUser, CNetUser
        <4> QED BY <2>5, <4>1 DEF StartTalk, Goto, Serving, threadVars, UserOf
      <3> QED BY <2>5, <3>1, <3>2 DEF StartTalk
    <2>6. CASE StopTalk(c)
      BY <2>6 DEF StopTalk, StopAudioDecode
    <2>7. CASE CloseMedia(c)
      <3>1. user'[slot[c]].m_bStartTalk = UserOf(c).m_bStartTalk
        BY <2>1, <2>7 DEF CloseMedia, SetUser, CNetUser
      <3> QED BY <2>7, <3>1 DEF CloseMedia, Goto, Closing, threadVars, UserOf
    <2>8. CASE FreeSlot(c)
      BY <2>8 DEF FreeSlot, Goto, threadVars, sharedVars, UserOf
    <2>9. CASE CloseTalk(c)
      BY <2>9 DEF CloseTalk, StopAudioDecode
    <2>10. CASE UpdateWaits(c)
      BY <2>10 DEF UpdateWaits, vars, sharedVars, threadVars, UserOf
    <2>11. ~ResetTalk(c) /\ ~ResetUser(c)
      BY <1>2 DEF ResetTalk, ResetUser, Serving, Closing
    <2> QED
      BY <2>2, <2>3, <2>4, <2>5, <2>6, <2>7, <2>8, <2>9, <2>10, <2>11
      DEF Step, Request, Answer, onClose, Silent
  <1> QED BY <1>1, <1>2

LEMMA StepAmpInv ==
  ASSUME SlotInv, Alone, AmpInv, NEW c \in Conns, Step(c)
  PROVE  AmpInv'
  <1> SUFFICES ASSUME overtaken' = {}, amp'
               PROVE  \E d \in Conns : Mutes(d)'
    BY DEF AmpInv
  <1>1. overtaken = {}
    BY OvertakenGrows DEF SlotInv
  <1>2. \A d \in Conns \ {c} : Mutes(d) => Mutes(d)'
    BY <1>1, OthersUntouched DEF Untouched, Mutes, Serving, Closing
  <1>3. CASE Mutes(c)'
    BY <1>3
  <1>4. CASE UNCHANGED amp /\ ~Mutes(c)
    <2>1. PICK d \in Conns : Mutes(d)
      BY <1>1, <1>4 DEF AmpInv
    <2> QED BY <1>2, <1>4, <2>1
  <1> QED BY <1>3, <1>4, AmpSteps

LEMMA TalkInvariant == Spec => [](SlotInv /\ Alone /\ TalkInv /\ AmpInv)
  <1> DEFINE I == SlotInv /\ Alone /\ TalkInv /\ AmpInv
  <1>1. Init => I
    BY InitSlotInv DEF Init, Serving, Closing, Tail, Alone, TalkInv, AmpInv
  <1>2. I /\ [Next]_vars => I'
    <2>1. I /\ Next => Alone' /\ TalkInv' /\ AmpInv'
      BY NextSteps, StepAlone, StepTalkInv, StepAmpInv
    <2>2. Alone /\ TalkInv /\ AmpInv /\ UNCHANGED vars => Alone' /\ TalkInv' /\ AmpInv'
      BY DEF vars, sharedVars, threadVars, historyVars, Alone, TalkInv, Talks, AmpInv, Mutes,
         UserOf
    <2> QED BY <2>1, <2>2, NextSlotInv
  <1> QED BY <1>1, <1>2, PTL DEF Spec

\* The talk channel is never taken for good: who holds it will still run
\* RequestTalkOff with the id it was taken under, and who believes it talks is
\* the one that does; the amplifier is never left on with nobody to switch it
\* off (onTalkOn, onTalOff, onClose, ResetUser); as long as no object is handed
\* on before its reset.
THEOREM TalkExact == Spec => []TalkAccounted
  <1>1. SlotInv /\ Alone /\ TalkInv /\ AmpInv => TalkAccounted
    BY DEF TalkInv, AmpInv, Mutes, TalkAccounted, Talks
  <1> QED BY <1>1, TalkInvariant, PTL
=============================================================================
