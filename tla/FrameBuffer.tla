---------------------------- MODULE FrameBuffer ----------------------------
(***************************************************************************)
(* The frame pool of encode/BufferManage.cpp: one ring of bytes and one    *)
(* ring of frame descriptors per stream, filled by the video and audio     *)
(* encoder threads and read by the recorder and the network sessions, each *)
(* through a cursor of its own.                                            *)
(*                                                                         *)
(* Every operation holds BufManageMutex from its first access to its last, *)
(* so each is one step.  What is outside the mutex is the reader's use of  *)
(* the returned pointer: GetOneFrameFromBuffer returns an address inside   *)
(* the pool and the caller copies from it later (Release).                 *)
(*                                                                         *)
(* Bytes are counted in units of eight, the alignment every frame start    *)
(* is rounded to; a unit holds the sequence number of the frame that was   *)
(* written there last, 0 when it was cleared.                              *)
(***************************************************************************)
EXTENDS Integers

CONSTANTS
  BufferSize,   \* buffersize, in units of 8 bytes
  MaxFrm,       \* MAX_FRM_NUM, slots of FrmList
  MaxIFrm,      \* MAX_I_F_NUM, slots of IFrmList
  IndexMod,     \* 2^16: ReadFrmIndex is an unsigned short
  FrameLens,    \* lengths of a frame with its header, in units
  Users,        \* user ids of m_FrameBufferUser that are in use
  LocalRecId,   \* LOCAL_REC_ID, the recorder
  Gop,          \* the encoder's I frame interval: frames between two I frames
  MaxPut        \* bound: frames put in a behaviour

ASSUME PoolAssumption ==
  /\ BufferSize \in Nat /\ MaxFrm \in Nat \ {0} /\ MaxIFrm \in Nat \ {0}
  /\ IndexMod \in Nat /\ MaxFrm < IndexMod
  /\ FrameLens \subseteq 1..BufferSize
  /\ Gop \in Nat /\ MaxPut \in Nat

ASSUME UserAssumption == LocalRecId \in Users

VARIABLES
  FrmList, IFrmList, IFrmIndex, TotalIFrm,            \* descriptors
  CurFrmIndex, TotalFrm, ICurIndex, circlenum, writepos,
  mem,                                                \* the bytes
  ReadFrmIndex, ReadCircleNum,                        \* m_FrameBufferUser
  held,        \* the descriptor a reader is working from, outside the lock
  attached,    \* users whose cursor has been set (the array is not cleared)
  published,   \* history: frames put so far, the newest sequence number
  sinceKey,    \* history: frames put since the last I frame
  last         \* history: newest frame delivered since the last reposition

poolVars == <<FrmList, IFrmList, IFrmIndex, TotalIFrm, CurFrmIndex, TotalFrm,
              ICurIndex, circlenum, writepos, mem, published, sinceKey>>
userVars == <<ReadFrmIndex, ReadCircleNum, held, attached, last>>
vars == <<poolVars, userVars>>

-----------------------------------------------------------------------------
Units == 0..(BufferSize - 1)
Kinds == {"I", "P"}          \* "P" for every frame that is not a key frame: P, audio

\* A descriptor; lap and seq are history: the circlenum it was written in
\* and the number of the frame.  A slot never written is all zeroes.
Frame == [pos : 0..BufferSize, len : FrameLens, kind : Kinds,
          lap : Nat, seq : Nat \ {0}]
Blank == [pos |-> 0, len |-> 0, kind |-> "none", lap |-> 0, seq |-> 0]

\* FrmList[i] as the code reads it: past the array it is unrelated memory.
Entry(i) == IF i < MaxFrm THEN FrmList[i] ELSE Blank

Span(f) == f.pos..(f.pos + f.len - 1)

\* The bytes f describes are still the frame's own.
Intact(f) == f # Blank /\ \A c \in Span(f) : mem[c] = f.seq

\* FrameInfo of no frame: the reader is not working from the pool.
NoFrame == [pos |-> 0, len |-> 0, kind |-> "idle", lap |-> 0, seq |-> 0]

TypeOK ==
  /\ FrmList \in [0..(MaxFrm - 1) -> Frame \cup {Blank}]
  /\ IFrmList \in [0..(MaxIFrm - 1) -> 0..(MaxFrm - 1)]
  /\ IFrmIndex \in 0..(MaxIFrm - 1)
  /\ TotalIFrm \in 0..MaxIFrm
  /\ CurFrmIndex \in 0..(MaxFrm - 1)
  /\ TotalFrm \in 0..MaxFrm
  /\ ICurIndex \in 0..(MaxFrm - 1)
  /\ circlenum \in Nat
  /\ writepos \in 0..BufferSize
  /\ mem \in [Units -> Nat]
  /\ published \in Nat /\ sinceKey \in Nat
  /\ ReadFrmIndex \in [Users -> 0..(IndexMod - 1)]
  /\ ReadCircleNum \in [Users -> Int]
  /\ held \in [Users -> Frame \cup {Blank, NoFrame}]
  /\ attached \in SUBSET Users
  /\ last \in [Users -> Nat]

\* CreateBufferPool, InitBuffer: cleared memory and counters.  The recorder's
\* cursor is cleared with them; the others are set by their first reposition.
Init ==
  /\ FrmList = [i \in 0..(MaxFrm - 1) |-> Blank]
  /\ IFrmList = [i \in 0..(MaxIFrm - 1) |-> 0]
  /\ IFrmIndex = 0 /\ TotalIFrm = 0
  /\ CurFrmIndex = 0 /\ TotalFrm = 0 /\ ICurIndex = 0
  /\ circlenum = 0 /\ writepos = 0
  /\ mem = [c \in Units |-> 0]
  /\ published = 0 /\ sinceKey = 0
  /\ ReadFrmIndex = [u \in Users |-> 0]
  /\ ReadCircleNum = [u \in Users |-> 0]
  /\ held = [u \in Users |-> NoFrame]
  /\ attached = {LocalRecId}
  /\ last = [u \in Users |-> 0]

-----------------------------------------------------------------------------
(* The writer: PutOneVFrameToBuffer and PutOneAFrameToBuffer.              *)

\* IFrmList, IFrmIndex, TotalIFrm and ICurIndex after an I frame at slot i.
NoteIFrame(i) ==
  /\ ICurIndex' = i
  /\ IFrmList' = [IFrmList EXCEPT ![IFrmIndex] = i]
  /\ IFrmIndex' = (IFrmIndex + 1) % MaxIFrm
  /\ TotalIFrm' = IF TotalIFrm < IFrmIndex + 1 THEN IFrmIndex + 1 ELSE TotalIFrm

AdvanceNoListEnd(i, total, lap, end) ==      \* fault: the list end is not noticed
  /\ TotalFrm' = IF i + 1 > total THEN i + 1 ELSE total
  /\ CurFrmIndex' = i + 1 /\ circlenum' = lap /\ writepos' = end

AdvanceSameLap(i, total, lap, end) ==        \* fault: the list end is no new lap
  IF i + 1 >= MaxFrm
  THEN /\ TotalFrm' = i + 1
       /\ CurFrmIndex' = 0 /\ circlenum' = lap /\ writepos' = 0
  ELSE /\ TotalFrm' = IF i + 1 > total THEN i + 1 ELSE total
       /\ CurFrmIndex' = i + 1 /\ circlenum' = lap /\ writepos' = end

\* CurFrmIndex, TotalFrm, circlenum, writepos once slot i is filled up to end:
\* the last slot of the list ends the lap.
Advance(i, total, lap, end) ==
  IF i + 1 >= MaxFrm
  THEN /\ TotalFrm' = i + 1
       /\ CurFrmIndex' = 0 /\ circlenum' = lap + 1 /\ writepos' = 0
  ELSE /\ TotalFrm' = IF i + 1 > total THEN i + 1 ELSE total
       /\ CurFrmIndex' = i + 1 /\ circlenum' = lap /\ writepos' = end

\* Write one frame at slot i and unit pos of lap `lap' over the bytes `bytes'.
Store(i, total, lap, pos, bytes, kind, len) ==
  LET f == [pos |-> pos, len |-> len, kind |-> kind, lap |-> lap,
            seq |-> published + 1]
  IN  /\ FrmList' = [FrmList EXCEPT ![i] = f]
      /\ mem' = [c \in Units |-> IF c \in Span(f) THEN f.seq ELSE bytes[c]]
      /\ published' = f.seq
      /\ IF kind = "I"
         THEN NoteIFrame(i) /\ sinceKey' = 0
         ELSE /\ UNCHANGED <<ICurIndex, IFrmList, IFrmIndex, TotalIFrm>>
              /\ sinceKey' = sinceKey + 1
      /\ Advance(i, total, lap, pos + len)
      /\ UNCHANGED userVars

Fits(len) == BufferSize - writepos >= len

\* The rest of the pool, cleared before the writer goes back to its start.
TailCleared == [c \in Units |-> IF c >= writepos THEN 0 ELSE mem[c]]

PutInLap(kind, len) ==
  /\ Fits(len)
  /\ Store(CurFrmIndex, TotalFrm, circlenum, writepos, mem, kind, len)

PutInSameLap(kind, len) ==                   \* fault: the lap is not counted
  /\ ~Fits(len)
  /\ Store(0, CurFrmIndex, circlenum, 0, TailCleared, kind, len)

PutInNextLap(kind, len) ==
  /\ ~Fits(len)
  /\ Store(0, CurFrmIndex, circlenum + 1, 0, TailCleared, kind, len)

PutOneFrame(kind, len) ==
  /\ published < MaxPut
  /\ kind = "P" => sinceKey < Gop
  /\ PutInLap(kind, len) \/ PutInNextLap(kind, len)

-----------------------------------------------------------------------------
(* The readers: GetOneFrameFromBuffer, ResetUserInfo.                      *)

OffLapEndLate(u) ==                          \* fault: one slot too far
  /\ ReadFrmIndex[u] > TotalFrm
  /\ ReadCircleNum[u] < circlenum

\* The "typical lap change": the cursor has run off the end of its lap.
OffLapEnd(u) == /\ ReadFrmIndex[u] >= TotalFrm
                /\ ReadCircleNum[u] < circlenum

Idx(u) == IF OffLapEnd(u) THEN 0 ELSE ReadFrmIndex[u]
Lap(u) == IF OffLapEnd(u) THEN circlenum ELSE ReadCircleNum[u]

CaughtUp(u) == Idx(u) = CurFrmIndex /\ Lap(u) = circlenum

OvertakenByLaps(u) == circlenum - Lap(u) >= 2   \* fault: the position is not tested

Overtaken(u) ==
  \/ circlenum - Lap(u) = 1 /\ Entry(Idx(u)).pos < writepos
  \/ circlenum - Lap(u) >= 2

Idle(u) == u \in attached /\ held[u] = NoFrame

\* Nothing to read: -1.  A lap change noticed on the way is kept.
GetNoData(u) ==
  /\ Idle(u) /\ CaughtUp(u)
  /\ ReadFrmIndex' = [ReadFrmIndex EXCEPT ![u] = Idx(u)]
  /\ ReadCircleNum' = [ReadCircleNum EXCEPT ![u] = Lap(u)]
  /\ UNCHANGED <<held, attached, last, poolVars>>

GetOvertakenStays(u) ==                      \* fault: the cursor is left where it is
  /\ Idle(u) /\ ~CaughtUp(u) /\ Overtaken(u)
  /\ last' = [last EXCEPT ![u] = 0]
  /\ UNCHANGED <<ReadFrmIndex, ReadCircleNum, held, attached, poolVars>>

\* The writer has passed the cursor: -1, and the cursor goes to ICurIndex.
GetOvertaken(u) ==
  /\ Idle(u) /\ ~CaughtUp(u) /\ Overtaken(u)
  /\ ReadFrmIndex' = [ReadFrmIndex EXCEPT ![u] = ICurIndex]
  /\ ReadCircleNum' = [ReadCircleNum EXCEPT ![u] = circlenum]
  /\ last' = [last EXCEPT ![u] = 0]
  /\ UNCHANGED <<held, attached, poolVars>>

\* The cursor stands beyond the writer in the writer's own lap.
Ahead(u) == ReadCircleNum[u] = circlenum /\ ReadFrmIndex[u] > CurFrmIndex

\* Success: the descriptor is copied out, the bytes stay in the pool.
GetFrame(u) ==
  /\ Idle(u) /\ ~CaughtUp(u) /\ ~Overtaken(u)
  /\ held' = [held EXCEPT ![u] = Entry(Idx(u))]
  /\ ReadFrmIndex' = [ReadFrmIndex EXCEPT ![u] = (Idx(u) + 1) % IndexMod]
  /\ ReadCircleNum' = [ReadCircleNum EXCEPT ![u] = Lap(u)]
  /\ last' = [last EXCEPT ![u] = IF Ahead(u) THEN 0 ELSE Entry(Idx(u)).seq]
  /\ UNCHANGED <<attached, poolVars>>

GetOneFrameFromBuffer(u) == GetNoData(u) \/ GetOvertaken(u) \/ GetFrame(u)

\* The caller has copied (SendLivingData) or written out (WriteRecordFile)
\* the frame and is done with the pointer.
Release(u) ==
  /\ held[u] # NoFrame
  /\ held' = [held EXCEPT ![u] = NoFrame]
  /\ UNCHANGED <<ReadFrmIndex, ReadCircleNum, attached, last, poolVars>>

ResetUserInfoStrict(u) ==                    \* fault: < where the code has <=
  /\ ReadCircleNum' = [ReadCircleNum EXCEPT ![u] =
                         IF ICurIndex < CurFrmIndex THEN circlenum ELSE circlenum - 1]
  /\ ReadFrmIndex' = [ReadFrmIndex EXCEPT ![u] = ICurIndex]

\* ICurIndex above CurFrmIndex means the I frame is still the last lap's.
ResetUserInfo(u) ==
  /\ ReadCircleNum' = [ReadCircleNum EXCEPT ![u] =
                         IF ICurIndex <= CurFrmIndex THEN circlenum ELSE circlenum - 1]
  /\ ReadFrmIndex' = [ReadFrmIndex EXCEPT ![u] = ICurIndex]

\* EncodeManage.cpp ResetUserData2IFrame: user ids below 1, so LOCAL_REC_ID,
\* are refused before anything is done.
ResetUserData2IFrame(u) ==
  /\ held[u] = NoFrame
  /\ IF u = LocalRecId
     THEN UNCHANGED <<ReadFrmIndex, ReadCircleNum, attached, last>>
     ELSE /\ ResetUserInfo(u)
          /\ attached' = attached \cup {u}
          /\ last' = [last EXCEPT ![u] = 0]
  /\ UNCHANGED <<held, poolVars>>

Next ==
  \/ \E kind \in Kinds, len \in FrameLens : PutOneFrame(kind, len)
  \/ \E u \in Users : \/ GetOneFrameFromBuffer(u)
                      \/ Release(u)
                      \/ ResetUserData2IFrame(u)

Spec == Init /\ [][Next]_vars

\* Every reader is a loop of a thread that polls (OnTcpIdle, WriteRecordFile).
Fairness == \A u \in Users : WF_vars(GetOneFrameFromBuffer(u) \/ Release(u))
FairSpec == Spec /\ Fairness

-----------------------------------------------------------------------------
(* Properties.                                                             *)

\* The lap counters are unsigned and subtracted from each other: no cursor is
\* ever in a lap that has not begun, and the lap before the first is never
\* computed (ResetUserInfo, circlenum-1).
ReadLapBounded == \A u \in Users : ReadCircleNum[u] \in 0..circlenum

\* Slots below CurFrmIndex describe the writer's lap: whole frames, one after
\* the other below writepos, none of them touched since it was written.
CurLapIntact ==
  \A i \in 0..(CurFrmIndex - 1) :
    /\ FrmList[i].lap = circlenum
    /\ FrmList[i].pos + FrmList[i].len <= writepos
    /\ Intact(FrmList[i])

\* Slots from CurFrmIndex to TotalFrm still describe the lap before, and those
\* that start at or above writepos are untouched.
PrevLapIntact ==
  \A i \in CurFrmIndex..(TotalFrm - 1) :
    /\ FrmList[i].lap = circlenum - 1
    /\ FrmList[i].pos >= writepos => Intact(FrmList[i])

\* What the two tests of GetOneFrameFromBuffer rely on: over any sequence of
\* frame lengths, comparing a start with writepos tells a frame that survives
\* from one that does not.
LapsIntact == CurLapIntact /\ PrevLapIntact

\* The step hands user u a frame.
Delivers(u) == held'[u] # held[u] /\ held'[u] # NoFrame

\* A cursor that is not ahead of the writer is only ever handed a frame whose
\* bytes are the ones its FrameInfo describes.
InStepDelivery ==
  [][\A u \in Users : Delivers(u) /\ ~Ahead(u) => Intact(held'[u])]_vars

\* The pointer is used after the lock is released: the bytes under it are the
\* frame's until the writer, one lap later, has gone past the frame's start.
PointerValidForALap ==
  \A u \in Users : held[u] \in Frame =>
    \/ Intact(held[u])
    \/ circlenum = held[u].lap + 1 /\ held[u].pos < writepos
    \/ circlenum > held[u].lap + 1

\* Frames whose descriptor and bytes are both there.
Kept == {FrmList[i].seq : i \in {j \in 0..(MaxFrm - 1) : Intact(FrmList[j])}}

Stream == INSTANCE FrameStream
            WITH Readers <- Users, kept <- Kept,
                 busy <- [u \in Users |-> held[u] # NoFrame]

\* Between two repositions a reader gets every frame, whole, once and in order,
\* across lap changes by size and by count; what it misses had been overwritten
\* when it asked.  Only a cursor that is ahead of the writer, right after a
\* reposition, is handed what is no frame.
IsStream == Stream!StreamSpec

\* A reader that keeps polling gets to the writer's position, or is for ever
\* being repositioned by its caller: no state of the two cursors is a trap.
\* The bound MaxPut stops the writer, so what a run shows is that a reader
\* catches up with a writer that ends, from wherever the two had got to; that
\* it keeps pace with one that goes on is not claimed.
CatchesUp ==
  \A u \in Users :
    \/ []<>(u \in attached => Idle(u) /\ CaughtUp(u))
    \/ []<><<ResetUserData2IFrame(u)>>_vars

\* BufferManage.cpp:751: on success *buffer is the address of the frame and
\* *pFrameInfo its description.
GetReturnsItsFrame == [][\A u \in Users : Delivers(u) => Intact(held'[u])]_vars
=============================================================================
