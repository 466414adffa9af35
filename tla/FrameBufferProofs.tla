------------------------- MODULE FrameBufferProofs -------------------------
(***************************************************************************)
(* What FrameBuffer promises for every pool size, list length, frame       *)
(* length and number of readers.                                           *)
(*                                                                         *)
(* The argument rests on one predicate of a single descriptor, Sound: what *)
(* is left of a frame is known from its lap, its start and the writer's    *)
(* position.  A put makes a sound descriptor and keeps every other one     *)
(* sound (PutSound), whether or not the pool still lists it, which is what *)
(* covers the pointers readers hold outside the lock.                      *)
(***************************************************************************)
EXTENDS FrameBuffer, TLAPS

Sound(f) ==
  /\ f.pos + f.len <= BufferSize
  /\ \/ f.lap = circlenum /\ f.pos + f.len <= writepos /\ Intact(f)
     \/ f.lap + 1 = circlenum /\ (f.pos < writepos \/ Intact(f))
     \/ f.lap + 1 < circlenum

SlotLaps ==
  /\ \A i \in 0..(CurFrmIndex - 1) :
       FrmList[i] \in Frame /\ FrmList[i].lap = circlenum
  /\ \A i \in CurFrmIndex..(TotalFrm - 1) :
       FrmList[i] \in Frame /\ FrmList[i].lap + 1 = circlenum

SlotsSound == \A i \in 0..(MaxFrm - 1) : FrmList[i] \in Frame => Sound(FrmList[i])

HeldSound == \A u \in Users : held[u] \in Frame => Sound(held[u])

\* Before the first lap change the newest I frame is behind the writer, so
\* ResetUserInfo does not step back from lap 0.
KeyBehind == circlenum = 0 => ICurIndex <= CurFrmIndex

IInv == TypeOK /\ SlotLaps /\ SlotsSound /\ HeldSound /\ ReadLapBounded /\ KeyBehind

\* What PutInLap and PutInNextLap have in common: the slot, the lap and the
\* bytes they start from.
Put(i, total, lap, pos, bytes, kind, len) ==
  /\ kind \in Kinds /\ len \in FrameLens
  /\ \/ /\ Fits(len)
        /\ i = CurFrmIndex /\ total = TotalFrm /\ lap = circlenum
        /\ pos = writepos /\ bytes = mem
     \/ /\ ~Fits(len)
        /\ i = 0 /\ total = CurFrmIndex /\ lap = circlenum + 1
        /\ pos = 0 /\ bytes = TailCleared
  /\ Store(i, total, lap, pos, bytes, kind, len)

\* The frame such a put writes.
Written(lap, pos, kind, len) ==
  [pos |-> pos, len |-> len, kind |-> kind, lap |-> lap, seq |-> published + 1]

-----------------------------------------------------------------------------
(* Facts about the data.                                                   *)

LEMMA ModRange == ASSUME NEW a \in Nat, NEW b \in Nat \ {0} PROVE a % b \in 0..(b - 1)
  BY SMT

LEMMA ModLess == ASSUME NEW a \in Nat, NEW b \in Nat, a < b PROVE a % b = a
  BY SMT

LEMMA BlankNotFrame == Blank \notin Frame /\ NoFrame \notin Frame /\ Blank # NoFrame
  <1>1. Blank.kind \notin Kinds /\ NoFrame.kind \notin Kinds
    BY DEF Blank, NoFrame, Kinds
  <1>2. \A f \in Frame : f.kind \in Kinds
    BY DEF Frame
  <1>3. Blank.kind # NoFrame.kind
    BY DEF Blank, NoFrame
  <1> QED BY <1>1, <1>2, <1>3

LEMMA FrameFields ==
  ASSUME NEW f \in Frame
  PROVE  /\ f.pos \in 0..BufferSize /\ f.len \in 1..BufferSize /\ f.kind \in Kinds
         /\ f.lap \in Nat /\ f.seq \in Nat \ {0} /\ f # Blank
  BY PoolAssumption, BlankNotFrame DEF Frame

-----------------------------------------------------------------------------
(* A put.                                                                  *)

\* Everything a put leaves behind, but for the I frame list.
LEMMA PutEffect ==
  ASSUME TypeOK, NEW i, NEW total, NEW lap, NEW pos, NEW bytes, NEW kind, NEW len,
         Put(i, total, lap, pos, bytes, kind, len),
         NEW f, f = Written(lap, pos, kind, len)
  PROVE  /\ i \in 0..(MaxFrm - 1) /\ total \in 0..MaxFrm /\ lap \in Nat
         /\ f \in Frame /\ f.pos = pos /\ f.len = len /\ f.lap = lap
         /\ pos \in 0..BufferSize /\ len \in 1..BufferSize
         /\ pos + len <= BufferSize
         /\ FrmList' = [FrmList EXCEPT ![i] = f]
         /\ mem' = [c \in Units |-> IF c \in Span(f) THEN f.seq ELSE bytes[c]]
         /\ Intact(f)'
         /\ UNCHANGED userVars
         /\ \/ /\ i + 1 = MaxFrm /\ TotalFrm' = i + 1 /\ CurFrmIndex' = 0
               /\ circlenum' = lap + 1 /\ writepos' = 0
            \/ /\ i + 1 < MaxFrm /\ CurFrmIndex' = i + 1 /\ circlenum' = lap
               /\ TotalFrm' = (IF i + 1 > total THEN i + 1 ELSE total)
               /\ writepos' = pos + len
  <1>1. /\ i \in 0..(MaxFrm - 1) /\ total \in 0..MaxFrm /\ lap \in Nat
        /\ pos \in 0..BufferSize /\ len \in 1..BufferSize /\ pos + len <= BufferSize
    BY PoolAssumption DEF TypeOK, Put, Fits
  <1>2. f \in Frame /\ f.pos = pos /\ f.len = len /\ f.lap = lap /\ f.seq = published + 1
    BY <1>1 DEF Written, Frame, Put, TypeOK
  <1>3. /\ FrmList' = [FrmList EXCEPT ![i] = f]
        /\ mem' = [c \in Units |-> IF c \in Span(f) THEN f.seq ELSE bytes[c]]
        /\ UNCHANGED userVars
        /\ Advance(i, total, lap, pos + len)
    BY DEF Put, Store, Written
  <1>4. Span(f) \subseteq Units
    BY <1>1, <1>2, PoolAssumption DEF Span, Units
  <1>5. Intact(f)'
    BY <1>2, <1>3, <1>4, BlankNotFrame DEF Intact, Span
  <1>6. \/ /\ i + 1 = MaxFrm /\ TotalFrm' = i + 1 /\ CurFrmIndex' = 0
           /\ circlenum' = lap + 1 /\ writepos' = 0
        \/ /\ i + 1 < MaxFrm /\ CurFrmIndex' = i + 1 /\ circlenum' = lap
           /\ TotalFrm' = (IF i + 1 > total THEN i + 1 ELSE total)
           /\ writepos' = pos + len
    BY <1>1, <1>3, PoolAssumption DEF Advance
  <1> QED BY <1>1, <1>2, <1>3, <1>5, <1>6

\* A put keeps what is known of every frame, in the list or out of it.
LEMMA PutKeepsSound ==
  ASSUME TypeOK, NEW i, NEW total, NEW lap, NEW pos, NEW bytes, NEW kind, NEW len,
         Put(i, total, lap, pos, bytes, kind, len),
         NEW g \in Frame, Sound(g)
  PROVE  Sound(g)'
  <1> PICK f : f = Written(lap, pos, kind, len)
    OBVIOUS
  <1>1. /\ lap \in Nat /\ f.pos = pos /\ f.len = len
        /\ pos \in 0..BufferSize /\ len \in 1..BufferSize /\ f \in Frame
        /\ mem' = [c \in Units |-> IF c \in Span(f) THEN f.seq ELSE bytes[c]]
        /\ \/ circlenum' = lap + 1 /\ writepos' = 0
           \/ circlenum' = lap /\ writepos' = pos + len
    BY PutEffect
  <1>2. g.pos \in Nat /\ g.len \in Nat \ {0} /\ g.lap \in Nat
    BY FrameFields, PoolAssumption
  <1>3. circlenum \in Nat /\ writepos \in 0..BufferSize /\ mem \in [Units -> Nat]
    BY DEF TypeOK
  <1>4. CASE Fits(len)
    <2>1. pos = writepos /\ lap = circlenum /\ bytes = mem
      BY <1>4 DEF Put
    <2>2. ASSUME Intact(g), g.pos + g.len <= BufferSize,
                 g.pos + g.len <= writepos \/ g.pos >= writepos + len
          PROVE  Intact(g)'
      <3>1. f.pos = writepos /\ f.len = len /\ len \in Nat /\ writepos \in Nat
        BY <1>1, <1>3, <2>1, PoolAssumption
      <3>2. \A c \in Span(g) : c \in Units /\ c \notin Span(f)
        BY <1>2, <2>2, <3>1, PoolAssumption DEF Span, Units
      <3> QED BY <1>1, <2>1, <2>2, <3>2 DEF Intact, Span
    <2> QED BY <1>1, <1>2, <1>3, <2>1, <2>2 DEF Sound
  <1>5. CASE ~Fits(len)
    <2>1. pos = 0 /\ lap = circlenum + 1 /\ bytes = TailCleared
      BY <1>5 DEF Put
    <2>2. ASSUME Intact(g), g.pos + g.len <= writepos, g.pos >= len
          PROVE  Intact(g)'
      <3>1. /\ f.pos = 0 /\ f.len = len /\ len \in Nat
            /\ writepos \in Nat /\ writepos <= BufferSize
        BY <1>1, <1>3, <2>1, PoolAssumption
      <3>2. \A c \in Span(g) : c \in Units /\ c \notin Span(f) /\ ~(c >= writepos)
        BY <1>2, <2>2, <3>1, PoolAssumption DEF Span, Units
      <3> QED BY <1>1, <2>1, <2>2, <3>2 DEF Intact, Span, TailCleared
    <2> QED BY <1>1, <1>2, <1>3, <2>1, <2>2 DEF Sound
  <1> QED BY <1>4, <1>5

LEMMA PutForm ==
  ASSUME NEW kind \in Kinds, NEW len \in FrameLens, PutOneFrame(kind, len)
  PROVE  \E i, total, lap, pos, bytes : Put(i, total, lap, pos, bytes, kind, len)
  <1>1. CASE PutInLap(kind, len)
    <2>1. Put(CurFrmIndex, TotalFrm, circlenum, writepos, mem, kind, len)
      BY <1>1 DEF PutInLap, Put
    <2> QED BY <2>1
  <1>2. CASE PutInNextLap(kind, len)
    <2>1. Put(0, CurFrmIndex, circlenum + 1, 0, TailCleared, kind, len)
      BY <1>2 DEF PutInNextLap, Put
    <2> QED BY <2>1
  <1> QED BY <1>1, <1>2 DEF PutOneFrame

LEMMA PutTypeOK ==
  ASSUME TypeOK, NEW i, NEW total, NEW lap, NEW pos, NEW bytes, NEW kind, NEW len,
         Put(i, total, lap, pos, bytes, kind, len)
  PROVE  TypeOK'
  <1> PICK f : f = Written(lap, pos, kind, len)
    OBVIOUS
  <1>1. /\ i \in 0..(MaxFrm - 1) /\ total \in 0..MaxFrm /\ lap \in Nat /\ f \in Frame
        /\ pos \in 0..BufferSize /\ len \in 1..BufferSize /\ pos + len <= BufferSize
        /\ FrmList' = [FrmList EXCEPT ![i] = f]
        /\ mem' = [c \in Units |-> IF c \in Span(f) THEN f.seq ELSE bytes[c]]
        /\ UNCHANGED userVars
        /\ \/ /\ i + 1 = MaxFrm /\ TotalFrm' = i + 1 /\ CurFrmIndex' = 0
              /\ circlenum' = lap + 1 /\ writepos' = 0
           \/ /\ i + 1 < MaxFrm /\ CurFrmIndex' = i + 1 /\ circlenum' = lap
              /\ TotalFrm' = (IF i + 1 > total THEN i + 1 ELSE total)
              /\ writepos' = pos + len
    BY PutEffect
  <1>2. FrmList' \in [0..(MaxFrm - 1) -> Frame \cup {Blank}]
    BY <1>1 DEF TypeOK
  <1>3. /\ CurFrmIndex' \in 0..(MaxFrm - 1) /\ TotalFrm' \in 0..MaxFrm
        /\ circlenum' \in Nat /\ writepos' \in 0..BufferSize
    <2>1. MaxFrm \in Nat \ {0} /\ BufferSize \in Nat
      BY PoolAssumption
    <2> QED BY <1>1, <2>1
  <1>4. \A c \in Units : bytes[c] \in Nat
    <2>1. bytes = mem \/ bytes = TailCleared
      BY DEF Put
    <2>2. mem \in [Units -> Nat] /\ TailCleared \in [Units -> Nat]
      BY DEF TypeOK, TailCleared
    <2> QED BY <2>1, <2>2
  <1>5. mem' \in [Units -> Nat]
    BY <1>1, <1>4, FrameFields
  <1>6. published' \in Nat /\ sinceKey' \in Nat
    BY DEF TypeOK, Put, Store
  <1>7. /\ IFrmList' \in [0..(MaxIFrm - 1) -> 0..(MaxFrm - 1)]
        /\ IFrmIndex' \in 0..(MaxIFrm - 1) /\ TotalIFrm' \in 0..MaxIFrm
        /\ ICurIndex' \in 0..(MaxFrm - 1)
    <2>1. CASE kind = "I"
      <3>1. NoteIFrame(i)
        BY <2>1 DEF Put, Store
      <3>2. (IFrmIndex + 1) % MaxIFrm \in 0..(MaxIFrm - 1)
        BY PoolAssumption, ModRange DEF TypeOK
      <3> QED BY <1>1, <3>1, <3>2, PoolAssumption DEF NoteIFrame, TypeOK
    <2>2. CASE kind # "I"
      BY <2>2 DEF Put, Store, TypeOK
    <2> QED BY <2>1, <2>2
  <1>8. /\ ReadFrmIndex' \in [Users -> 0..(IndexMod - 1)]
        /\ ReadCircleNum' \in [Users -> Int]
        /\ held' \in [Users -> Frame \cup {Blank, NoFrame}]
        /\ attached' \in SUBSET Users
        /\ last' \in [Users -> Nat]
    BY <1>1 DEF userVars, TypeOK
  <1> QED BY <1>2, <1>3, <1>5, <1>6, <1>7, <1>8 DEF TypeOK

LEMMA PutKeepsIInv ==
  ASSUME IInv, NEW i, NEW total, NEW lap, NEW pos, NEW bytes, NEW kind, NEW len,
         Put(i, total, lap, pos, bytes, kind, len)
  PROVE  IInv'
  <1> USE DEF IInv
  <1> PICK f : f = Written(lap, pos, kind, len)
    OBVIOUS
  <1>1. TypeOK'
    BY PutTypeOK
  <1>2. /\ i \in 0..(MaxFrm - 1) /\ total \in 0..MaxFrm /\ lap \in Nat
        /\ f \in Frame /\ f.pos = pos /\ f.len = len /\ f.lap = lap
        /\ pos \in 0..BufferSize /\ len \in 1..BufferSize /\ pos + len <= BufferSize
        /\ FrmList' = [FrmList EXCEPT ![i] = f]
        /\ Intact(f)'
        /\ UNCHANGED userVars
        /\ \/ /\ i + 1 = MaxFrm /\ TotalFrm' = i + 1 /\ CurFrmIndex' = 0
              /\ circlenum' = lap + 1 /\ writepos' = 0
           \/ /\ i + 1 < MaxFrm /\ CurFrmIndex' = i + 1 /\ circlenum' = lap
              /\ TotalFrm' = (IF i + 1 > total THEN i + 1 ELSE total)
              /\ writepos' = pos + len
    BY PutEffect
  <1>3. /\ CurFrmIndex \in 0..(MaxFrm - 1) /\ TotalFrm \in 0..MaxFrm
        /\ circlenum \in Nat /\ MaxFrm \in Nat \ {0}
        /\ FrmList \in [0..(MaxFrm - 1) -> Frame \cup {Blank}]
        /\ ICurIndex \in 0..(MaxFrm - 1)
    BY PoolAssumption DEF TypeOK
  <1>4. \/ i = CurFrmIndex /\ total = TotalFrm /\ lap = circlenum
        \/ i = 0 /\ total = CurFrmIndex /\ lap = circlenum + 1
    BY DEF Put
  <1>5. \A j \in 0..(MaxFrm - 1) : FrmList'[j] = IF j = i THEN f ELSE FrmList[j]
    BY <1>2, <1>3
  <1>6. SlotLaps'
    <2>1. \A j \in 0..(CurFrmIndex' - 1) :
            FrmList'[j] \in Frame /\ FrmList'[j].lap = circlenum'
      BY <1>2, <1>3, <1>4, <1>5 DEF SlotLaps
    <2>2. \A j \in CurFrmIndex'..(TotalFrm' - 1) :
            FrmList'[j] \in Frame /\ FrmList'[j].lap + 1 = circlenum'
      BY SMTT(30), <1>2, <1>3, <1>4, <1>5 DEF SlotLaps
    <2> QED BY <2>1, <2>2 DEF SlotLaps
  <1>7. Sound(f)'
    BY <1>2 DEF Sound
  <1>8. SlotsSound'
    <2> SUFFICES ASSUME NEW j \in 0..(MaxFrm - 1), FrmList'[j] \in Frame
                 PROVE  Sound(FrmList[j])'
      BY DEF SlotsSound
    <2>1. CASE j = i
      BY <2>1, <1>5, <1>7
    <2>2. CASE j # i
      <3> PICK g : g = FrmList[j]
        OBVIOUS
      <3>1. FrmList'[j] = g /\ g \in Frame /\ Sound(g)
        BY <2>2, <1>5 DEF SlotsSound
      <3>2. Sound(g)'
        BY <3>1, PutKeepsSound
      <3> QED BY <3>1, <3>2
    <2> QED BY <2>1, <2>2
  <1>9. HeldSound'
    <2> SUFFICES ASSUME NEW u \in Users, held'[u] \in Frame
                 PROVE  Sound(held[u])'
      BY DEF HeldSound
    <2> PICK g : g = held[u]
      OBVIOUS
    <2>1. held'[u] = g /\ g \in Frame /\ Sound(g)
      BY <1>2 DEF HeldSound, userVars
    <2>2. Sound(g)'
      BY <2>1, PutKeepsSound
    <2> QED BY <2>1, <2>2
  <1>10. ReadLapBounded'
    <2>1. circlenum' \in Nat /\ circlenum' >= circlenum
      BY <1>2, <1>3, <1>4
    <2> QED BY <1>2, <1>3, <2>1 DEF ReadLapBounded, userVars
  <1>11. KeyBehind'
    <2> SUFFICES ASSUME circlenum' = 0 PROVE ICurIndex' <= CurFrmIndex'
      BY DEF KeyBehind
    <2>1. circlenum = 0 /\ i = CurFrmIndex /\ CurFrmIndex' = CurFrmIndex + 1
      BY <1>2, <1>3, <1>4
    <2>2. ICurIndex' = i \/ ICurIndex' = ICurIndex
      BY DEF Put, Store, NoteIFrame
    <2> QED BY <1>3, <2>1, <2>2 DEF KeyBehind
  <1> QED BY <1>1, <1>6, <1>8, <1>9, <1>10, <1>11

-----------------------------------------------------------------------------
(* The readers.                                                            *)

LEMMA EntryKind ==
  ASSUME TypeOK, SlotsSound, NEW i \in Nat
  PROVE  /\ Entry(i) \in Frame \cup {Blank}
         /\ Entry(i) \in Frame => Sound(Entry(i))
  <1>1. CASE i < MaxFrm
    <2>1. i \in 0..(MaxFrm - 1)
      BY <1>1, PoolAssumption
    <2> QED BY <1>1, <2>1 DEF Entry, TypeOK, SlotsSound
  <1>2. CASE ~(i < MaxFrm)
    BY <1>2, BlankNotFrame DEF Entry
  <1> QED BY <1>1, <1>2

LEMMA CursorRange ==
  ASSUME TypeOK, ReadLapBounded, NEW u \in Users
  PROVE  /\ ReadFrmIndex[u] \in Nat /\ ReadFrmIndex[u] < IndexMod
         /\ Idx(u) \in Nat /\ Idx(u) < IndexMod
         /\ ReadCircleNum[u] \in 0..circlenum /\ Lap(u) \in 0..circlenum
         /\ circlenum \in Nat
  <1>1. ReadFrmIndex[u] \in 0..(IndexMod - 1) /\ circlenum \in Nat
    BY DEF TypeOK
  <1>2. ReadCircleNum[u] \in 0..circlenum
    BY DEF ReadLapBounded
  <1> QED BY <1>1, <1>2, PoolAssumption DEF Idx, Lap

\* A step that leaves the pool alone keeps what is known of every frame.
LEMMA PoolUnchanged ==
  ASSUME IInv, UNCHANGED poolVars
  PROVE  /\ SlotLaps' /\ SlotsSound' /\ KeyBehind'
         /\ \A f : Sound(f) => Sound(f)'
         /\ circlenum' = circlenum
  <1> USE DEF IInv, poolVars
  <1>1. SlotLaps' /\ KeyBehind' /\ circlenum' = circlenum
    BY DEF SlotLaps, KeyBehind
  <1>2. \A f : Sound(f) => Sound(f)'
    BY DEF Sound, Intact
  <1>3. SlotsSound'
    BY <1>2 DEF SlotsSound, Sound, Intact
  <1> QED BY <1>1, <1>2, <1>3

\* A reader's step is right when it leaves the pool alone, a descriptor it
\* holds is a sound one, and its cursor is in a lap that has begun.
LEMMA ReaderStep ==
  ASSUME IInv, UNCHANGED poolVars,
         held' \in [Users -> Frame \cup {Blank, NoFrame}],
         \A u \in Users : held'[u] \in Frame => Sound(held'[u]),
         ReadFrmIndex' \in [Users -> 0..(IndexMod - 1)],
         ReadCircleNum' \in [Users -> Int],
         \A u \in Users : ReadCircleNum'[u] \in 0..circlenum,
         attached' \in SUBSET Users,
         last' \in [Users -> Nat]
  PROVE  IInv'
  <1> USE DEF IInv
  <1>1. TypeOK'
    BY DEF TypeOK, poolVars
  <1>2. /\ SlotLaps' /\ SlotsSound' /\ KeyBehind' /\ circlenum' = circlenum
        /\ \A f : Sound(f) => Sound(f)'
    BY PoolUnchanged
  <1>3. HeldSound'
    <2> SUFFICES ASSUME NEW u \in Users, held'[u] \in Frame
                 PROVE  Sound(held[u])'
      BY DEF HeldSound
    <2> PICK g : g = held'[u]
      OBVIOUS
    <2>1. Sound(g)'
      BY <1>2
    <2> QED BY <2>1
  <1>4. ReadLapBounded'
    BY <1>2 DEF ReadLapBounded
  <1> QED BY <1>1, <1>2, <1>3, <1>4

LEMMA GetKeepsIInv ==
  ASSUME IInv, NEW u \in Users, GetOneFrameFromBuffer(u)
  PROVE  IInv'
  <1> USE DEF IInv
  <1>1. /\ Idx(u) \in Nat /\ Idx(u) < IndexMod /\ Lap(u) \in 0..circlenum
        /\ \A v \in Users : ReadCircleNum[v] \in 0..circlenum
    BY CursorRange DEF ReadLapBounded
  <1>2. /\ circlenum \in Nat /\ ICurIndex \in 0..(MaxFrm - 1)
        /\ MaxFrm \in Nat \ {0} /\ IndexMod \in Nat /\ MaxFrm < IndexMod
    BY PoolAssumption DEF TypeOK
  <1>3. /\ ReadFrmIndex \in [Users -> 0..(IndexMod - 1)]
        /\ ReadCircleNum \in [Users -> Int]
        /\ held \in [Users -> Frame \cup {Blank, NoFrame}]
        /\ attached \in SUBSET Users
        /\ last \in [Users -> Nat]
        /\ \A v \in Users : held[v] \in Frame => Sound(held[v])
    BY DEF TypeOK, HeldSound
  <1>4. CASE GetNoData(u)
    <2>1. /\ UNCHANGED <<held, attached, last>> /\ UNCHANGED poolVars
          /\ ReadFrmIndex' = [ReadFrmIndex EXCEPT ![u] = Idx(u)]
          /\ ReadCircleNum' = [ReadCircleNum EXCEPT ![u] = Lap(u)]
      BY <1>4 DEF GetNoData
    <2> QED BY <1>1, <1>2, <1>3, <2>1, ReaderStep
  <1>5. CASE GetOvertaken(u)
    <2>1. /\ UNCHANGED <<held, attached>> /\ UNCHANGED poolVars
          /\ ReadFrmIndex' = [ReadFrmIndex EXCEPT ![u] = ICurIndex]
          /\ ReadCircleNum' = [ReadCircleNum EXCEPT ![u] = circlenum]
          /\ last' = [last EXCEPT ![u] = 0]
      BY <1>5 DEF GetOvertaken
    <2> QED BY <1>1, <1>2, <1>3, <2>1, ReaderStep
  <1>6. CASE GetFrame(u)
    <2> PICK e : e = Entry(Idx(u))
      OBVIOUS
    <2>1. (e \in Frame \cup {Blank}) /\ (e \in Frame => Sound(e))
      BY <1>1, EntryKind
    <2>2. e.seq \in Nat
      BY <2>1, FrameFields DEF Blank
    <2>3. /\ UNCHANGED attached /\ UNCHANGED poolVars
          /\ held' = [held EXCEPT ![u] = e]
          /\ ReadFrmIndex' = [ReadFrmIndex EXCEPT ![u] = (Idx(u) + 1) % IndexMod]
          /\ ReadCircleNum' = [ReadCircleNum EXCEPT ![u] = Lap(u)]
          /\ last' = [last EXCEPT ![u] = IF Ahead(u) THEN 0 ELSE e.seq]
      BY <1>6 DEF GetFrame
    <2>4. (Idx(u) + 1) % IndexMod \in 0..(IndexMod - 1)
      <3>1. Idx(u) + 1 \in Nat /\ IndexMod \in Nat \ {0}
        BY <1>1, <1>2
      <3> QED BY <3>1, ModRange
    <2>5. /\ held' \in [Users -> Frame \cup {Blank, NoFrame}]
          /\ \A v \in Users : held'[v] \in Frame => Sound(held'[v])
      BY <1>3, <2>1, <2>3
    <2>6. /\ ReadFrmIndex' \in [Users -> 0..(IndexMod - 1)]
          /\ ReadCircleNum' \in [Users -> Int]
          /\ \A v \in Users : ReadCircleNum'[v] \in 0..circlenum
      BY <1>1, <1>2, <1>3, <2>3, <2>4
    <2>7. /\ attached' \in SUBSET Users
          /\ last' \in [Users -> Nat]
      BY <1>3, <2>2, <2>3
    <2> QED BY <2>3, <2>5, <2>6, <2>7, ReaderStep
  <1> QED BY <1>4, <1>5, <1>6 DEF GetOneFrameFromBuffer

LEMMA ReleaseKeepsIInv ==
  ASSUME IInv, NEW u \in Users, Release(u)
  PROVE  IInv'
  <1> USE DEF IInv
  <1>1. /\ ReadFrmIndex \in [Users -> 0..(IndexMod - 1)]
        /\ ReadCircleNum \in [Users -> Int]
        /\ held \in [Users -> Frame \cup {Blank, NoFrame}]
        /\ attached \in SUBSET Users
        /\ last \in [Users -> Nat]
        /\ \A v \in Users : held[v] \in Frame => Sound(held[v])
        /\ \A v \in Users : ReadCircleNum[v] \in 0..circlenum
    BY DEF TypeOK, HeldSound, ReadLapBounded
  <1>2. /\ held' = [held EXCEPT ![u] = NoFrame] /\ UNCHANGED poolVars
        /\ UNCHANGED <<ReadFrmIndex, ReadCircleNum, attached, last>>
    BY DEF Release
  <1>3. /\ held' \in [Users -> Frame \cup {Blank, NoFrame}]
        /\ \A v \in Users : held'[v] \in Frame => Sound(held'[v])
    BY <1>1, <1>2, BlankNotFrame
  <1> QED BY <1>1, <1>2, <1>3, ReaderStep

LEMMA ResetKeepsIInv ==
  ASSUME IInv, NEW u \in Users, ResetUserData2IFrame(u)
  PROVE  IInv'
  <1> USE DEF IInv
  <1>1. /\ ReadFrmIndex \in [Users -> 0..(IndexMod - 1)]
        /\ ReadCircleNum \in [Users -> Int]
        /\ held \in [Users -> Frame \cup {Blank, NoFrame}]
        /\ attached \in SUBSET Users
        /\ last \in [Users -> Nat]
        /\ \A v \in Users : held[v] \in Frame => Sound(held[v])
        /\ \A v \in Users : ReadCircleNum[v] \in 0..circlenum
        /\ circlenum \in Nat /\ ICurIndex \in 0..(MaxFrm - 1)
        /\ CurFrmIndex \in 0..(MaxFrm - 1)
    BY DEF TypeOK, HeldSound, ReadLapBounded
  <1>2. /\ UNCHANGED held /\ UNCHANGED poolVars
       
    BY <1>1 DEF ResetUserData2IFrame
  <1>3. CASE u = LocalRecId
    <2>1. UNCHANGED <<ReadFrmIndex, ReadCircleNum, attached, last>>
      BY <1>3 DEF ResetUserData2IFrame
    <2> QED BY <1>1, <1>2, <2>1, ReaderStep
  <1>4. CASE u # LocalRecId
    <2>1. ResetUserInfo(u) /\ attached' = attached \cup {u}
          /\ last' = [last EXCEPT ![u] = 0]
      BY <1>4 DEF ResetUserData2IFrame
    <2>2. MaxFrm \in Nat \ {0} /\ IndexMod \in Nat /\ MaxFrm < IndexMod
      BY PoolAssumption
    <2>3. ReadFrmIndex' \in [Users -> 0..(IndexMod - 1)]
      BY <1>1, <2>1, <2>2 DEF ResetUserInfo
    <2>4. (IF ICurIndex <= CurFrmIndex THEN circlenum ELSE circlenum - 1) \in 0..circlenum
      BY <1>1 DEF KeyBehind
    <2>5. /\ ReadCircleNum' \in [Users -> Int]
          /\ \A v \in Users : ReadCircleNum'[v] \in 0..circlenum
      BY <1>1, <2>1, <2>4 DEF ResetUserInfo
    <2> QED BY <1>1, <1>2, <2>1, <2>3, <2>5, ReaderStep
  <1> QED BY <1>3, <1>4

-----------------------------------------------------------------------------
(* The theorems.                                                           *)

LEMMA InitIInv == Init => IInv
  <1> SUFFICES ASSUME Init PROVE IInv
    OBVIOUS
  <1> USE DEF Init
  <1>1. TypeOK
    BY PoolAssumption, UserAssumption DEF TypeOK
  <1>2. SlotLaps /\ ReadLapBounded /\ KeyBehind
    BY DEF SlotLaps, ReadLapBounded, KeyBehind
  <1>3. SlotsSound /\ HeldSound
    BY BlankNotFrame DEF SlotsSound, HeldSound
  <1> QED BY <1>1, <1>2, <1>3 DEF IInv

LEMMA NextIInv == IInv /\ [Next]_vars => IInv'
  <1> SUFFICES ASSUME IInv, [Next]_vars PROVE IInv'
    OBVIOUS
  <1>1. ASSUME NEW kind \in Kinds, NEW len \in FrameLens, PutOneFrame(kind, len)
        PROVE  IInv'
    BY <1>1, PutForm, PutKeepsIInv
  <1>2. ASSUME NEW u \in Users, GetOneFrameFromBuffer(u)
        PROVE  IInv'
    BY <1>2, GetKeepsIInv
  <1>3. ASSUME NEW u \in Users, Release(u)
        PROVE  IInv'
    BY <1>3, ReleaseKeepsIInv
  <1>4. ASSUME NEW u \in Users, ResetUserData2IFrame(u)
        PROVE  IInv'
    BY <1>4, ResetKeepsIInv
  <1>5. CASE UNCHANGED vars
    BY <1>5 DEF IInv, vars, poolVars, userVars, TypeOK, SlotLaps, SlotsSound,
                HeldSound, ReadLapBounded, KeyBehind, Sound, Intact
  <1> QED BY <1>1, <1>2, <1>3, <1>4, <1>5 DEF Next

LEMMA Invariant == Spec => []IInv
  BY InitIInv, NextIInv, PTL DEF Spec

\* Types, and with them every array access of the pool's own indices: the
\* descriptor list, the I frame list and the write position stay in range
\* (PutOneVFrameToBuffer, PutOneAFrameToBuffer), for all sizes.
THEOREM TypeCorrect == Spec => []TypeOK
  <1>1. IInv => TypeOK
    BY DEF IInv
  <1> QED BY <1>1, Invariant, PTL

\* The unsigned lap of a cursor never goes below zero nor past the writer's
\* (ResetUserInfo, GetOneFrameFromBuffer).
THEOREM LapsBounded == Spec => []ReadLapBounded
  <1>1. IInv => ReadLapBounded
    BY DEF IInv
  <1> QED BY <1>1, Invariant, PTL

\* The list of descriptors and the bytes agree, for any sequence of frame
\* lengths: whole frames below CurFrmIndex, and of the lap before, every frame
\* that starts at or above writepos.
THEOREM ListMatchesBytes == Spec => []LapsIntact
  <1>1. IInv => LapsIntact
    <2> SUFFICES ASSUME IInv PROVE LapsIntact
      OBVIOUS
    <2>1. /\ CurFrmIndex \in 0..(MaxFrm - 1) /\ TotalFrm \in 0..MaxFrm
          /\ circlenum \in Nat /\ MaxFrm \in Nat \ {0} /\ writepos \in Nat
      BY PoolAssumption DEF IInv, TypeOK
    <2>2. CurLapIntact
      <3> SUFFICES ASSUME NEW i \in 0..(CurFrmIndex - 1)
                   PROVE  /\ FrmList[i].lap = circlenum
                          /\ FrmList[i].pos + FrmList[i].len <= writepos
                          /\ Intact(FrmList[i])
        BY DEF CurLapIntact
      <3>1. i \in 0..(MaxFrm - 1)
        BY <2>1
      <3>2. FrmList[i] \in Frame /\ FrmList[i].lap = circlenum /\ Sound(FrmList[i])
        BY <3>1 DEF IInv, SlotLaps, SlotsSound
      <3> QED BY <2>1, <3>2 DEF Sound
    <2>3. PrevLapIntact
      <3> SUFFICES ASSUME NEW i \in CurFrmIndex..(TotalFrm - 1)
                   PROVE  /\ FrmList[i].lap = circlenum - 1
                          /\ FrmList[i].pos >= writepos => Intact(FrmList[i])
        BY DEF PrevLapIntact
      <3>1. i \in 0..(MaxFrm - 1)
        BY <2>1
      <3>2. FrmList[i] \in Frame /\ FrmList[i].lap + 1 = circlenum /\ Sound(FrmList[i])
        BY <3>1 DEF IInv, SlotLaps, SlotsSound
      <3>3. FrmList[i].lap \in Nat /\ FrmList[i].pos \in Nat
        BY <3>2, FrameFields, PoolAssumption
      <3> QED BY <2>1, <3>2, <3>3 DEF Sound
    <2> QED BY <2>2, <2>3 DEF LapsIntact
  <1> QED BY <1>1, Invariant, PTL

\* A reader may use the pointer after the mutex is released: the frame is whole
\* until the writer has come round and gone past its start.
THEOREM PointerLifetime == Spec => []PointerValidForALap
  <1>1. IInv => PointerValidForALap
    <2> SUFFICES ASSUME IInv, NEW u \in Users, held[u] \in Frame
                 PROVE  \/ Intact(held[u])
                        \/ circlenum = held[u].lap + 1 /\ held[u].pos < writepos
                        \/ circlenum > held[u].lap + 1
      BY DEF PointerValidForALap
    <2>1. Sound(held[u]) /\ circlenum \in Nat /\ held[u].lap \in Nat
      BY FrameFields DEF IInv, HeldSound, TypeOK
    <2> QED BY <2>1 DEF Sound
  <1> QED BY <1>1, Invariant, PTL

\* GetOneFrameFromBuffer hands a cursor that is not ahead of the writer a frame
\* whose bytes are the ones described.
THEOREM InStepReads == Spec => InStepDelivery
  <1>1. IInv /\ [Next]_vars =>
          [\A u \in Users : Delivers(u) /\ ~Ahead(u) => Intact(held'[u])]_vars
    <2> SUFFICES ASSUME IInv, [Next]_vars, ~UNCHANGED vars,
                        NEW u \in Users, Delivers(u), ~Ahead(u)
                 PROVE  Intact(held'[u])
      OBVIOUS
    <2>1. held \in [Users -> Frame \cup {Blank, NoFrame}]
      BY DEF IInv, TypeOK
    <2>2. GetFrame(u)
      <3>1. ASSUME NEW kind \in Kinds, NEW len \in FrameLens, PutOneFrame(kind, len)
            PROVE  FALSE
        BY <3>1 DEF PutOneFrame, PutInLap, PutInNextLap, Store, userVars, Delivers
      <3>2. ASSUME NEW v \in Users, GetNoData(v) \/ GetOvertaken(v)
            PROVE  FALSE
        BY <3>2 DEF GetNoData, GetOvertaken, Delivers
      <3>3. ASSUME NEW v \in Users, GetFrame(v)
            PROVE  v = u
        BY <2>1, <3>3 DEF GetFrame, Delivers
      <3>4. ASSUME NEW v \in Users, Release(v)
            PROVE  FALSE
        BY <2>1, <3>4 DEF Release, Delivers
      <3>5. ASSUME NEW v \in Users, ResetUserData2IFrame(v)
            PROVE  FALSE
        BY <3>5 DEF ResetUserData2IFrame, Delivers
      <3> QED BY <3>1, <3>2, <3>3, <3>4, <3>5 DEF Next, GetOneFrameFromBuffer
    <2>3. held'[u] = Entry(Idx(u)) /\ ~CaughtUp(u) /\ ~Overtaken(u)
      BY <2>1, <2>2 DEF GetFrame
    <2>4. /\ ReadFrmIndex[u] \in Nat /\ Idx(u) \in Nat
          /\ ReadCircleNum[u] \in 0..circlenum /\ Lap(u) \in 0..circlenum
          /\ circlenum \in Nat
      BY CursorRange DEF IInv
    <2>5. /\ CurFrmIndex \in 0..(MaxFrm - 1) /\ TotalFrm \in 0..MaxFrm
          /\ MaxFrm \in Nat \ {0} /\ writepos \in Nat
      BY PoolAssumption DEF IInv, TypeOK
    <2>6. circlenum - Lap(u) \in {0, 1}
      BY <2>3, <2>4 DEF Overtaken
    <2>7. CASE Lap(u) = circlenum
      <3>1. Idx(u) \in 0..(CurFrmIndex - 1)
        BY <2>3, <2>4, <2>5, <2>7 DEF CaughtUp, Ahead, Idx, Lap
      <3>2. Idx(u) \in 0..(MaxFrm - 1) /\ Entry(Idx(u)) = FrmList[Idx(u)]
        BY <2>5, <3>1 DEF Entry
      <3>3. /\ FrmList[Idx(u)] \in Frame /\ FrmList[Idx(u)].lap = circlenum
            /\ Sound(FrmList[Idx(u)])
        BY <3>1, <3>2 DEF IInv, SlotLaps, SlotsSound
      <3> QED BY <2>3, <2>4, <3>2, <3>3 DEF Sound
    <2>8. CASE circlenum - Lap(u) = 1
      <3>1. Idx(u) = ReadFrmIndex[u] /\ ReadFrmIndex[u] < TotalFrm
        BY <2>4, <2>5, <2>8 DEF Idx, Lap, OffLapEnd
      <3>2. Idx(u) \in 0..(MaxFrm - 1) /\ Entry(Idx(u)) = FrmList[Idx(u)]
        BY <2>4, <2>5, <3>1 DEF Entry
      <3>3. ~(FrmList[Idx(u)].pos < writepos)
        BY <2>3, <2>8, <3>2 DEF Overtaken
      <3>4. ASSUME Idx(u) < CurFrmIndex PROVE FALSE
        <4>1. /\ FrmList[Idx(u)] \in Frame /\ FrmList[Idx(u)].lap = circlenum
              /\ Sound(FrmList[Idx(u)])
          BY <2>4, <2>5, <3>2, <3>4 DEF IInv, SlotLaps, SlotsSound
        <4>2. FrmList[Idx(u)].pos \in Nat /\ FrmList[Idx(u)].len \in Nat \ {0}
          BY <4>1, FrameFields, PoolAssumption
        <4> QED BY <2>4, <2>5, <3>3, <4>1, <4>2 DEF Sound
      <3>5. Idx(u) \in CurFrmIndex..(TotalFrm - 1)
        BY <2>4, <2>5, <3>1, <3>4
      <3>6. /\ FrmList[Idx(u)] \in Frame /\ FrmList[Idx(u)].lap + 1 = circlenum
            /\ Sound(FrmList[Idx(u)])
        BY <3>2, <3>5 DEF IInv, SlotLaps, SlotsSound
      <3> QED BY <2>3, <2>4, <3>2, <3>3, <3>6 DEF Sound
    <2> QED BY <2>4, <2>6, <2>7, <2>8
  <1> QED BY <1>1, Invariant, PTL DEF Spec, InStepDelivery
=============================================================================
