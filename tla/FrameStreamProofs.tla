------------------------- MODULE FrameStreamProofs -------------------------
(***************************************************************************)
(* The frame pool implements FrameStream, for every pool size, list        *)
(* length, frame length and number of readers.                             *)
(*                                                                         *)
(* The invariant of FrameBufferProofs is about laps and bytes; here the    *)
(* frames' numbers are added.  Numbered gives the number of every frame    *)
(* that is listed, Unlisted says that the others are gone, and Placed      *)
(* ties what a reader got last to where its cursor stands.                 *)
(***************************************************************************)
EXTENDS FrameBufferProofs

Numbered ==
  /\ \A i \in 0..(CurFrmIndex - 1) :
       FrmList[i].seq = published - CurFrmIndex + i + 1
  /\ \A i \in CurFrmIndex..(TotalFrm - 1) :
       FrmList[i].seq = published - CurFrmIndex - TotalFrm + i + 1
  /\ \A i \in 0..(MaxFrm - 1) : FrmList[i].seq <= published
  /\ CurFrmIndex <= TotalFrm
  /\ CurFrmIndex = 0 => writepos = 0

\* The bytes below writepos are the current lap's.
Fresh == \A c \in Units : c < writepos => mem[c] > published - CurFrmIndex

Unlisted == \A i \in 0..(MaxFrm - 1) : i >= TotalFrm => ~Intact(FrmList[i])

\* All of the lap before is later than what the reader got, or it is about to
\* be overwritten.
Missed(u) ==
  /\ last[u] < published - CurFrmIndex
  /\ CurFrmIndex < TotalFrm => last[u] <= published - CurFrmIndex - TotalFrm

\* Where the cursor stands when its reader has got last[u].
PlacedInLap(u) ==
  /\ ReadCircleNum[u] = circlenum /\ ReadFrmIndex[u] <= CurFrmIndex
  /\ \/ last[u] = published - CurFrmIndex + ReadFrmIndex[u]
     \/ ReadFrmIndex[u] = 0 /\ Missed(u)

PlacedInLapBefore(u) ==
  /\ ReadCircleNum[u] + 1 = circlenum /\ ReadFrmIndex[u] <= TotalFrm
  /\ last[u] <= published - CurFrmIndex
  /\ (CurFrmIndex < TotalFrm \/ ReadFrmIndex[u] = TotalFrm) =>
       \/ last[u] = published - CurFrmIndex - TotalFrm + ReadFrmIndex[u]
       \/ /\ ReadFrmIndex[u] = 0 /\ 0 < TotalFrm
          /\ last[u] < published - CurFrmIndex - TotalFrm

PlacedLongAgo(u) == ReadCircleNum[u] + 1 < circlenum /\ Missed(u)

Placed(u) == PlacedInLap(u) \/ PlacedInLapBefore(u) \/ PlacedLongAgo(u)

ReadersPlaced == \A u \in Users : last[u] # 0 => Placed(u)

SInv == IInv /\ Numbered /\ Fresh /\ Unlisted /\ ReadersPlaced

-----------------------------------------------------------------------------
(* What is kept.                                                           *)

LEMMA InKept ==
  ASSUME NEW n
  PROVE  n \in Kept <=> \E i \in 0..(MaxFrm - 1) : Intact(FrmList[i]) /\ FrmList[i].seq = n
  BY DEF Kept

LEMMA Counters ==
  ASSUME TypeOK
  PROVE  /\ CurFrmIndex \in 0..(MaxFrm - 1) /\ TotalFrm \in 0..MaxFrm
         /\ circlenum \in Nat /\ MaxFrm \in Nat \ {0} /\ IndexMod \in Nat
         /\ MaxFrm < IndexMod /\ BufferSize \in Nat /\ writepos \in 0..BufferSize
         /\ published \in Nat /\ last \in [Users -> Nat]
         /\ ReadFrmIndex \in [Users -> 0..(IndexMod - 1)]
         /\ ReadCircleNum \in [Users -> Int]
         /\ FrmList \in [0..(MaxFrm - 1) -> Frame \cup {Blank}]
         /\ mem \in [Units -> Nat]
  BY PoolAssumption DEF TypeOK

\* The first frame that is still listed bounds what is kept.
LEMMA KeptIsListed ==
  ASSUME SInv, NEW n \in Kept
  PROVE  IF CurFrmIndex < TotalFrm THEN n >= published - TotalFrm + 1
         ELSE n >= published - CurFrmIndex + 1
  <1> USE DEF SInv
  <1>1. PICK i \in 0..(MaxFrm - 1) : Intact(FrmList[i]) /\ FrmList[i].seq = n
    BY InKept
  <1>2. /\ CurFrmIndex \in 0..(MaxFrm - 1) /\ TotalFrm \in 0..MaxFrm
        /\ MaxFrm \in Nat \ {0} /\ published \in Nat
    BY Counters DEF IInv
  <1>3. i < TotalFrm
    BY <1>1, <1>2 DEF Unlisted
  <1>4. CASE i < CurFrmIndex
    BY <1>1, <1>2, <1>4 DEF Numbered
  <1>5. CASE i >= CurFrmIndex
    BY <1>1, <1>2, <1>3, <1>5 DEF Numbered
  <1> QED BY <1>2, <1>4, <1>5

-----------------------------------------------------------------------------
(* A put.                                                                  *)

\* The facts of a put that are used here.
LEMMA PutFacts ==
  ASSUME SInv, NEW i, NEW total, NEW lap, NEW pos, NEW bytes, NEW kind, NEW len,
         Put(i, total, lap, pos, bytes, kind, len),
         NEW f, f = Written(lap, pos, kind, len)
  PROVE  /\ i \in 0..(MaxFrm - 1)
         /\ f \in Frame /\ f.pos = pos /\ f.len = len /\ f.seq = published + 1
         /\ pos \in 0..BufferSize /\ len \in 1..BufferSize /\ pos + len <= BufferSize
         /\ published' = published + 1
         /\ UNCHANGED userVars
         /\ \A j \in 0..(MaxFrm - 1) : FrmList'[j] = IF j = i THEN f ELSE FrmList[j]
         /\ \A c \in Units : mem'[c] = IF c \in Span(f) THEN published + 1 ELSE bytes[c]
         /\ Intact(f)'
         /\ \/ /\ i = CurFrmIndex /\ CurFrmIndex + 1 = MaxFrm /\ bytes = mem
               /\ pos = writepos /\ TotalFrm' = MaxFrm /\ CurFrmIndex' = 0
               /\ circlenum' = circlenum + 1 /\ writepos' = 0
            \/ /\ i = CurFrmIndex /\ CurFrmIndex + 1 < MaxFrm /\ bytes = mem
               /\ pos = writepos /\ CurFrmIndex' = CurFrmIndex + 1
               /\ TotalFrm' = (IF CurFrmIndex + 1 > TotalFrm THEN CurFrmIndex + 1
                               ELSE TotalFrm)
               /\ circlenum' = circlenum /\ writepos' = writepos + len
            \/ /\ i = 0 /\ 0 < CurFrmIndex /\ 1 < MaxFrm /\ bytes = TailCleared
               /\ pos = 0 /\ CurFrmIndex' = 1 /\ TotalFrm' = CurFrmIndex
               /\ circlenum' = circlenum + 1 /\ writepos' = len
  <1> USE DEF SInv, IInv
  <1>1. /\ i \in 0..(MaxFrm - 1) /\ total \in 0..MaxFrm /\ lap \in Nat
        /\ f \in Frame /\ f.pos = pos /\ f.len = len /\ f.lap = lap
        /\ pos \in 0..BufferSize /\ len \in 1..BufferSize
        /\ pos + len <= BufferSize
        /\ FrmList' = [FrmList EXCEPT ![i] = f]
        /\ mem' = [c \in Units |-> IF c \in Span(f) THEN f.seq ELSE bytes[c]]
        /\ Intact(f)'
        /\ UNCHANGED userVars
        /\ \/ /\ i + 1 = MaxFrm /\ TotalFrm' = i + 1 /\ CurFrmIndex' = 0
              /\ circlenum' = lap + 1 /\ writepos' = 0
           \/ /\ i + 1 < MaxFrm /\ CurFrmIndex' = i + 1 /\ circlenum' = lap
              /\ TotalFrm' = (IF i + 1 > total THEN i + 1 ELSE total)
              /\ writepos' = pos + len
    BY PutEffect
  <1>2. /\ CurFrmIndex \in 0..(MaxFrm - 1) /\ TotalFrm \in 0..MaxFrm
        /\ MaxFrm \in Nat \ {0} /\ published \in Nat /\ circlenum \in Nat
        /\ BufferSize \in Nat /\ writepos \in 0..BufferSize
        /\ FrmList \in [0..(MaxFrm - 1) -> Frame \cup {Blank}]
    BY Counters
  <1>3. f.seq = published + 1
    BY DEF Written
  <1>4. published' = published + 1
    BY DEF Put, Store
  <1>5. \/ /\ i = CurFrmIndex /\ total = TotalFrm /\ lap = circlenum
           /\ pos = writepos /\ bytes = mem
        \/ /\ ~Fits(len) /\ i = 0 /\ total = CurFrmIndex /\ lap = circlenum + 1
           /\ pos = 0 /\ bytes = TailCleared
    BY DEF Put
  <1>6. ~Fits(len) => 0 < CurFrmIndex
    BY <1>1, <1>2 DEF Fits, Numbered
  <1>7. \A j \in 0..(MaxFrm - 1) : FrmList'[j] = IF j = i THEN f ELSE FrmList[j]
    BY <1>1, <1>2
  <1>8. \A c \in Units : mem'[c] = IF c \in Span(f) THEN published + 1 ELSE bytes[c]
    BY <1>1, <1>3
  <1>9. CASE i + 1 = MaxFrm
    BY <1>1, <1>2, <1>3, <1>4, <1>5, <1>6, <1>7, <1>8, <1>9
  <1>10. CASE i + 1 < MaxFrm
    BY SMTT(30), <1>1, <1>2, <1>3, <1>4, <1>5, <1>6, <1>7, <1>8, <1>10
  <1> QED BY <1>1, <1>2, <1>9, <1>10

\* What is overwritten stays so.
LEMMA PutDamages ==
  ASSUME SInv, NEW i, NEW total, NEW lap, NEW pos, NEW bytes, NEW kind, NEW len,
         Put(i, total, lap, pos, bytes, kind, len),
         NEW g \in Frame, g.seq <= published, Intact(g)', g.pos + g.len <= BufferSize
  PROVE  /\ Intact(g)
         /\ bytes = TailCleared => \A c \in Span(g) : c < writepos
  <1> PICK f : f = Written(lap, pos, kind, len)
    OBVIOUS
  <1>1. /\ \A c \in Units : mem'[c] = IF c \in Span(f) THEN published + 1 ELSE bytes[c]
        /\ bytes = mem \/ bytes = TailCleared
    BY PutFacts
  <1>2. /\ published \in Nat /\ BufferSize \in Nat /\ writepos \in 0..BufferSize
        /\ mem \in [Units -> Nat]
    BY Counters DEF SInv, IInv
  <1>3. g.pos \in Nat /\ g.len \in Nat \ {0} /\ g.seq \in Nat \ {0} /\ g # Blank
    BY FrameFields, PoolAssumption
  <1>4. ASSUME NEW c \in Span(g)
        PROVE  mem[c] = g.seq /\ (bytes = TailCleared => c < writepos)
    <2>1. c \in Units
      BY <1>2, <1>3, <1>4 DEF Span, Units
    <2>2. mem'[c] = g.seq
      BY <1>4 DEF Intact
    <2>3. bytes[c] = g.seq
      BY <1>1, <1>2, <1>3, <2>1, <2>2
    <2> QED BY <1>1, <1>2, <1>3, <2>1, <2>3 DEF TailCleared, Units
  <1> QED BY <1>3, <1>4 DEF Intact

LEMMA PutNumbered ==
  ASSUME SInv, NEW i, NEW total, NEW lap, NEW pos, NEW bytes, NEW kind, NEW len,
         Put(i, total, lap, pos, bytes, kind, len)
  PROVE  Numbered'
  <1> USE DEF SInv
  <1> PICK f : f = Written(lap, pos, kind, len)
    OBVIOUS
  <1>1. /\ i \in 0..(MaxFrm - 1) /\ f.seq = published + 1 /\ len \in 1..BufferSize
        /\ published' = published + 1
        /\ \A j \in 0..(MaxFrm - 1) : FrmList'[j] = IF j = i THEN f ELSE FrmList[j]
        /\ \/ /\ i = CurFrmIndex /\ CurFrmIndex + 1 = MaxFrm
              /\ TotalFrm' = MaxFrm /\ CurFrmIndex' = 0 /\ writepos' = 0
           \/ /\ i = CurFrmIndex /\ CurFrmIndex + 1 < MaxFrm
              /\ CurFrmIndex' = CurFrmIndex + 1
              /\ TotalFrm' = (IF CurFrmIndex + 1 > TotalFrm THEN CurFrmIndex + 1
                              ELSE TotalFrm)
           \/ /\ i = 0 /\ 0 < CurFrmIndex /\ 1 < MaxFrm
              /\ CurFrmIndex' = 1 /\ TotalFrm' = CurFrmIndex
    BY PutFacts
  <1>2. /\ CurFrmIndex \in 0..(MaxFrm - 1) /\ TotalFrm \in 0..MaxFrm
        /\ MaxFrm \in Nat \ {0} /\ published \in Nat
    BY Counters DEF IInv
  <1>3. /\ \A j \in 0..(CurFrmIndex - 1) :
             FrmList[j].seq = published - CurFrmIndex + j + 1
        /\ \A j \in CurFrmIndex..(TotalFrm - 1) :
             FrmList[j].seq = published - CurFrmIndex - TotalFrm + j + 1
        /\ \A j \in 0..(MaxFrm - 1) : FrmList[j].seq <= published
        /\ CurFrmIndex <= TotalFrm
    BY DEF Numbered
  <1>4. \A j \in 0..(CurFrmIndex' - 1) :
          FrmList'[j].seq = published' - CurFrmIndex' + j + 1
    BY <1>1, <1>2, <1>3
  <1>5. \A j \in CurFrmIndex'..(TotalFrm' - 1) :
          FrmList'[j].seq = published' - CurFrmIndex' - TotalFrm' + j + 1
    BY <1>1, <1>2, <1>3
  <1>6. \A j \in 0..(MaxFrm - 1) : FrmList'[j].seq <= published'
    <2>1. ASSUME NEW j \in 0..(MaxFrm - 1) PROVE FrmList[j].seq \in Nat
      <3>1. FrmList[j] \in Frame \cup {Blank}
        BY <2>1 DEF IInv, TypeOK
      <3> QED BY <3>1, FrameFields DEF Blank
    <2> QED BY <1>1, <1>2, <1>3, <2>1
  <1>7. CurFrmIndex' <= TotalFrm' /\ (CurFrmIndex' = 0 => writepos' = 0)
    BY <1>1, <1>2, <1>3
  <1> QED BY <1>4, <1>5, <1>6, <1>7 DEF Numbered

LEMMA PutFresh ==
  ASSUME SInv, NEW i, NEW total, NEW lap, NEW pos, NEW bytes, NEW kind, NEW len,
         Put(i, total, lap, pos, bytes, kind, len)
  PROVE  Fresh'
  <1> PICK f : f = Written(lap, pos, kind, len)
    OBVIOUS
  <1>1. /\ f.pos = pos /\ f.len = len /\ len \in 1..BufferSize
        /\ published' = published + 1
        /\ \A c \in Units : mem'[c] = IF c \in Span(f) THEN published + 1 ELSE bytes[c]
        /\ \/ writepos' = 0
           \/ /\ bytes = mem /\ pos = writepos /\ CurFrmIndex' = CurFrmIndex + 1
              /\ writepos' = writepos + len
           \/ pos = 0 /\ CurFrmIndex' = 1 /\ writepos' = len
    BY PutFacts
  <1>2. /\ CurFrmIndex \in Nat /\ published \in Nat /\ BufferSize \in Nat
        /\ writepos \in Nat
    BY Counters DEF SInv, IInv
  <1>3. ASSUME NEW c \in Units, c < writepos'
        PROVE  mem'[c] > published' - CurFrmIndex'
    <2>1. c \in Nat
      BY <1>2 DEF Units
    <2>2. CASE c \in Span(f)
      BY <1>1, <1>2, <1>3, <2>1, <2>2
    <2>3. CASE c \notin Span(f)
      BY <1>1, <1>2, <1>3, <2>1, <2>3 DEF Span, SInv, Fresh
    <2> QED BY <2>2, <2>3
  <1> QED BY <1>3 DEF Fresh, Units

LEMMA PutUnlisted ==
  ASSUME SInv, NEW i, NEW total, NEW lap, NEW pos, NEW bytes, NEW kind, NEW len,
         Put(i, total, lap, pos, bytes, kind, len)
  PROVE  Unlisted'
  <1> USE DEF SInv
  <1> PICK f : f = Written(lap, pos, kind, len)
    OBVIOUS
  <1>1. /\ i \in 0..(MaxFrm - 1)
        /\ \A j \in 0..(MaxFrm - 1) : FrmList'[j] = IF j = i THEN f ELSE FrmList[j]
        /\ \/ TotalFrm' = MaxFrm
           \/ /\ i = CurFrmIndex /\ CurFrmIndex + 1 < MaxFrm
              /\ TotalFrm' = (IF CurFrmIndex + 1 > TotalFrm THEN CurFrmIndex + 1
                              ELSE TotalFrm)
           \/ /\ i = 0 /\ 0 < CurFrmIndex /\ TotalFrm' = CurFrmIndex
              /\ bytes = TailCleared
    BY PutFacts
  <1>2. /\ CurFrmIndex \in 0..(MaxFrm - 1) /\ TotalFrm \in 0..MaxFrm
        /\ MaxFrm \in Nat \ {0} /\ published \in Nat /\ BufferSize \in Nat
        /\ CurFrmIndex <= TotalFrm
        /\ FrmList \in [0..(MaxFrm - 1) -> Frame \cup {Blank}]
    BY Counters DEF IInv, Numbered
  <1> SUFFICES ASSUME NEW j \in 0..(MaxFrm - 1), j >= TotalFrm', Intact(FrmList[j])'
               PROVE  FALSE
    BY DEF Unlisted
  <1> PICK g : g = FrmList[j]
    OBVIOUS
  <1>3. j # i /\ FrmList'[j] = g /\ j >= CurFrmIndex
    BY <1>1, <1>2
  <1>4. Intact(g)' /\ g # Blank
    BY <1>3 DEF Intact
  <1>5. /\ g \in Frame /\ g.seq <= published /\ Sound(g)
    BY <1>2, <1>4 DEF Numbered, IInv, SlotsSound
  <1>6. g.pos + g.len <= BufferSize
    BY <1>5 DEF Sound
  <1>7. Intact(g) /\ (bytes = TailCleared => \A c \in Span(g) : c < writepos)
    BY <1>4, <1>5, <1>6, PutDamages
  <1>8. j < TotalFrm
    BY <1>2, <1>7 DEF Unlisted
  <1>9. bytes = TailCleared
    BY <1>1, <1>2, <1>8
  <1>10. g.pos \in Units /\ g.pos \in Span(g) /\ g.seq = mem[g.pos]
    <2>1. g.pos \in Nat /\ g.len \in Nat \ {0}
      BY <1>5, FrameFields, PoolAssumption
    <2>2. g.pos \in Units /\ g.pos \in Span(g)
      BY <1>2, <1>6, <2>1 DEF Units, Span
    <2> QED BY <1>7, <2>2 DEF Intact
  <1>11. mem[g.pos] > published - CurFrmIndex
    BY <1>7, <1>9, <1>10 DEF Fresh
  <1>12. g.seq = published - CurFrmIndex - TotalFrm + j + 1
    BY <1>2, <1>3, <1>8 DEF Numbered
  <1> QED BY <1>2, <1>8, <1>10, <1>11, <1>12

LEMMA PutPlaced ==
  ASSUME SInv, NEW i, NEW total, NEW lap, NEW pos, NEW bytes, NEW kind, NEW len,
         Put(i, total, lap, pos, bytes, kind, len)
  PROVE  ReadersPlaced'
  <1> USE DEF SInv
  <1> PICK f : f = Written(lap, pos, kind, len)
    OBVIOUS
  <1>1. /\ published' = published + 1 /\ UNCHANGED userVars
        /\ \/ /\ CurFrmIndex + 1 = MaxFrm /\ TotalFrm' = MaxFrm /\ CurFrmIndex' = 0
              /\ circlenum' = circlenum + 1
           \/ /\ CurFrmIndex + 1 < MaxFrm /\ CurFrmIndex' = CurFrmIndex + 1
              /\ TotalFrm' = (IF CurFrmIndex + 1 > TotalFrm THEN CurFrmIndex + 1
                              ELSE TotalFrm)
              /\ circlenum' = circlenum
           \/ /\ 0 < CurFrmIndex /\ CurFrmIndex' = 1 /\ TotalFrm' = CurFrmIndex
              /\ circlenum' = circlenum + 1
    BY PutFacts
  <1>2. /\ CurFrmIndex \in 0..(MaxFrm - 1) /\ TotalFrm \in 0..MaxFrm
        /\ MaxFrm \in Nat \ {0} /\ published \in Nat /\ circlenum \in Nat
        /\ CurFrmIndex <= TotalFrm
    BY Counters DEF IInv, Numbered
  <1> SUFFICES ASSUME NEW u \in Users, last'[u] # 0
               PROVE  Placed(u)'
    BY DEF ReadersPlaced
  <1>3. /\ last[u] \in Nat /\ ReadFrmIndex[u] \in Nat /\ ReadCircleNum[u] \in Nat
        /\ ReadCircleNum[u] <= circlenum
        /\ last'[u] = last[u] /\ ReadFrmIndex'[u] = ReadFrmIndex[u]
        /\ ReadCircleNum'[u] = ReadCircleNum[u]
    BY <1>1, <1>2 DEF IInv, TypeOK, ReadLapBounded, userVars
  <1>4. Placed(u)
    BY <1>3 DEF ReadersPlaced
  <1>5. CASE PlacedInLap(u)
    <2>1. CASE circlenum' = circlenum
      <3>1. PlacedInLap(u)'
        BY <1>1, <1>2, <1>3, <1>5, <2>1 DEF PlacedInLap, Missed
      <3> QED BY <3>1 DEF Placed
    <2>2. CASE circlenum' = circlenum + 1
      <3>1. PlacedInLapBefore(u)'
        BY <1>1, <1>2, <1>3, <1>5, <2>2 DEF PlacedInLap, PlacedInLapBefore, Missed
      <3> QED BY <3>1 DEF Placed
    <2> QED BY <1>1, <2>1, <2>2
  <1>6. CASE PlacedInLapBefore(u)
    <2>1. CASE circlenum' = circlenum
      <3>1. PlacedInLapBefore(u)'
        BY <1>1, <1>2, <1>3, <1>6, <2>1 DEF PlacedInLapBefore
      <3> QED BY <3>1 DEF Placed
    <2>2. CASE circlenum' = circlenum + 1
      <3>1. PlacedLongAgo(u)'
        BY <1>1, <1>2, <1>3, <1>6, <2>2 DEF PlacedLongAgo, PlacedInLapBefore, Missed
      <3> QED BY <3>1 DEF Placed
    <2> QED BY <1>1, <2>1, <2>2
  <1>7. CASE PlacedLongAgo(u)
    <2>1. PlacedLongAgo(u)'
      BY <1>1, <1>2, <1>3, <1>7 DEF PlacedLongAgo, Missed
    <2> QED BY <2>1 DEF Placed
  <1> QED BY <1>4, <1>5, <1>6, <1>7 DEF Placed

\* A put is a put: the new frame is kept, and no frame that was not.
LEMMA PutIsPut ==
  ASSUME SInv, NEW i, NEW total, NEW lap, NEW pos, NEW bytes, NEW kind, NEW len,
         Put(i, total, lap, pos, bytes, kind, len)
  PROVE  Stream!Put
  <1> USE DEF SInv
  <1> PICK f : f = Written(lap, pos, kind, len)
    OBVIOUS
  <1>1. /\ i \in 0..(MaxFrm - 1) /\ f.seq = published + 1 /\ Intact(f)'
        /\ published' = published + 1 /\ UNCHANGED userVars
        /\ \A j \in 0..(MaxFrm - 1) : FrmList'[j] = IF j = i THEN f ELSE FrmList[j]
    BY PutFacts
  <1>2. FrmList'[i] = f
    BY <1>1
  <1>3. Intact(FrmList[i])'
    BY <1>1, <1>2 DEF Intact
  <1>4. published' \in Kept'
    BY <1>1, <1>2, <1>3 DEF Kept
  <1>5. ASSUME NEW n \in Kept', n # published'
        PROVE  n \in Kept
    <2>1. PICK j \in 0..(MaxFrm - 1) : Intact(FrmList[j])' /\ FrmList'[j].seq = n
      BY <1>5 DEF Kept
    <2>2. FrmList'[j] = FrmList[j]
      BY <1>1, <1>5, <2>1
    <2> PICK g : g = FrmList[j]
      OBVIOUS
    <2>3. Intact(g)' /\ g # Blank
      BY <2>1, <2>2 DEF Intact
    <2>4. g \in Frame /\ g.seq <= published /\ Sound(g)
      BY <2>3, Counters DEF Numbered, IInv, SlotsSound
    <2>5. g.pos + g.len <= BufferSize
      BY <2>4 DEF Sound
    <2>6. Intact(g)
      BY <2>3, <2>4, <2>5, PutDamages
    <2> QED BY <2>1, <2>2, <2>6, InKept
  <1>6. UNCHANGED <<last, [u \in Users |-> held[u] # NoFrame]>>
    BY <1>1 DEF userVars
  <1> QED BY <1>1, <1>4, <1>5, <1>6 DEF Stream!Put

-----------------------------------------------------------------------------
(* The readers.                                                            *)

\* A reader's step leaves the pool alone; it is enough to place that reader.
LEMMA ReaderKeeps ==
  ASSUME SInv, IInv', UNCHANGED poolVars, NEW u \in Users,
         \A v \in Users \ {u} : /\ last'[v] = last[v] /\ ReadFrmIndex'[v] = ReadFrmIndex[v]
                               /\ ReadCircleNum'[v] = ReadCircleNum[v],
         last'[u] # 0 => Placed(u)'
  PROVE  SInv'
  <1> USE DEF SInv, poolVars
  <1>1. Numbered' /\ Fresh'
    BY DEF Numbered, Fresh
  <1>2. Unlisted'
    BY DEF Unlisted, Intact
  <1>3. ReadersPlaced'
    <2> SUFFICES ASSUME NEW v \in Users, last'[v] # 0 PROVE Placed(v)'
      BY DEF ReadersPlaced
    <2>1. CASE v = u
      BY <2>1
    <2>2. CASE v # u
      <3>1. Placed(v)
        BY <2>2 DEF ReadersPlaced
      <3> QED BY <2>2, <3>1 DEF Placed, PlacedInLap, PlacedInLapBefore, PlacedLongAgo,
                                Missed
    <2> QED BY <2>1, <2>2
  <1> QED BY <1>1, <1>2, <1>3

LEMMA KeptUnchanged == ASSUME UNCHANGED poolVars PROVE UNCHANGED <<published, Kept>>
  BY DEF poolVars, Kept, Intact

\* A cursor that has its reader in order is not ahead of the writer.
LEMMA PlacedNotAhead ==
  ASSUME SInv, NEW u \in Users, last[u] # 0
  PROVE  ~Ahead(u)
  <1>1. /\ CurFrmIndex \in Nat /\ circlenum \in Nat /\ ReadFrmIndex[u] \in Nat
        /\ ReadCircleNum[u] \in Int
    BY Counters DEF SInv, IInv
  <1>2. Placed(u)
    BY DEF SInv, ReadersPlaced
  <1> QED BY <1>1, <1>2 DEF Placed, PlacedInLap, PlacedInLapBefore, PlacedLongAgo, Ahead

LEMMA GetNoDataKeeps ==
  ASSUME SInv, NEW u \in Users, GetNoData(u)
  PROVE  SInv' /\ UNCHANGED <<published, Kept, last, [v \in Users |-> held[v] # NoFrame]>>
  <1>1. IInv'
    BY GetKeepsIInv DEF SInv, GetOneFrameFromBuffer
  <1>2. /\ UNCHANGED poolVars /\ UNCHANGED <<held, last>>
        /\ ReadFrmIndex' = [ReadFrmIndex EXCEPT ![u] = Idx(u)]
        /\ ReadCircleNum' = [ReadCircleNum EXCEPT ![u] = Lap(u)]
        /\ Idx(u) = CurFrmIndex /\ Lap(u) = circlenum
    BY DEF GetNoData, CaughtUp
  <1>3. /\ CurFrmIndex \in Nat /\ TotalFrm \in Nat /\ circlenum \in Nat
        /\ ReadFrmIndex[u] \in Nat /\ ReadCircleNum[u] \in Int /\ published \in Nat
        /\ last[u] \in Nat
        /\ ReadFrmIndex \in [Users -> 0..(IndexMod - 1)]
        /\ ReadCircleNum \in [Users -> Int]
    BY Counters DEF SInv, IInv
  <1>4. /\ ReadFrmIndex'[u] = CurFrmIndex /\ ReadCircleNum'[u] = circlenum
        /\ circlenum' = circlenum /\ CurFrmIndex' = CurFrmIndex /\ TotalFrm' = TotalFrm
        /\ published' = published /\ last' = last
    BY <1>2, <1>3 DEF poolVars
  <1>5. ASSUME last'[u] # 0 PROVE Placed(u)'
    <2>1. Placed(u)
      BY <1>4, <1>5 DEF SInv, ReadersPlaced
    <2>2. CASE OffLapEnd(u)
      <3>1. CurFrmIndex = 0 /\ ReadFrmIndex[u] >= TotalFrm /\ ReadCircleNum[u] < circlenum
        BY <1>2, <2>2 DEF Idx, OffLapEnd
      <3>2. last[u] = published \/ Missed(u)
        BY <1>3, <2>1, <3>1 DEF Placed, PlacedInLap, PlacedInLapBefore, PlacedLongAgo
      <3>3. Missed(u) => Missed(u)'
        BY <1>4 DEF Missed
      <3>4. PlacedInLap(u)'
        BY <1>3, <1>4, <3>1, <3>2, <3>3 DEF PlacedInLap
      <3> QED BY <3>4 DEF Placed
    <2>3. CASE ~OffLapEnd(u)
      <3>1. ReadFrmIndex[u] = CurFrmIndex /\ ReadCircleNum[u] = circlenum
        BY <1>2, <2>3 DEF Idx, Lap
      <3> QED BY <1>3, <1>4, <2>1, <3>1 DEF Placed, PlacedInLap, PlacedInLapBefore,
                                            PlacedLongAgo, Missed
    <2> QED BY <2>2, <2>3
  <1>6. \A v \in Users \ {u} :
          /\ last'[v] = last[v] /\ ReadFrmIndex'[v] = ReadFrmIndex[v]
          /\ ReadCircleNum'[v] = ReadCircleNum[v]
    BY <1>2, <1>3
  <1>7. SInv'
    BY <1>1, <1>2, <1>5, <1>6, ReaderKeeps
  <1> QED BY <1>2, <1>7, KeptUnchanged

LEMMA GetOvertakenKeeps ==
  ASSUME SInv, NEW u \in Users, GetOvertaken(u)
  PROVE  SInv' /\ Stream!Reposition(u)
  <1>1. IInv'
    BY GetKeepsIInv DEF SInv, GetOneFrameFromBuffer
  <1>2. /\ UNCHANGED poolVars /\ UNCHANGED held /\ held[u] = NoFrame
        /\ ReadFrmIndex' = [ReadFrmIndex EXCEPT ![u] = ICurIndex]
        /\ ReadCircleNum' = [ReadCircleNum EXCEPT ![u] = circlenum]
        /\ last' = [last EXCEPT ![u] = 0]
    BY DEF GetOvertaken, Idle
  <1>3. /\ last \in [Users -> Nat]
        /\ ReadFrmIndex \in [Users -> 0..(IndexMod - 1)]
        /\ ReadCircleNum \in [Users -> Int]
    BY Counters DEF SInv, IInv
  <1>4. /\ last'[u] = 0
        /\ \A v \in Users \ {u} :
             /\ last'[v] = last[v] /\ ReadFrmIndex'[v] = ReadFrmIndex[v]
             /\ ReadCircleNum'[v] = ReadCircleNum[v]
    BY <1>2, <1>3
  <1>5. SInv'
    BY <1>1, <1>2, <1>4, ReaderKeeps
  <1> QED BY <1>2, <1>5, KeptUnchanged DEF Stream!Reposition

\* What a cursor that is in step is handed: a listed frame.
LEMMA InStepSlot ==
  ASSUME SInv, NEW u \in Users, ~Ahead(u), ~CaughtUp(u), ~Overtaken(u)
  PROVE  /\ Idx(u) \in 0..(MaxFrm - 1) /\ Entry(Idx(u)) = FrmList[Idx(u)]
         /\ Intact(FrmList[Idx(u)])
         /\ \/ Lap(u) = circlenum /\ Idx(u) < CurFrmIndex
            \/ /\ Lap(u) + 1 = circlenum /\ CurFrmIndex <= Idx(u) /\ Idx(u) < TotalFrm
               /\ ~OffLapEnd(u)
  <1>1. /\ ReadFrmIndex[u] \in Nat /\ Idx(u) \in Nat
        /\ ReadCircleNum[u] \in 0..circlenum /\ Lap(u) \in 0..circlenum
        /\ circlenum \in Nat
    BY CursorRange DEF SInv, IInv
  <1>2. /\ CurFrmIndex \in 0..(MaxFrm - 1) /\ TotalFrm \in 0..MaxFrm
        /\ MaxFrm \in Nat \ {0} /\ writepos \in Nat
    BY Counters DEF SInv, IInv
  <1>3. circlenum - Lap(u) \in {0, 1}
    BY <1>1 DEF Overtaken
  <1>4. CASE Lap(u) = circlenum
    <2>1. Idx(u) < CurFrmIndex
      BY <1>1, <1>2, <1>4 DEF CaughtUp, Ahead, Idx, Lap
    <2>2. Idx(u) \in 0..(CurFrmIndex - 1)
      BY <1>1, <1>2, <2>1
    <2>3. Idx(u) \in 0..(MaxFrm - 1) /\ Entry(Idx(u)) = FrmList[Idx(u)]
      BY <1>2, <2>2 DEF Entry
    <2>4. /\ FrmList[Idx(u)] \in Frame /\ FrmList[Idx(u)].lap = circlenum
          /\ Sound(FrmList[Idx(u)])
      BY <2>2, <2>3 DEF SInv, IInv, SlotLaps, SlotsSound
    <2> QED BY <1>1, <1>4, <2>1, <2>3, <2>4 DEF Sound
  <1>5. CASE Lap(u) + 1 = circlenum
    <2>1. Idx(u) = ReadFrmIndex[u] /\ ReadFrmIndex[u] < TotalFrm /\ ~OffLapEnd(u)
      BY <1>1, <1>2, <1>5 DEF Idx, Lap, OffLapEnd
    <2>2. Idx(u) \in 0..(MaxFrm - 1) /\ Entry(Idx(u)) = FrmList[Idx(u)]
      BY <1>1, <1>2, <2>1 DEF Entry
    <2>3. ~(FrmList[Idx(u)].pos < writepos)
      BY <1>1, <1>5, <2>2 DEF Overtaken
    <2>4. ASSUME Idx(u) < CurFrmIndex PROVE FALSE
      <3>1. Idx(u) \in 0..(CurFrmIndex - 1)
        BY <1>1, <1>2, <2>4
      <3>2. /\ FrmList[Idx(u)] \in Frame /\ FrmList[Idx(u)].lap = circlenum
            /\ Sound(FrmList[Idx(u)])
        BY <2>2, <3>1 DEF SInv, IInv, SlotLaps, SlotsSound
      <3>3. FrmList[Idx(u)].pos \in Nat /\ FrmList[Idx(u)].len \in Nat \ {0}
        BY <3>2, FrameFields, PoolAssumption
      <3> QED BY <1>1, <1>2, <2>3, <3>2, <3>3 DEF Sound
    <2>5. Idx(u) \in CurFrmIndex..(TotalFrm - 1)
      BY <1>1, <1>2, <2>1, <2>4
    <2>6. /\ FrmList[Idx(u)] \in Frame /\ FrmList[Idx(u)].lap + 1 = circlenum
          /\ Sound(FrmList[Idx(u)])
      BY <2>2, <2>5 DEF SInv, IInv, SlotLaps, SlotsSound
    <2> QED BY <1>1, <1>2, <1>5, <2>1, <2>2, <2>3, <2>5, <2>6 DEF Sound
  <1> QED BY <1>1, <1>3, <1>4, <1>5

\* It is the next one, or the next one is lost.
LEMMA FollowsLast ==
  ASSUME SInv, NEW u \in Users, ~Ahead(u), ~CaughtUp(u), ~Overtaken(u), last[u] # 0,
         NEW n, n = FrmList[Idx(u)].seq
  PROVE  n = last[u] + 1 \/ (n > last[u] + 1 /\ last[u] + 1 \notin Kept)
  <1>1. /\ CurFrmIndex \in 0..(MaxFrm - 1) /\ TotalFrm \in 0..MaxFrm
        /\ MaxFrm \in Nat \ {0} /\ published \in Nat /\ circlenum \in Nat
        /\ last[u] \in Nat /\ ReadFrmIndex[u] \in Nat /\ ReadCircleNum[u] \in Int
        /\ CurFrmIndex <= TotalFrm
    BY Counters DEF SInv, IInv, Numbered
  <1>2. Placed(u)
    BY DEF SInv, ReadersPlaced
  <1>3. /\ Idx(u) \in 0..(MaxFrm - 1)
        /\ \/ Lap(u) = circlenum /\ Idx(u) < CurFrmIndex
           \/ /\ Lap(u) + 1 = circlenum /\ CurFrmIndex <= Idx(u) /\ Idx(u) < TotalFrm
              /\ ~OffLapEnd(u)
    BY InStepSlot
  <1>4. Missed(u) /\ 0 < CurFrmIndex => last[u] + 1 \notin Kept
    BY <1>1, KeptIsListed DEF Missed
  <1>5. CASE Lap(u) = circlenum /\ Idx(u) < CurFrmIndex
    <2>1. n = published - CurFrmIndex + Idx(u) + 1
      BY <1>1, <1>3, <1>5 DEF SInv, Numbered
    <2>2. \/ ~OffLapEnd(u) /\ Idx(u) = ReadFrmIndex[u] /\ ReadCircleNum[u] = circlenum
          \/ /\ OffLapEnd(u) /\ Idx(u) = 0 /\ ReadFrmIndex[u] >= TotalFrm
             /\ ReadCircleNum[u] < circlenum
      BY <1>5 DEF Idx, Lap, OffLapEnd
    <2>3. last[u] = published - CurFrmIndex + Idx(u) \/ (Idx(u) = 0 /\ Missed(u))
      BY <1>1, <1>2, <1>3, <1>5, <2>2 DEF Placed, PlacedInLap, PlacedInLapBefore, PlacedLongAgo
    <2> QED BY <1>1, <1>3, <1>4, <1>5, <2>1, <2>3 DEF Missed
  <1>6. CASE /\ Lap(u) + 1 = circlenum /\ CurFrmIndex <= Idx(u) /\ Idx(u) < TotalFrm
             /\ ~OffLapEnd(u)
    <2>1. n = published - CurFrmIndex - TotalFrm + Idx(u) + 1
      BY <1>1, <1>3, <1>6 DEF SInv, Numbered
    <2>2. Idx(u) = ReadFrmIndex[u] /\ ReadCircleNum[u] + 1 = circlenum
      BY <1>6 DEF Idx, Lap
    <2>3. \/ last[u] = published - CurFrmIndex - TotalFrm + Idx(u)
          \/ Idx(u) = 0 /\ last[u] < published - CurFrmIndex - TotalFrm
      BY <1>1, <1>2, <1>6, <2>2 DEF Placed, PlacedInLap, PlacedInLapBefore, PlacedLongAgo
    <2>4. CASE Idx(u) = 0 /\ last[u] < published - CurFrmIndex - TotalFrm
      <3>1. CurFrmIndex = 0 /\ CurFrmIndex < TotalFrm
        BY <1>1, <1>6, <2>4
      <3>2. last[u] + 1 \notin Kept
        BY <1>1, <2>4, <3>1, KeptIsListed
      <3> QED BY <1>1, <2>1, <2>4, <3>2
    <2> QED BY <1>1, <1>3, <2>1, <2>3, <2>4
  <1> QED BY <1>3, <1>5, <1>6

LEMMA GetFrameKeeps ==
  ASSUME SInv, NEW u \in Users, GetFrame(u)
  PROVE  SInv' /\ (Stream!Deliver(u) \/ Stream!Stray(u))
  <1>1. IInv'
    BY GetKeepsIInv DEF SInv, GetOneFrameFromBuffer
  <1> PICK e : e = Entry(Idx(u))
    OBVIOUS
  <1>2. /\ UNCHANGED poolVars /\ ~CaughtUp(u) /\ ~Overtaken(u) /\ held[u] = NoFrame
        /\ held' = [held EXCEPT ![u] = e]
        /\ ReadFrmIndex' = [ReadFrmIndex EXCEPT ![u] = (Idx(u) + 1) % IndexMod]
        /\ ReadCircleNum' = [ReadCircleNum EXCEPT ![u] = Lap(u)]
        /\ last' = [last EXCEPT ![u] = IF Ahead(u) THEN 0 ELSE e.seq]
    BY DEF GetFrame, Idle
  <1>3. /\ last \in [Users -> Nat] /\ held \in [Users -> Frame \cup {Blank, NoFrame}]
        /\ ReadFrmIndex \in [Users -> 0..(IndexMod - 1)]
        /\ ReadCircleNum \in [Users -> Int]
        /\ CurFrmIndex \in 0..(MaxFrm - 1) /\ TotalFrm \in 0..MaxFrm
        /\ MaxFrm \in Nat \ {0} /\ published \in Nat /\ circlenum \in Nat
        /\ MaxFrm < IndexMod /\ IndexMod \in Nat /\ CurFrmIndex <= TotalFrm
    BY Counters DEF SInv, IInv, TypeOK, Numbered
  <1>4. \A v \in Users \ {u} :
          /\ last'[v] = last[v] /\ ReadFrmIndex'[v] = ReadFrmIndex[v]
          /\ ReadCircleNum'[v] = ReadCircleNum[v]
    BY <1>2, <1>3
  <1>5. ASSUME ~Ahead(u)
        PROVE  /\ e.seq \in Kept /\ last'[u] = e.seq /\ Placed(u)'
               /\ last[u] # 0 => \/ e.seq = last[u] + 1
                                 \/ e.seq > last[u] + 1 /\ last[u] + 1 \notin Kept
    <2>1. /\ Idx(u) \in 0..(MaxFrm - 1) /\ e = FrmList[Idx(u)] /\ Intact(FrmList[Idx(u)])
          /\ \/ Lap(u) = circlenum /\ Idx(u) < CurFrmIndex
             \/ /\ Lap(u) + 1 = circlenum /\ CurFrmIndex <= Idx(u) /\ Idx(u) < TotalFrm
                /\ ~OffLapEnd(u)
      BY <1>2, <1>5, InStepSlot
    <2>2. e.seq \in Kept /\ last'[u] = e.seq
      BY <1>2, <1>3, <1>5, <2>1, InKept
    <2>3. (Idx(u) + 1) % IndexMod = Idx(u) + 1
      BY <1>3, <2>1, ModLess
    <2>4. /\ ReadFrmIndex'[u] = Idx(u) + 1 /\ ReadCircleNum'[u] = Lap(u)
          /\ circlenum' = circlenum /\ CurFrmIndex' = CurFrmIndex
          /\ TotalFrm' = TotalFrm /\ published' = published
      BY <1>2, <1>3, <2>3 DEF poolVars
    <2>5. Placed(u)'
      <3>1. CASE Lap(u) = circlenum /\ Idx(u) < CurFrmIndex
        <4>1. e.seq = published - CurFrmIndex + Idx(u) + 1
          BY <1>3, <2>1, <3>1 DEF SInv, Numbered
        <4>2. PlacedInLap(u)'
          BY <1>3, <2>1, <2>2, <2>4, <3>1, <4>1 DEF PlacedInLap
        <4> QED BY <4>2 DEF Placed
      <3>2. CASE /\ Lap(u) + 1 = circlenum /\ CurFrmIndex <= Idx(u) /\ Idx(u) < TotalFrm
                 /\ ~OffLapEnd(u)
        <4>1. e.seq = published - CurFrmIndex - TotalFrm + Idx(u) + 1
          BY <1>3, <2>1, <3>2 DEF SInv, Numbered
        <4>2. PlacedInLapBefore(u)'
          BY <1>3, <2>1, <2>2, <2>4, <3>2, <4>1 DEF PlacedInLapBefore
        <4> QED BY <4>2 DEF Placed
      <3> QED BY <2>1, <3>1, <3>2
    <2>6. last[u] # 0 => \/ e.seq = last[u] + 1
                         \/ e.seq > last[u] + 1 /\ last[u] + 1 \notin Kept
      BY <1>2, <1>5, <2>1, FollowsLast
    <2> QED BY <2>2, <2>5, <2>6
  <1>6. Ahead(u) => last'[u] = 0 /\ last[u] = 0 /\ last' = last
    <2> SUFFICES ASSUME Ahead(u) PROVE last'[u] = 0 /\ last[u] = 0 /\ last' = last
      OBVIOUS
    <2>1. last[u] = 0
      BY PlacedNotAhead
    <2> QED BY <1>2, <1>3, <2>1
  <1>7. SInv'
    <2>1. last'[u] # 0 => Placed(u)'
      BY <1>5, <1>6
    <2> QED BY <1>1, <1>2, <1>4, <2>1, ReaderKeeps
  <1>8. Stream!Gives(u)
    <2>1. e # NoFrame
      <3>1. Idx(u) \in Nat
        BY CursorRange DEF SInv, IInv
      <3>2. e \in Frame \cup {Blank}
        BY <3>1, EntryKind DEF SInv, IInv
      <3> QED BY <3>2, BlankNotFrame
    <2>2. [v \in Users |-> held'[v] # NoFrame]
            = [[v \in Users |-> held[v] # NoFrame] EXCEPT ![u] = TRUE]
      BY <1>2, <1>3, <2>1
    <2> QED BY <1>2, <2>2, KeptUnchanged DEF Stream!Gives
  <1>9. ASSUME ~Ahead(u) PROVE Stream!Deliver(u)
    <2>1. Stream!MayFollow(u, e.seq) /\ e.seq \in Kept
      BY <1>5, <1>9 DEF Stream!MayFollow
    <2>2. last' = [last EXCEPT ![u] = e.seq]
      BY <1>2, <1>9
    <2> QED BY <1>8, <2>1, <2>2 DEF Stream!Deliver
  <1>10. ASSUME Ahead(u) PROVE Stream!Stray(u)
    BY <1>6, <1>8, <1>10 DEF Stream!Stray
  <1> QED BY <1>7, <1>9, <1>10

LEMMA ReleaseKeeps ==
  ASSUME SInv, NEW u \in Users, Release(u)
  PROVE  SInv' /\ Stream!Finish(u)
  <1>1. IInv'
    BY ReleaseKeepsIInv DEF SInv
  <1>2. /\ UNCHANGED poolVars /\ held[u] # NoFrame
        /\ held' = [held EXCEPT ![u] = NoFrame]
        /\ UNCHANGED <<ReadFrmIndex, ReadCircleNum, last>>
    BY DEF Release
  <1>3. held \in [Users -> Frame \cup {Blank, NoFrame}]
    BY DEF SInv, IInv, TypeOK
  <1>4. last'[u] # 0 => Placed(u)'
    BY <1>2 DEF SInv, ReadersPlaced, Placed, PlacedInLap, PlacedInLapBefore,
                PlacedLongAgo, Missed, poolVars
  <1>5. SInv'
    BY <1>1, <1>2, <1>4, ReaderKeeps
  <1>6. [v \in Users |-> held'[v] # NoFrame]
          = [[v \in Users |-> held[v] # NoFrame] EXCEPT ![u] = FALSE]
    BY <1>2, <1>3
  <1> QED BY <1>2, <1>5, <1>6, KeptUnchanged DEF Stream!Finish

LEMMA ResetKeeps ==
  ASSUME SInv, NEW u \in Users, ResetUserData2IFrame(u)
  PROVE  /\ SInv'
         /\ \/ Stream!Reposition(u)
            \/ UNCHANGED <<published, Kept, last, [v \in Users |-> held[v] # NoFrame]>>
  <1>1. IInv'
    BY ResetKeepsIInv DEF SInv
  <1>2. UNCHANGED poolVars /\ UNCHANGED held /\ held[u] = NoFrame
    BY DEF ResetUserData2IFrame
  <1>3. CASE u = LocalRecId
    <2>1. UNCHANGED <<ReadFrmIndex, ReadCircleNum, last>>
      BY <1>3 DEF ResetUserData2IFrame
    <2>2. last'[u] # 0 => Placed(u)'
      BY <1>2, <2>1 DEF SInv, ReadersPlaced, Placed, PlacedInLap, PlacedInLapBefore,
                        PlacedLongAgo, Missed, poolVars
    <2>3. SInv'
      BY <1>1, <1>2, <2>1, <2>2, ReaderKeeps
    <2> QED BY <1>2, <2>1, <2>3, KeptUnchanged
  <1>4. CASE u # LocalRecId
    <2>1. ResetUserInfo(u) /\ last' = [last EXCEPT ![u] = 0]
      BY <1>4 DEF ResetUserData2IFrame
    <2>2. /\ last \in [Users -> Nat]
          /\ ReadFrmIndex \in [Users -> 0..(IndexMod - 1)]
          /\ ReadCircleNum \in [Users -> Int]
      BY Counters DEF SInv, IInv
    <2>3. /\ last'[u] = 0
          /\ \A v \in Users \ {u} :
               /\ last'[v] = last[v] /\ ReadFrmIndex'[v] = ReadFrmIndex[v]
               /\ ReadCircleNum'[v] = ReadCircleNum[v]
      BY <2>1, <2>2 DEF ResetUserInfo
    <2>4. SInv'
      BY <1>1, <1>2, <2>3, ReaderKeeps
    <2> QED BY <1>2, <2>1, <2>4, KeptUnchanged DEF Stream!Reposition
  <1> QED BY <1>3, <1>4

-----------------------------------------------------------------------------
(* The theorem.                                                            *)

LEMMA InitSInv == Init => SInv /\ Stream!StreamInit
  <1> SUFFICES ASSUME Init PROVE SInv /\ Stream!StreamInit
    OBVIOUS
  <1>1. IInv
    BY InitIInv
  <1>2. Unlisted /\ Kept = {}
    BY DEF Init, Unlisted, Kept, Intact
  <1>3. Numbered
    BY PoolAssumption DEF Init, Numbered, Blank
  <1>4. Fresh
    BY PoolAssumption DEF Init, Fresh, Units
  <1>5. ReadersPlaced
    BY DEF Init, ReadersPlaced
  <1>6. Stream!StreamInit
    BY <1>2 DEF Init, Stream!StreamInit
  <1> QED BY <1>1, <1>2, <1>3, <1>4, <1>5, <1>6 DEF SInv

LEMMA NextSInv ==
  SInv /\ [Next]_vars => SInv' /\ [Stream!StreamNext]_(Stream!streamVars)
  <1> SUFFICES ASSUME SInv, [Next]_vars
               PROVE  SInv' /\ [Stream!StreamNext]_(Stream!streamVars)
    OBVIOUS
  <1> USE DEF Stream!StreamNext, Stream!streamVars
  <1>1. ASSUME NEW kind \in Kinds, NEW len \in FrameLens, PutOneFrame(kind, len)
        PROVE  SInv' /\ Stream!Put
    <2>1. PICK i, total, lap, pos, bytes : Put(i, total, lap, pos, bytes, kind, len)
      BY <1>1, PutForm
    <2>2. IInv'
      BY <2>1, PutKeepsIInv DEF SInv
    <2>3. Numbered' /\ Fresh' /\ Unlisted' /\ ReadersPlaced'
      BY <2>1, PutNumbered, PutFresh, PutUnlisted, PutPlaced
    <2> QED BY <2>1, <2>2, <2>3, PutIsPut DEF SInv
  <1>2. ASSUME NEW u \in Users, GetOneFrameFromBuffer(u)
        PROVE  SInv' /\ [Stream!StreamNext]_(Stream!streamVars)
    <2>1. CASE GetNoData(u)
      BY <2>1, GetNoDataKeeps
    <2>2. CASE GetOvertaken(u)
      BY <2>2, GetOvertakenKeeps
    <2>3. CASE GetFrame(u)
      BY <2>3, GetFrameKeeps
    <2> QED BY <1>2, <2>1, <2>2, <2>3 DEF GetOneFrameFromBuffer
  <1>3. ASSUME NEW u \in Users, Release(u)
        PROVE  SInv' /\ Stream!Finish(u)
    BY <1>3, ReleaseKeeps
  <1>4. ASSUME NEW u \in Users, ResetUserData2IFrame(u)
        PROVE  SInv' /\ [Stream!StreamNext]_(Stream!streamVars)
    BY <1>4, ResetKeeps
  <1>5. CASE UNCHANGED vars
    <2>1. UNCHANGED poolVars /\ UNCHANGED userVars
      BY <1>5 DEF vars
    <2>2. IInv'
      BY <1>5, NextIInv DEF SInv
    <2>3. SInv'
      BY <2>1, <2>2 DEF SInv, Numbered, Fresh, Unlisted, Intact, ReadersPlaced, Placed,
                  PlacedInLap, PlacedInLapBefore, PlacedLongAgo, Missed, poolVars, userVars
    <2>4. UNCHANGED <<published, Kept, last, [v \in Users |-> held[v] # NoFrame]>>
      BY <2>1, KeptUnchanged DEF userVars
    <2> QED BY <2>3, <2>4
  <1> QED BY <1>1, <1>2, <1>3, <1>4, <1>5 DEF Next

\* The two rings, their laps and the tests of GetOneFrameFromBuffer implement
\* the stream: between two repositions a reader gets every frame that had not
\* been overwritten when it asked, once and in order.
THEOREM PoolImplementsStream == Spec => IsStream
  <1>1. Init => SInv /\ Stream!StreamInit
    BY InitSInv
  <1>2. SInv /\ [Next]_vars => SInv' /\ [Stream!StreamNext]_(Stream!streamVars)
    BY NextSInv
  <1> QED BY <1>1, <1>2, PTL DEF Spec, IsStream, Stream!StreamSpec
=============================================================================
