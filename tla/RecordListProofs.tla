-------------------------- MODULE RecordListProofs --------------------------
(***************************************************************************)
(* More proofs about RecordIndex: that the list has what was recorded, has *)
(* it once, and has nothing of the time to come.                           *)
(***************************************************************************)
EXTENDS RecordIndexProofs

-----------------------------------------------------------------------------
(* Hours.                                                                  *)

LEMMA Division ==
  ASSUME NEW t \in Int, NEW n \in Int, n > 0
  PROVE  /\ t = n * (t \div n) + (t % n) /\ t \div n \in Int
         /\ t % n \in Int /\ 0 <= t % n /\ t % n < n
  <1>1. t = n * (t \div n) + (t % n)
    OBVIOUS
  <1> QED BY <1>1

LEMMA Quotient ==
  ASSUME NEW t \in Int, NEW n \in Int, n > 0, NEW q \in Int, NEW r \in 0..(n - 1),
         t = n * q + r
  PROVE  t \div n = q /\ t % n = r
  <1>1. t \div n = q
    OBVIOUS
  <1>2. t % n = r
    OBVIOUS
  <1> QED BY <1>1, <1>2

LEMMA HourParts ==
  ASSUME NEW t \in Int
  PROVE  /\ HourOf(t) \in Int /\ t % HourLen \in Int
         /\ t = HourOf(t) * HourLen + (t % HourLen)
         /\ 0 <= t % HourLen /\ t % HourLen < HourLen
         /\ HourOf(t) * HourLen \in Int /\ HourLen \in Int
  BY Division, IndexAssumption DEF HourOf

LEMMA Multiples ==
  ASSUME NEW g \in Int, NEW h \in Int, g < h
  PROVE  g * HourLen + HourLen <= h * HourLen
  <1>1. (h - g - 1) * HourLen >= 0
    BY IndexAssumption
  <1> QED BY <1>1, IndexAssumption

LEMMA HourIs ==
  ASSUME NEW t \in Int, NEW h \in Int, h * HourLen <= t, t < h * HourLen + HourLen
  PROVE  HourOf(t) = h /\ t % HourLen = t - h * HourLen
  <1>1. /\ h * HourLen \in Int /\ t - h * HourLen \in 0..(HourLen - 1)
        /\ t = HourLen * h + (t - h * HourLen) /\ HourLen \in Int /\ HourLen > 0
    BY IndexAssumption
  <1> QED BY <1>1, Quotient DEF HourOf

LEMMA LaterHour ==
  ASSUME NEW a \in Int, NEW b \in Int, a <= b
  PROVE  HourOf(a) <= HourOf(b)
  <1>1. CASE HourOf(b) < HourOf(a)
    <2>1. HourOf(b) * HourLen + HourLen <= HourOf(a) * HourLen
      BY <1>1, HourParts, Multiples
    <2> QED BY <2>1, HourParts
  <1> QED BY <1>1, HourParts

\* A time that is not moved to the full hour lies in the hour of a later one,
\* or before its first second.
LEMMA InsideBefore ==
  ASSUME NEW a \in Int, NEW b \in Int, a <= b, Inside(a), b % HourLen < Slack
  PROVE  HourOf(a) < HourOf(b) /\ a < HourOf(b) * HourLen
  <1> DEFINE pa == HourOf(a) * HourLen
             pb == HourOf(b) * HourLen
  <1>0. /\ HourOf(a) \in Int /\ a % HourLen \in Int /\ a = pa + (a % HourLen)
        /\ 0 <= a % HourLen /\ a % HourLen < HourLen /\ pa \in Int
        /\ HourOf(b) \in Int /\ b % HourLen \in Int /\ b = pb + (b % HourLen)
        /\ 0 <= b % HourLen /\ b % HourLen < HourLen /\ pb \in Int
        /\ HourLen \in Int /\ a \in Int /\ b \in Int
    BY HourParts
  <1>1. HourOf(a) <= HourOf(b)
    BY LaterHour
  <1>2. Slack \in Int /\ Slack <= a % HourLen
    BY IndexAssumption DEF Inside
  <1>3. CASE HourOf(a) = HourOf(b)
    BY <1>2, <1>3, <1>0
  <1>4. CASE HourOf(a) < HourOf(b)
    <2>1. HourOf(a) * HourLen + HourLen <= HourOf(b) * HourLen
      BY <1>4, <1>0, Multiples
    <2> QED BY <1>4, <2>1, <1>0
  <1> QED BY <1>1, <1>3, <1>4, <1>0

\* The first event begins no later than its frames, those apart that are moved
\* to the hour.
LEMMA FixedStart ==
  ASSUME NEW a \in Nat, NEW b \in Nat, a <= b, Inside(b)
  PROVE  FixEvenItenStartTime(a) <= b
  <1> DEFINE pa == HourOf(a) * HourLen
             pb == HourOf(b) * HourLen
  <1>0. /\ HourOf(a) \in Int /\ a % HourLen \in Int /\ a = pa + (a % HourLen)
        /\ 0 <= a % HourLen /\ a % HourLen < HourLen /\ pa \in Int
        /\ HourOf(b) \in Int /\ b % HourLen \in Int /\ b = pb + (b % HourLen)
        /\ 0 <= b % HourLen /\ b % HourLen < HourLen /\ pb \in Int
        /\ HourLen \in Int /\ a \in Int /\ b \in Int
    <2>1. a \in Int /\ b \in Int
      OBVIOUS
    <2> QED BY <2>1, HourParts
  <1>1. /\ HourLen \in Int /\ Slight \in Int /\ HourLen > 0 /\ Slight >= 0
        /\ DayLen \in Int /\ DayLen > 0
    BY IndexAssumption
  <1>2. CASE a % HourLen > HourLen - Slight
    <2>1. HourOf(a) < HourOf(b)
      <3>1. HourOf(a) <= HourOf(b)
        BY LaterHour
      <3>2. HourOf(a) # HourOf(b)
        <4>1. b % HourLen <= HourLen - Slight
          BY DEF Inside
        <4> QED BY <1>1, <1>2, <4>1, <1>0
      <3> QED BY <3>1, <3>2, <1>0
    <2>2. HourOf(a) * HourLen + HourLen <= HourOf(b) * HourLen
      BY <2>1, <1>0, Multiples
    <2>3. (HourOf(a) + 1) * HourLen = HourOf(a) * HourLen + HourLen
      BY <1>1, <1>0
    <2>4. \A x \in Nat : x % DayLen <= x
      BY <1>1
    <2>5. HourOf(a) * HourLen + HourLen \in Nat
      BY <1>1, <1>0
    <2>6. NextHour(a) <= HourOf(a) * HourLen + HourLen
      BY <2>3, <2>4, <2>5 DEF NextHour
    <2>7. NextHour(a) \in Int
      BY <1>1, <2>3, <2>5 DEF NextHour
    <2>8. FixEvenItenStartTime(a) \in {a - (a % HourLen), NextHour(a)}
      BY <1>2 DEF FixEvenItenStartTime
    <2> QED BY <1>1, <2>2, <2>6, <2>7, <2>8, <1>0
  <1>3. CASE ~(a % HourLen > HourLen - Slight)
    <2>1. FixEvenItenStartTime(a) \in {a - (a % HourLen), a}
      BY <1>3 DEF FixEvenItenStartTime
    <2> QED BY <2>1, <1>0
  <1> QED BY <1>2, <1>3

\* And the last one ends no earlier.
LEMMA FixedEnd ==
  ASSUME NEW a \in Nat, NEW b \in Nat, a <= b, Inside(a)
  PROVE  a <= FixEvenItenEndTime(b)
  <1> DEFINE pa == HourOf(a) * HourLen
             pb == HourOf(b) * HourLen
  <1>0. /\ HourOf(a) \in Int /\ a % HourLen \in Int /\ a = pa + (a % HourLen)
        /\ 0 <= a % HourLen /\ a % HourLen < HourLen /\ pa \in Int
        /\ HourOf(b) \in Int /\ b % HourLen \in Int /\ b = pb + (b % HourLen)
        /\ 0 <= b % HourLen /\ b % HourLen < HourLen /\ pb \in Int
        /\ HourLen \in Int /\ a \in Int /\ b \in Int
    <2>1. a \in Int /\ b \in Int
      OBVIOUS
    <2> QED BY <2>1, HourParts
  <1>1. HourLen \in Int /\ Slack \in Int /\ DayLen \in Int
    BY IndexAssumption
  <1>2. CASE b % HourLen > HourLen - Slack
    <2>1. FixEvenItenEndTime(b) = HourOf(b) * HourLen + HourLen - 1
      BY <1>2 DEF FixEvenItenEndTime, LastSecond
    <2> QED BY <2>1, <1>0
  <1>3. CASE ~(b % HourLen > HourLen - Slack) /\ b % HourLen < Slack
    <2>1. HourOf(a) < HourOf(b) /\ a < HourOf(b) * HourLen
      BY <1>3, InsideBefore
    <2>2. HourOf(a) >= 0
      <3>1. CASE HourOf(a) <= -1
        <4>1. HourOf(a) * HourLen + HourLen <= 0
          <5>1. CASE HourOf(a) < 0
            <6>1. HourOf(a) * HourLen + HourLen <= 0 * HourLen
              BY <5>1, <1>0, Multiples
            <6> QED BY <1>1, <6>1
          <5> QED BY <3>1, <5>1, <1>0
        <4> QED BY <4>1, <1>0
      <3> QED BY <3>1, <1>0
    <2>3. HourOf(b) # 0
      BY <2>1, <2>2, <1>0
    <2>4. FixEvenItenEndTime(b) = (HourOf(b) - 1) * HourLen + HourLen - 1
      BY <1>3, <2>3 DEF FixEvenItenEndTime, LastSecond
    <2>5. (HourOf(b) - 1) * HourLen = HourOf(b) * HourLen - HourLen
      BY <1>1, <1>0
    <2> QED BY <2>1, <2>4, <2>5, <1>0
  <1>4. CASE ~(b % HourLen > HourLen - Slack) /\ ~(b % HourLen < Slack)
    BY <1>4 DEF FixEvenItenEndTime
  <1> QED BY <1>2, <1>3, <1>4

-----------------------------------------------------------------------------
(* The events of an index.                                                 *)

LEMMA EntryFacts ==
  ASSUME NEW s \in Seq(Entry)
  PROVE  /\ Len(s) \in Nat
         /\ \A i \in 1..Len(s) : s[i].time \in Nat /\ s[i].off \in Nat
         /\ Starts(s) \subseteq 1..Len(s)
         /\ Len(s) > 0 => 1 \in Starts(s)
  <1>1. \A i \in 1..Len(s) : s[i] \in Entry
    OBVIOUS
  <1> QED BY <1>1 DEF Entry, Starts, Breaks

\* An event that has an entry begins at or before it ...
LEMMA LastStart ==
  ASSUME NEW s \in Seq(Entry), NEW i \in 1..Len(s)
  PROVE  \E k \in Starts(s) : k <= i /\ \A q \in Starts(s) : q <= i => q <= k
  <1> DEFINE D == {i - q : q \in {r \in Starts(s) : r <= i}}
  <1>1. Len(s) \in Nat /\ Starts(s) \subseteq 1..Len(s) /\ 1 \in Starts(s)
    BY EntryFacts
  <1>2. D \in SUBSET Nat
    BY <1>1
  <1>3. i - 1 \in D
    BY <1>1
  <1>4. PICK d \in D : \A c \in D : d <= c
    BY <1>2, <1>3, FirstOne
  <1>5. PICK k \in Starts(s) : k <= i /\ d = i - k
    BY <1>4
  <1>6. ASSUME NEW q \in Starts(s), q <= i PROVE q <= k
    <2>1. i - q \in D
      BY <1>6
    <2>2. i - k <= i - q
      BY <1>4, <1>5, <2>1
    <2> QED BY <1>1, <1>5, <2>2
  <1> QED BY <1>5, <1>6

\* ... and ends with the next one's beginning, if there is one.
LEMMA NextStart ==
  ASSUME NEW s \in Seq(Entry), NEW k \in Starts(s), NEW q \in Starts(s), k < q
  PROVE  \E j \in Starts(s) : Follows(s, k, j) /\ j <= q
  <1> DEFINE D == {r \in Starts(s) : k < r}
  <1>1. Len(s) \in Nat /\ Starts(s) \subseteq 1..Len(s)
    BY EntryFacts
  <1>2. D \in SUBSET Nat /\ q \in D
    BY <1>1
  <1>3. PICK j \in D : \A c \in D : j <= c
    BY <1>2, FirstOne
  <1>4. \A r \in Starts(s) : ~(k < r /\ r < j)
    BY <1>1, <1>3
  <1> QED BY <1>2, <1>3, <1>4 DEF Follows

\* Within an event time goes on.
LEMMA Unbroken ==
  ASSUME NEW s \in Seq(Entry), NEW a \in 1..Len(s), NEW b \in 1..Len(s), a <= b,
         \A q \in Starts(s) : ~(a < q /\ q <= b)
  PROVE  s[a].time <= s[b].time
  <1> DEFINE D == {c \in a..b : s[c].time < s[a].time}
  <1>1. Len(s) \in Nat /\ \A i \in 1..Len(s) : s[i].time \in Nat
    BY EntryFacts
  <1>2. SUFFICES ASSUME D # {} PROVE FALSE
    BY <1>1
  <1>3. D \in SUBSET Nat
    OBVIOUS
  <1>4. PICK c \in D : \A d \in D : c <= d
    BY <1>2, <1>3, FirstOne
  <1>5. /\ c \in 1..Len(s) /\ c - 1 \in 1..Len(s) /\ c - 1 \in a..b /\ a < c
        /\ s[c].time < s[a].time
    BY <1>1, <1>4
  <1>6. c - 1 \notin D
    BY <1>4, <1>5
  <1>7. s[a].time <= s[c - 1].time
    BY <1>1, <1>5, <1>6
  <1>8. c \notin Starts(s)
    BY <1>4, <1>5
  <1>9. ~Jumps(s[c - 1], s[c])
    BY <1>5, <1>8 DEF Starts, Breaks
  <1> QED BY <1>1, <1>5, <1>7, <1>9 DEF Jumps

Covers(e, t) == e.start <= t /\ t <= e.end

\* The last event has no length.
AtOnce(s, i) ==
  \E k \in Starts(s) : /\ k <= i /\ \A q \in Starts(s) : q <= k
                       /\ s[k].time = s[Len(s)].time

LEMMA EventsCover ==
  ASSUME NEW s \in Seq(Entry), Len(s) >= MinIFrames, NEW i \in 1..Len(s),
         Inside(s[i].time), ~AtOnce(s, i)
  PROVE  \E e \in EventsOf(s) : Covers(e, s[i].time)
  <1>1. /\ Len(s) \in Nat /\ \A j \in 1..Len(s) : s[j].time \in Nat
        /\ Starts(s) \subseteq 1..Len(s) /\ MinIFrames \in Nat /\ After \in Nat
    BY EntryFacts, IndexAssumption
  <1>2. PICK k \in Starts(s) : k <= i /\ \A q \in Starts(s) : q <= i => q <= k
    BY LastStart
  <1>3. k \in 1..Len(s) /\ s[k].time <= s[i].time
    BY <1>1, <1>2, Unbroken
  <1>4. CASE \E q \in Starts(s) : k < q
    <2>1. PICK j \in Starts(s) : Follows(s, k, j)
      BY <1>4, NextStart
    <2>2. /\ j \in 1..Len(s) /\ j - 1 \in 1..Len(s) /\ i <= j - 1 /\ k < j
      BY <1>1, <1>2, <2>1 DEF Follows
    <2>3. s[i].time <= s[j - 1].time
      BY <1>1, <1>2, <2>1, <2>2, Unbroken DEF Follows
    <2>4. ClosedEvent(s, k, j) \in EventsOf(s)
      <3>1. <<k, j>> \in {q \in Starts(s) \X Starts(s) : Follows(s, q[1], q[2])}
        BY <2>1
      <3>2. ~(Len(s) < MinIFrames)
        BY <1>1
      <3> QED BY <3>1, <3>2 DEF EventsOf
    <2>5. ClosedEvent(s, k, j).start <= s[i].time
      <3>1. ClosedEvent(s, k, j).start \in {FixEvenItenStartTime(s[k].time), s[k].time}
        BY DEF ClosedEvent
      <3>2. FixEvenItenStartTime(s[k].time) <= s[i].time
        BY <1>1, <1>3, FixedStart
      <3> QED BY <1>3, <3>1, <3>2
    <2>6. s[i].time <= ClosedEvent(s, k, j).end
      <3>1. CASE Jumps(s[j - 1], s[j])
        <4>1. ClosedEvent(s, k, j).end = s[j - 1].time + After
          BY <3>1 DEF ClosedEvent
        <4> QED BY <1>1, <2>2, <2>3, <4>1
      <3>2. CASE ~Jumps(s[j - 1], s[j])
        <4>1. ClosedEvent(s, k, j).end = s[j].time
          BY <3>2 DEF ClosedEvent
        <4> QED BY SMTT(30), <1>1, <2>2, <2>3, <3>2, <4>1 DEF Jumps
      <3> QED BY <3>1, <3>2
    <2> QED BY <2>4, <2>5, <2>6 DEF Covers
  <1>5. CASE \A q \in Starts(s) : q <= k
    <2>1. s[k].time # s[Len(s)].time
      BY <1>2, <1>5 DEF AtOnce
    <2>2. LastEvent(s, k) \in EventsOf(s)
      BY <1>1, <1>5, <2>1 DEF EventsOf
    <2>3. Len(s) \in 1..Len(s) /\ s[i].time <= s[Len(s)].time
      BY SMTT(30), <1>1, <1>2, <1>5, Unbroken
    <2>4. s[i].time <= FixEvenItenEndTime(s[Len(s)].time)
      BY <1>1, <2>3, FixedEnd
    <2> QED BY <1>3, <2>2, <2>4 DEF Covers, LastEvent
  <1> QED BY <1>1, <1>4, <1>5

-----------------------------------------------------------------------------
(* Mending an index.                                                       *)

\* A day has more than one hour.
LEMMA DayIsLong ==
  /\ DayLen \in Nat /\ HourLen \in Nat /\ Slack \in Nat /\ Slack <= HourLen
  /\ DayLen >= HourLen + HourLen
  <1>1. /\ DayLen \in Int /\ HourLen \in Int /\ HourLen > 0 /\ DayLen % HourLen = 0
        /\ HourLen < DayLen /\ Slack \in Nat /\ Slack <= HourLen /\ DayLen \in Nat
        /\ HourLen \in Nat
    BY IndexAssumption
  <1>2. PICK h : h = DayLen \div HourLen
    OBVIOUS
  <1>3. h \in Int /\ DayLen = HourLen * h
    BY <1>1, <1>2, Division
  <1>4. h >= 2
    <2>1. h <= 1 => HourLen * h <= HourLen * 1
      BY <1>1, <1>3
    <2> QED BY <1>1, <1>3, <2>1
  <1>5. HourLen * h >= HourLen * 2
    BY <1>1, <1>3, <1>4
  <1> QED BY <1>1, <1>3, <1>5

\* The times that the first entries are given lie in the first hour.
LEMMA FirstTimes ==
  ASSUME NEW i \in Nat, 1 <= i, i <= MinIFrames
  PROVE  After * (i - 1) \in 0..(HourLen - 1)
  <1>1. /\ After \in Nat /\ MinIFrames \in Nat /\ HourLen \in Nat
        /\ After * MinIFrames < HourLen
    BY IndexAssumption
  <1>2. After * (i - 1) <= After * MinIFrames /\ 0 <= After * (i - 1)
    BY <1>1
  <1> QED BY <1>1, <1>2

\* In an index of more than MinIFrames entries none of the first is the last.
LEMMA MendedEntry ==
  ASSUME NEW s \in Seq(Entry), Len(s) > MinIFrames, NEW i \in 1..Len(s)
  PROVE  /\ i <= MinIFrames /\ s[i].time > DayLen - Slack
              => Mended(s)[i] = [s[i] EXCEPT !.time = After * (i - 1)]
         /\ i = Len(s) /\ s[i].time < Slack
              => Mended(s)[i] = [s[i] EXCEPT !.time = DayLen - 1]
         /\ ~(i <= MinIFrames /\ s[i].time > DayLen - Slack)
              /\ ~(i = Len(s) /\ s[i].time < Slack)
              => Mended(s)[i] = s[i]
  <1>1. Len(s) \in Nat /\ MinIFrames \in Nat
    BY IndexAssumption
  <1>2. /\ Len(MendFirst(s)) = Len(s)
        /\ MendFirst(s)[i] = IF i <= MinIFrames /\ s[i].time > DayLen - Slack
                             THEN [s[i] EXCEPT !.time = After * (i - 1)] ELSE s[i]
    BY <1>1 DEF MendFirst
  <1>3. \A q : Len(q) = Len(s) =>
          MendLast(q)[i] = IF i = Len(s) /\ q[i].time < Slack
                           THEN [q[i] EXCEPT !.time = DayLen - 1] ELSE q[i]
    BY <1>1 DEF MendLast
  <1>4. Mended(s)[i] = IF i = Len(s) /\ MendFirst(s)[i].time < Slack
                       THEN [MendFirst(s)[i] EXCEPT !.time = DayLen - 1]
                       ELSE MendFirst(s)[i]
    BY <1>1, <1>2, <1>3 DEF Mended
  <1> QED BY <1>1, <1>2, <1>4

\* Mending an index again changes nothing.
LEMMA MendedOnce ==
  ASSUME NEW s \in Seq(Entry), Len(s) > MinIFrames
  PROVE  Mended(Mended(s)) = Mended(s)
  <1> DEFINE m == Mended(s)
  <1>1. /\ m \in Seq(Entry) /\ Len(m) = Len(s) /\ Len(s) \in Nat
        /\ Mended(m) \in Seq(Entry) /\ Len(Mended(m)) = Len(s)
    BY MendedType
  <1>2. ASSUME NEW i \in 1..Len(s) PROVE Mended(m)[i] = m[i]
    <2>1. /\ s[i] \in Entry /\ s[i].time \in Nat /\ i \in Nat /\ MinIFrames \in Nat
          /\ 1 <= i /\ DayLen \in Nat /\ HourLen \in Nat /\ Slack \in Nat
          /\ HourLen > 0
      <3>1. s[i].time \in Nat
        BY EntryFacts
      <3> QED BY <1>1, <3>1, IndexAssumption
    <2>2. ~(i <= MinIFrames /\ m[i].time > DayLen - Slack)
      <3>1. CASE i <= MinIFrames /\ s[i].time > DayLen - Slack
        <4>1. m[i] = [s[i] EXCEPT !.time = After * (i - 1)]
          BY <3>1, MendedEntry
        <4>2. m[i].time = After * (i - 1)
          BY <2>1, <4>1 DEF Entry
        <4>3. m[i].time \in 0..(HourLen - 1)
          BY <2>1, <3>1, <4>2, FirstTimes
        <4> QED BY <2>1, <4>3, DayIsLong
      <3>2. CASE i <= MinIFrames /\ ~(s[i].time > DayLen - Slack)
        <4>1. m[i] = s[i]
          <5>1. i # Len(s)
            BY <1>1, <2>1, <3>2
          <5> QED BY <3>2, <5>1, MendedEntry
        <4> QED BY <3>2, <4>1
      <3> QED BY <3>1, <3>2
    <2>3. ~(i = Len(s) /\ m[i].time < Slack)
      <3>1. CASE i = Len(s) /\ s[i].time < Slack
        <4>1. m[i] = [s[i] EXCEPT !.time = DayLen - 1]
          BY <3>1, MendedEntry
        <4>2. m[i].time = DayLen - 1
          BY <2>1, <4>1 DEF Entry
        <4> QED BY <2>1, <4>2, DayIsLong
      <3>2. CASE i = Len(s) /\ ~(s[i].time < Slack)
        <4>1. m[i] = s[i]
          <5>1. ~(i <= MinIFrames)
            BY <1>1, <2>1, <3>2
          <5> QED BY <3>2, <5>1, MendedEntry
        <4> QED BY <3>2, <4>1
      <3> QED BY <3>1, <3>2
    <2> QED BY <1>1, <2>2, <2>3, MendedEntry
  <1> QED BY <1>1, <1>2

-----------------------------------------------------------------------------
(* Listed.                                                                 *)

\* An event is known by its first entry.
LEMMA FirstsUnique ==
  ASSUME NEW s \in Seq(Entry), NEW d \in EventsOf(s), NEW e \in EventsOf(s),
         d.first = e.first
  PROVE  d = e
  <1>1. Len(s) >= MinIFrames /\ Starts(s) \subseteq Int
    <2>1. Len(s) \in Nat /\ MinIFrames \in Nat /\ Starts(s) \subseteq 1..Len(s)
      BY EntryFacts, IndexAssumption
    <2> QED BY <2>1 DEF EventsOf
  <1>2. ASSUME NEW x \in EventsOf(s)
        PROVE  \/ \E i, j \in Starts(s) : Follows(s, i, j) /\ x = ClosedEvent(s, i, j)
               \/ \E i \in Starts(s) : (\A j \in Starts(s) : j <= i) /\ x = LastEvent(s, i)
    BY DEF EventsOf
  <1>3. \A i, j : ClosedEvent(s, i, j).first = i /\ LastEvent(s, i).first = i
    BY DEF ClosedEvent, LastEvent
  <1>4. CASE \E i, j \in Starts(s) : Follows(s, i, j) /\ d = ClosedEvent(s, i, j)
    <2>1. PICK i, j \in Starts(s) : Follows(s, i, j) /\ d = ClosedEvent(s, i, j)
      BY <1>4
    <2>2. e.first = i /\ i < j
      BY <1>3, <2>1 DEF Follows
    <2>3. PICK q \in Starts(s) : Follows(s, i, q) /\ e = ClosedEvent(s, i, q)
      BY <1>1, <1>2, <1>3, <2>2
    <2>4. q = j
      BY <1>1, <2>1, <2>3 DEF Follows
    <2> QED BY <2>1, <2>3, <2>4
  <1>5. CASE \E i \in Starts(s) : (\A j \in Starts(s) : j <= i) /\ d = LastEvent(s, i)
    <2>1. PICK i \in Starts(s) : (\A j \in Starts(s) : j <= i) /\ d = LastEvent(s, i)
      BY <1>5
    <2>2. ~ \E q, j \in Starts(s) : Follows(s, q, j) /\ e = ClosedEvent(s, q, j)
      BY <1>1, <1>3, <2>1 DEF Follows
    <2>3. PICK q \in Starts(s) : e = LastEvent(s, q)
      BY <1>2, <2>2
    <2> QED BY <1>3, <2>1, <2>3
  <1> QED BY <1>2, <1>4, <1>5

FirstsDiffer == \A w \in Writers : \A d, e \in todo[w] : d.first = e.first => d = e

\* The index has been divided by the recorder and no frame was added since.
Whole ==
  /\ \/ rpc \in {"listing", "closed", "repair"}
     \/ rpc = "down" /\ ~m_bNonStop
  /\ spoilt \cap {"raced", "unlisted"} = {}
  /\ Len(idx) > MinIFrames

\* Listed, or about to be: a search that has read the list has deleted what its
\* event replaces.
Reached(t) ==
  \/ \E n \in Live : Covers(list[n].event, t)
  \/ \E e \in todo["recorder"] : Covers(e, t)
  \/ /\ eof["search"] # Unread
     /\ \E e \in todo["search"] : ComesFirst("search", e) /\ Covers(e, t)

AllReached ==
  /\ Mended(idx) = idx
  /\ \A i \in 1..Len(idx) : Inside(idx[i].time) /\ ~AtOnce(idx, i) => Reached(idx[i].time)

LInv ==
  /\ rpc \in {"open", "repair"} => m_bNonStop
  /\ FirstsDiffer
  /\ Whole => AllReached

LEMMA ParseFirsts ==
  ASSUME TypeOK, FirstsDiffer, NEW w \in Writers, NEW healed, Parse(w, healed)
  PROVE  FirstsDiffer'
  <1>1. /\ idx' \in Seq(Entry) /\ todo' = [todo EXCEPT ![w] = EventsOf(idx')]
        /\ todo \in [Writers -> SUBSET Event]
    BY ParseType DEF TypeOK
  <1>2. \A d, e \in EventsOf(idx') : d.first = e.first => d = e
    BY <1>1, FirstsUnique
  <1> QED BY <1>1, <1>2 DEF FirstsDiffer

\* When the recorder has divided the index each entry is in an event to be listed.
LEMMA ParseReaches ==
  ASSUME TypeOK, NEW healed, Parse("recorder", healed), Whole'
  PROVE  AllReached'
  <1>1. /\ idx \in Seq(Entry) /\ idx' \in Seq(Entry) /\ Len(idx') = Len(idx)
        /\ idx' = Mended(idx) /\ todo'["recorder"] = EventsOf(idx')
    BY ParseType DEF TypeOK, Parse, Writers
  <1>2. Len(idx) \in Nat /\ MinIFrames \in Nat /\ Len(idx) > MinIFrames
    BY <1>1, IndexAssumption DEF Whole
  <1>3. Mended(idx') = idx'
    BY <1>1, <1>2, MendedOnce
  <1>4. ASSUME NEW i \in 1..Len(idx'), Inside(idx'[i].time), ~AtOnce(idx', i)
        PROVE  \E e \in todo'["recorder"] : Covers(e, idx'[i].time)
    BY <1>1, <1>2, <1>4, EventsCover
  <1> QED BY <1>3, <1>4 DEF AllReached, Reached

LEMMA ScanReaches ==
  ASSUME TInv, LInv, NEW w \in Writers, AddScan(w)
  PROVE  LInv'
  <1>1. /\ UNCHANGED <<rpc, m_bNonStop, idx, spoilt>> /\ eof[w] = Unread
        /\ Writers = {"recorder", "search"}
    BY DEF AddScan, fileVars, Writers
  <1>2. \A v \in Writers : todo'[v] \subseteq todo[v]
    BY DEF AddScan, TInv, TypeOK
  <1>3. FirstsDiffer'
    BY <1>2 DEF LInv, FirstsDiffer
  <1>4. ASSUME NEW t \in Int, Reached(t) PROVE Reached(t)'
    <2>1. PICK e \in todo[w] :
            /\ ComesFirst(w, e)
            /\ IF w = "search" /\ ~Named
               THEN todo' = [todo EXCEPT ![w] = @ \ {e}] /\ UNCHANGED <<list, eof>>
               ELSE /\ list' = [i \in 1..Len(list) |->
                                  IF Replaces(e, list[i])
                                  THEN [list[i] EXCEPT !.deleted = TRUE] ELSE list[i]]
                    /\ eof' = [eof EXCEPT ![w] = Len(list) + 1]
                    /\ UNCHANGED todo
      BY DEF AddScan
    <2>2. CASE w = "search" /\ ~Named
      BY <1>1, <1>4, <2>1, <2>2 DEF Reached, Live, TInv, TypeOK
    <2>3. CASE ~(w = "search" /\ ~Named)
      <3>1. /\ todo' = todo /\ eof' = [eof EXCEPT ![w] = Len(list) + 1]
            /\ list' = [i \in 1..Len(list) |->
                          IF Replaces(e, list[i])
                          THEN [list[i] EXCEPT !.deleted = TRUE] ELSE list[i]]
            /\ Len(list) \in Nat /\ list \in Seq(Item) /\ eof \in [Writers -> Nat]
        BY <2>1, <2>3 DEF TInv, TypeOK
      <3>2. CASE \E n \in Live : Covers(list[n].event, t)
        <4>1. PICK n \in Live : Covers(list[n].event, t)
          BY <3>2
        <4>2. n \in 1..Len(list) /\ list[n] \in Item /\ ~list[n].deleted
          BY <3>1, <4>1 DEF Live
        <4>3. CASE Replaces(e, list[n])
          <5>1. e \in Event /\ list[n].event \in Event
            BY <4>2 DEF TInv, TypeOK, Item
          <5>2. Covers(e, t)
            BY <4>1, <4>3, <5>1 DEF Event, Covers, Replaces
          <5>3. CASE w = "recorder"
            BY <3>1, <5>2, <5>3 DEF Reached
          <5>4. CASE w = "search"
            <6>1. eof'["search"] # Unread
              BY <3>1, <5>4, <1>1 DEF Unread
            <6> QED BY <2>1, <3>1, <5>2, <5>4, <6>1 DEF Reached, ComesFirst
          <5> QED BY <1>1, <5>3, <5>4
        <4>4. CASE ~Replaces(e, list[n])
          <5>1. list'[n] = list[n] /\ Len(list') = Len(list)
            BY <3>1, <4>2, <4>4
          <5>2. n \in Live'
            BY <4>2, <5>1 DEF Live
          <5> QED BY <4>1, <5>1, <5>2 DEF Reached
        <4> QED BY <4>3, <4>4
      <3>3. CASE \E d \in todo["recorder"] : Covers(d, t)
        BY <3>1, <3>3 DEF Reached
      <3>4. CASE /\ eof["search"] # Unread
                 /\ \E d \in todo["search"] : ComesFirst("search", d) /\ Covers(d, t)
        BY <1>1, <3>1, <3>4 DEF Reached, ComesFirst
      <3> QED BY <1>4, <3>2, <3>3, <3>4 DEF Reached
    <2> QED BY <2>2, <2>3
  <1>5. (Whole => AllReached)'
    <2>1. \A i \in 1..Len(idx) : idx[i].time \in Int
      BY EntryFacts DEF TInv, TypeOK
    <2> QED BY <1>1, <1>4, <2>1 DEF LInv, Whole, AllReached, AtOnce
  <1> QED BY <1>1, <1>3, <1>5 DEF LInv

LEMMA AddReaches ==
  ASSUME TInv, LInv, NEW w \in Writers, AddWrite(w)
  PROVE  LInv'
  <1>1. /\ UNCHANGED <<rpc, m_bNonStop, idx>> /\ eof[w] # Unread
        /\ Writers = {"recorder", "search"}
    BY DEF AddWrite, fileVars, Writers
  <1>2. \A v \in Writers : todo'[v] \subseteq todo[v]
    BY DEF AddWrite, TInv, TypeOK
  <1>3. FirstsDiffer'
    BY <1>2 DEF LInv, FirstsDiffer
  <1>4. ASSUME eof[w] > Len(list), NEW t, Reached(t) PROVE Reached(t)'
    <2>1. PICK e \in todo[w] :
            /\ ComesFirst(w, e) /\ todo' = [todo EXCEPT ![w] = @ \ {e}]
            /\ list' = Put(list, eof[w], [event |-> e, deleted |-> FALSE],
                           [event |-> e, deleted |-> FALSE])
      BY DEF AddWrite
    <2>2. /\ eof[w] = Len(list) + 1 /\ Len(list) \in Nat /\ list \in Seq(Item)
          /\ todo \in [Writers -> SUBSET Event] /\ eof' = [eof EXCEPT ![w] = Unread]
          /\ eof \in [Writers -> Nat]
      BY <1>1, <1>4 DEF TInv, TypeOK, AddWrite
    <2>3. PICK item : item = [event |-> e, deleted |-> FALSE]
      OBVIOUS
    <2>4. /\ Len(list') = Len(list) + 1 /\ list'[Len(list) + 1] = item
          /\ \A n \in 1..Len(list) : list'[n] = list[n]
      BY <2>1, <2>2, <2>3 DEF Put
    <2>5. Len(list) + 1 \in Live' /\ list'[Len(list) + 1].event = e
      BY <2>2, <2>3, <2>4 DEF Live
    <2>6. \A n \in Live : n \in Live' /\ list'[n] = list[n]
      BY <2>2, <2>4 DEF Live
    <2>7. CASE \E n \in Live : Covers(list[n].event, t)
      BY <2>6, <2>7 DEF Reached
    <2>8. CASE \E d \in todo["recorder"] : Covers(d, t)
      <3>1. PICK d \in todo["recorder"] : Covers(d, t)
        BY <2>8
      <3>2. CASE d = e
        BY <2>5, <3>1, <3>2 DEF Reached
      <3>3. CASE d # e
        BY <1>1, <2>1, <2>2, <3>1, <3>3 DEF Reached
      <3> QED BY <3>2, <3>3
    <2>9. CASE /\ eof["search"] # Unread
               /\ \E d \in todo["search"] : ComesFirst("search", d) /\ Covers(d, t)
      <3>1. PICK d \in todo["search"] : ComesFirst("search", d) /\ Covers(d, t)
        BY <2>9
      <3>2. CASE w = "search"
        <4>1. d \in Event /\ e \in Event /\ d.first <= e.first /\ e.first <= d.first
          BY <2>1, <2>2, <3>1, <3>2 DEF ComesFirst
        <4>2. d = e
          BY <1>1, <2>1, <3>1, <3>2, <4>1 DEF LInv, FirstsDiffer, Event
        <4> QED BY <2>5, <3>1, <4>2 DEF Reached
      <3>3. CASE w = "recorder"
        <4>1. todo'["search"] = todo["search"] /\ eof'["search"] = eof["search"]
          BY <1>1, <2>1, <2>2, <3>3
        <4> QED BY <2>9, <3>1, <4>1 DEF Reached, ComesFirst
      <3> QED BY <1>1, <3>2, <3>3
    <2> QED BY <1>4, <2>7, <2>8, <2>9 DEF Reached
  <1>5. ASSUME Whole' PROVE AllReached'
    <2>1. ~(eof[w] <= Len(list)) /\ spoilt' = spoilt
      BY <1>5 DEF Whole, AddWrite
    <2>2. eof[w] > Len(list)
      BY <2>1 DEF TInv, TypeOK
    <2> QED BY <1>1, <1>4, <1>5, <2>1, <2>2 DEF LInv, Whole, AllReached, AtOnce
  <1> QED BY <1>1, <1>3, <1>5 DEF LInv

\* A crash leaves a file that is not repaired only when nothing was being listed.
LEMMA CrashReaches ==
  ASSUME TInv, LInv, Crash
  PROVE  LInv'
  <1>1. /\ rpc' = "down" /\ UNCHANGED <<m_bNonStop, idx, list>>
        /\ \A w \in Writers : todo'[w] = {}
    BY DEF Crash
  <1>2. FirstsDiffer'
    BY <1>1 DEF FirstsDiffer
  <1>3. ASSUME Whole' PROVE AllReached'
    <2>1. ~m_bNonStop /\ "unlisted" \notin spoilt' /\ "raced" \notin spoilt'
      BY <1>1, <1>3 DEF Whole
    <2>2. rpc = "closed" /\ spoilt' = spoilt /\ eof["search"] = Unread
      <3>1. rpc \notin {"open", "repair", "down"}
        BY <2>1 DEF LInv, Crash
      <3>2. rpc # "listing" /\ (\A w \in Writers : eof[w] = Unread) /\ spoilt' = spoilt
        BY <2>1, <3>1 DEF Crash
      <3> QED BY <3>1, <3>2 DEF TInv, TypeOK, Writers
    <2>3. todo["recorder"] = {}
      BY <2>2 DEF TInv, RecorderIdle
    <2>4. \A t : Reached(t) => Reached(t)'
      BY <1>1, <2>2, <2>3 DEF Reached, Live
    <2>5. Whole
      BY <1>1, <1>3, <2>2 DEF Whole
    <2> QED BY <1>1, <2>4, <2>5 DEF LInv, AllReached, AtOnce
  <1> QED BY <1>1, <1>2, <1>3 DEF LInv

\* A search while the file is being listed finds the index as the recorder left it.
LEMMA SearchReaches ==
  ASSUME TInv, LInv, UpdateListFile
  PROVE  LInv'
  <1>1. /\ UNCHANGED <<rpc, m_bNonStop, list, eof>> /\ Parse("search", {})
        /\ todo["search"] = {} /\ "search" \in Writers
    BY DEF UpdateListFile, Writers
  <1>2. FirstsDiffer'
    BY <1>1, ParseFirsts DEF TInv, LInv
  <1>3. ASSUME Whole' PROVE AllReached'
    <2>1. Whole
      <3>1. Len(idx') = Len(idx)
        BY <1>1, ParseType DEF TInv
      <3>2. spoilt \subseteq spoilt'
        BY <1>1 DEF Parse
      <3> QED BY <1>1, <1>3, <3>1, <3>2 DEF Whole
    <2>2. idx' = idx
      BY <1>1, <2>1 DEF Parse, LInv, AllReached
    <2>3. todo'["recorder"] = todo["recorder"]
      BY <1>1 DEF Parse, TInv, TypeOK, Writers
    <2>4. \A t : Reached(t) => Reached(t)'
      BY <1>1, <2>3 DEF Reached, Live
    <2> QED BY <2>1, <2>2, <2>4 DEF LInv, AllReached, AtOnce
  <1> QED BY <1>1, <1>2, <1>3 DEF LInv

(* What was recorded for an hour is reached by an event of it that is listed or still to
   be listed, at every place of recorder, search and repair.                          *)
THEOREM Reaches == Spec => []LInv
  <1>1. Init => LInv
    <2>1. Init => Len(idx) = 0
      BY DEF Init
    <2> QED BY <2>1, IndexAssumption DEF Init, LInv, FirstsDiffer, Whole
  <1>2. ASSUME TInv, LInv, [Next]_vars PROVE LInv'
    <2>1. CASE OpenRecordFile
      BY <1>2, <2>1 DEF OpenRecordFile, listVars, LInv, FirstsDiffer, Whole
    <2>2. CASE CloseRecordFile
      <3>1. Parse("recorder", {"raced", "unlisted"}) /\ rpc' = "listing"
        BY <2>2 DEF CloseRecordFile
      <3> QED BY <1>2, <3>1, ParseFirsts, ParseReaches DEF TInv, LInv, Writers
    <2>3. CASE ClearRecordInfor \/ RepairDone
      <3>1. /\ UNCHANGED <<idx, list, todo, eof, spoilt>> /\ rpc' = "closed"
            /\ rpc \in {"listing", "repair"}
        BY <2>3 DEF ClearRecordInfor, RepairDone, fileVars, listVars
      <3> QED BY <1>2, <3>1 DEF LInv, FirstsDiffer, Whole, AllReached, AtOnce, Reached, Live,
                               ComesFirst
    <2>4. CASE \E d \in Steps, k \in Kinds : WriteRecordFile(d, k)
      <3>1. UNCHANGED <<rpc, todo, m_bNonStop>> /\ rpc = "open"
        BY <2>4 DEF WriteRecordFile, listVars
      <3> QED BY <1>2, <3>1 DEF LInv, FirstsDiffer, Whole
    <2>5. CASE \E t \in Clocks : RederectFilePosition(hour * HourLen + t)
      <3>1. UNCHANGED <<rpc, todo, m_bNonStop>> /\ rpc = "open"
        BY <2>5 DEF RederectFilePosition
      <3> QED BY <1>2, <3>1 DEF LInv, FirstsDiffer, Whole
    <2>6. CASE UpdateListFile
      BY <1>2, <2>6, SearchReaches
    <2>7. CASE \E w \in Writers : AddScan(w) \/ AddWrite(w)
      BY <1>2, <2>7, ScanReaches, AddReaches
    <2>8. CASE Crash
      BY <1>2, <2>8, CrashReaches
    <2>9. CASE fixNotCloseFile
      <3>1. CASE m_bNonStop
        <4>1. /\ Parse("recorder", {"raced", "unlisted"}) /\ rpc' = "repair"
              /\ UNCHANGED m_bNonStop
          BY <2>9, <3>1 DEF fixNotCloseFile
        <4> QED BY <1>2, <3>1, <4>1, ParseFirsts, ParseReaches DEF TInv, LInv, Writers
      <3>2. CASE ~m_bNonStop
        <4>1. /\ UNCHANGED <<idx, list, todo, eof, spoilt>> /\ rpc' = "closed" /\ rpc = "down"
          BY <2>9, <3>2 DEF fixNotCloseFile
        <4> QED BY <1>2, <3>2, <4>1 DEF LInv, FirstsDiffer, Whole, AllReached, AtOnce, Reached,
                                       Live, ComesFirst
      <3> QED BY <3>1, <3>2
    <2>10. CASE UNCHANGED vars
      BY <1>2, <2>10 DEF vars, fileVars, listVars, LInv, FirstsDiffer, Whole, AllReached,
                         AtOnce, Reached, Live, ComesFirst
    <2> QED BY <1>2, <2>1, <2>2, <2>3, <2>4, <2>5, <2>6, <2>7, <2>8, <2>9, <2>10 DEF Next
  <1> QED BY <1>1, <1>2, TypesAndIdle, PTL DEF Spec

\* Whatever the frames, the searches, the clock and the crashes: once the file is
\* closed or repaired, and unless two writers of the list met or the program ended
\* while it closed the file, every I frame lies in an event of the list.
THEOREM EveryFrameListed == Spec => []Listed
  <1>1. LInv /\ TypeOK => Listed
    <2> SUFFICES ASSUME LInv, TypeOK, AtRest, Len(idx) > MinIFrames,
                        spoilt \cap {"raced", "unlisted"} = {},
                        NEW i \in 1..Len(idx), Inside(idx[i].time), ~EndsAtOnce(i)
                 PROVE  \E n \in Live : /\ list[n].event.start <= idx[i].time
                                        /\ idx[i].time <= list[n].event.end
      BY DEF Listed
    <2>1. ~AtOnce(idx, i)
      <3>1. SUFFICES ASSUME NEW k \in Starts(idx), k <= i, \A q \in Starts(idx) : q <= k,
                            idx[k].time = idx[Len(idx)].time
                     PROVE  EndsAtOnce(i)
        BY DEF AtOnce
      <3>2. Starts(idx) \subseteq Int
        BY DEF Starts, TypeOK
      <3>3. (CHOOSE j \in Starts(idx) : \A m \in Starts(idx) : m <= j) = k
        BY <3>1, <3>2
      <3> QED BY <3>1, <3>3 DEF EndsAtOnce
    <2>2. Reached(idx[i].time)
      BY <2>1 DEF LInv, Whole, AllReached, AtRest
    <2>3. todo["recorder"] = {} /\ todo["search"] = {}
      BY DEF AtRest, Writers
    <2> QED BY <2>2, <2>3 DEF Reached, Covers
  <1> QED BY <1>1, Reaches, TypesAndIdle, PTL DEF TInv

-----------------------------------------------------------------------------
(* Nothing is listed for the time to come.                                 *)

LEMMA HourRange ==
  ASSUME TypeOK
  PROVE  /\ hour \in Nat /\ hour * HourLen \in Nat /\ now \in Nat
         /\ hour * HourLen + HourLen <= DayLen /\ HourLen >= 4
  <1>1. /\ hour \in 0..((DayLen \div HourLen) - 1) /\ HourLen \in Nat /\ HourLen > 0
        /\ DayLen \in Nat /\ DayLen % HourLen = 0 /\ Slight \in Nat /\ Slight >= 2
        /\ 2 * Slight <= HourLen /\ now \in Nat
    BY IndexAssumption DEF TypeOK
  <1>2. PICK h : h = DayLen \div HourLen
    OBVIOUS
  <1>3. h \in Int /\ DayLen = HourLen * h
    BY <1>1, <1>2, Division
  <1>4. hour \in Nat /\ hour < h
    BY <1>1, <1>2, <1>3
  <1>5. hour * HourLen + HourLen <= h * HourLen
    BY <1>3, <1>4, Multiples
  <1>6. HourLen * h = h * HourLen /\ hour * HourLen \in Nat
    BY <1>1, <1>3, <1>4
  <1> QED BY <1>1, <1>3, <1>4, <1>5, <1>6

\* The last second of the day is near to a full hour.
LEMMA LastSecondNear == (DayLen - 1) % HourLen = HourLen - 1 /\ ~Inside(DayLen - 1)
  <1>1. /\ HourLen \in Int /\ HourLen > 0 /\ DayLen \in Int /\ DayLen % HourLen = 0
        /\ Slight \in Int /\ Slight >= 2
    BY IndexAssumption
  <1>2. PICK h : h = DayLen \div HourLen
    OBVIOUS
  <1>3. h \in Int /\ DayLen = HourLen * h
    BY <1>1, <1>2, Division
  <1>4. /\ DayLen - 1 = HourLen * (h - 1) + (HourLen - 1)
        /\ HourLen - 1 \in 0..(HourLen - 1) /\ h - 1 \in Int /\ DayLen - 1 \in Int
    BY <1>1, <1>3
  <1>5. (DayLen - 1) % HourLen = HourLen - 1
    BY <1>1, <1>4, Quotient
  <1> QED BY <1>1, <1>5 DEF Inside

\* The clock is near its hour ...
NowInHour ==
  /\ DayLen + hour * HourLen - 2 <= now
  /\ now <= DayLen + hour * HourLen + HourLen

\* ... so that a time of that hour is one of the file's day.
LEMMA TimeOfNow ==
  ASSUME TypeOK, NEW n \in Nat, DayLen + hour * HourLen - 2 <= n,
         n <= DayLen + hour * HourLen + HourLen, HourOf(n % DayLen) = hour
  PROVE  DayLen + (n % DayLen) = n
  <1> DEFINE p == hour * HourLen
  <1>1. /\ hour \in Nat /\ p \in Nat /\ p + HourLen <= DayLen /\ HourLen >= 4
        /\ DayLen \in Nat /\ HourLen \in Nat /\ DayLen >= HourLen + HourLen
        /\ DayLen + p - 2 <= n /\ n <= DayLen + p + HourLen
    BY HourRange, DayIsLong
  <1>2. CASE n < DayLen
    <2>1. /\ n = DayLen * 0 + n /\ n \in 0..(DayLen - 1) /\ DayLen > 0 /\ n \in Int
          /\ DayLen \in Int
      BY <1>1, <1>2
    <2>2. n % DayLen = n
      BY <2>1, Quotient
    <2>3. p < 2 /\ HourLen \in Int /\ HourLen <= n /\ HourLen < HourLen + HourLen
      BY <1>1, <1>2
    <2>4. hour = 0
      <3>1. hour >= 1 => hour * HourLen >= HourLen
        BY <1>1
      <3> QED BY <1>1, <2>3, <3>1
    <2>5. HourOf(HourLen) = 1
      <3>1. 1 * HourLen <= HourLen /\ HourLen < 1 * HourLen + HourLen /\ 1 \in Int
        BY <1>1
      <3> QED BY <2>3, <3>1, HourIs
    <2>6. 1 <= HourOf(n)
      BY <2>1, <2>3, <2>5, LaterHour
    <2> QED BY <2>2, <2>4, <2>6
  <1>3. CASE DayLen <= n /\ n < DayLen + DayLen
    <2>1. /\ n = DayLen * 1 + (n - DayLen) /\ n - DayLen \in 0..(DayLen - 1)
          /\ DayLen > 0 /\ n \in Int /\ DayLen \in Int
      BY <1>1, <1>3
    <2>2. n % DayLen = n - DayLen
      BY <2>1, Quotient
    <2> QED BY <1>1, <2>2
  <1>4. CASE n = DayLen + DayLen
    <2>1. /\ n = DayLen * 2 + 0 /\ 0 \in 0..(DayLen - 1) /\ DayLen > 0 /\ n \in Int
          /\ DayLen \in Int
      BY <1>1, <1>4
    <2>2. n % DayLen = 0
      BY <2>1, Quotient
    <2>3. HourOf(0) = 0
      <3>1. 0 * HourLen <= 0 /\ 0 < 0 * HourLen + HourLen /\ 0 \in Int
        BY <1>1
      <3> QED BY <3>1, HourIs
    <2>4. hour = 0
      BY <2>2, <2>3
    <2>5. p = 0
      BY <1>1, <2>4
    <2> QED BY <1>1, <1>4, <2>5
  <1> QED BY <1>1, <1>2, <1>3, <1>4

\* The times that an index may get when it is mended.
LEMMA MendedTimes ==
  ASSUME NEW s \in Seq(Entry), NEW i \in 1..Len(s)
  PROVE  \/ Mended(s)[i].time = s[i].time
         \/ Mended(s)[i].time = DayLen - 1
         \/ HourOf(Mended(s)[i].time) = 0
  <1>1. /\ Len(s) \in Nat /\ MinIFrames \in Nat /\ i \in Nat /\ 1 <= i
        /\ HourLen \in Nat /\ HourLen > 0
    BY IndexAssumption
  <1>2. \A q : Len(q) = Len(s) /\ q[i] \in Entry
                 => MendLast(q)[i].time \in {q[i].time, DayLen - 1}
    BY <1>1 DEF MendLast, Entry
  <1>3. /\ Len(MendFirst(s)) = Len(s)
        /\ MendFirst(s)[i] = IF i <= MinIFrames /\ s[i].time > DayLen - Slack
                             THEN [s[i] EXCEPT !.time = After * (i - 1)] ELSE s[i]
    BY <1>1 DEF MendFirst
  <1>4. s[i] \in Entry
    OBVIOUS
  <1>5. CASE i <= MinIFrames /\ s[i].time > DayLen - Slack
    <2>1. After * (i - 1) \in 0..(HourLen - 1)
      BY <1>1, <1>5, FirstTimes
    <2>2. MendFirst(s)[i] \in Entry /\ MendFirst(s)[i].time = After * (i - 1)
      <3>1. After * (i - 1) \in Nat
        BY <1>1, <2>1
      <3> QED BY <1>3, <1>4, <1>5, <3>1 DEF Entry
    <2>3. HourOf(After * (i - 1)) = 0
      <3>1. PICK t \in Int : t = After * (i - 1)
        BY <1>1, <2>1
      <3>2. 0 * HourLen <= t /\ t < 0 * HourLen + HourLen /\ 0 \in Int
        BY <1>1, <2>1, <3>1
      <3> QED BY <3>1, <3>2, HourIs
    <2> QED BY <1>2, <1>3, <2>2, <2>3 DEF Mended
  <1>6. CASE ~(i <= MinIFrames /\ s[i].time > DayLen - Slack)
    BY <1>2, <1>3, <1>4, <1>6 DEF Mended
  <1> QED BY <1>5, <1>6

NotAhead(t, h, n) == HourOf(t) = h => DayLen + t <= n \/ t = DayLen - 1
EndsByNow(e, h, n) == HourOf(e.end) = h /\ Inside(e.end) => DayLen + e.end <= n + After

NInv ==
  /\ NowInHour
  /\ TimesTrue => \A i \in 1..Len(idx) : NotAhead(idx[i].time, hour, now)
  /\ "stale" \notin spoilt /\ TimesTrue
       => /\ \A n \in Live : EndsByNow(list[n].event, hour, now)
          /\ \A w \in Writers : \A e \in todo[w] : EndsByNow(e, hour, now)

\* An event ends with a frame, shortly after one, or with the hour.
LEMMA EndsOfEvents ==
  ASSUME NEW s \in Seq(Entry), NEW e \in EventsOf(s)
  PROVE  \/ \E i \in 1..Len(s) : e.end = s[i].time \/ e.end = s[i].time + After
         \/ e.end % HourLen = HourLen - 1
  <1>1. Len(s) \in Nat /\ Starts(s) \subseteq 1..Len(s)
    BY EntryFacts
  <1>2. CASE \E i, j \in Starts(s) : Follows(s, i, j) /\ e = ClosedEvent(s, i, j)
    <2>1. PICK i, j \in Starts(s) : Follows(s, i, j) /\ e = ClosedEvent(s, i, j)
      BY <1>2
    <2>2. j \in 1..Len(s) /\ j - 1 \in 1..Len(s)
      BY <1>1, <2>1 DEF Follows
    <2>3. e.end \in {s[j - 1].time + After, s[j].time}
      BY <2>1 DEF ClosedEvent
    <2> QED BY <2>2, <2>3
  <1>3. CASE \E i \in Starts(s) : e = LastEvent(s, i)
    <2>1. Len(s) \in 1..Len(s) /\ s[Len(s)].time \in Int
      <3>1. Len(s) \in 1..Len(s)
        BY <1>1, <1>3
      <3> QED BY <3>1, EntryFacts
    <2>2. PICK t \in Int : t = s[Len(s)].time
      BY <2>1
    <2>3. e.end = FixEvenItenEndTime(t)
      BY <1>3, <2>2 DEF LastEvent
    <2>4. \A h \in Int : LastSecond(h) % HourLen = HourLen - 1
      <3>1. SUFFICES ASSUME NEW h \in Int PROVE LastSecond(h) % HourLen = HourLen - 1
        OBVIOUS
      <3>2. /\ h * HourLen \in Int /\ HourLen \in Int /\ HourLen >= 1
        BY IndexAssumption
      <3>3. /\ h * HourLen <= LastSecond(h) /\ LastSecond(h) < h * HourLen + HourLen
            /\ LastSecond(h) \in Int /\ LastSecond(h) - h * HourLen = HourLen - 1
        BY <3>2 DEF LastSecond
      <3> QED BY <3>3, HourIs
    <2>5. HourOf(t) \in Int
      BY HourParts
    <2>6. \/ e.end = t \/ e.end = DayLen - 1
          \/ \E h \in Int : e.end = LastSecond(h)
      BY <2>3, <2>5 DEF FixEvenItenEndTime
    <2> QED BY <2>1, <2>2, <2>4, <2>6, LastSecondNear
  <1> QED BY <1>2, <1>3 DEF EventsOf

\* From entries that are not ahead of the clock come events that are not.
LEMMA EventsByNow ==
  ASSUME TypeOK, NEW s \in Seq(Entry), \A i \in 1..Len(s) : NotAhead(s[i].time, hour, now),
         NEW e \in EventsOf(s)
  PROVE  EndsByNow(e, hour, now)
  <1> SUFFICES ASSUME HourOf(e.end) = hour, Inside(e.end)
               PROVE  DayLen + e.end <= now + After
    BY DEF EndsByNow
  <1>1. /\ HourLen \in Int /\ Slight \in Int /\ Slight >= 2 /\ After \in Nat /\ Slack \in Nat
        /\ After < Slack /\ Slack <= HourLen /\ DayLen \in Nat /\ now \in Nat
    BY IndexAssumption DEF TypeOK
  <1>2. e.end % HourLen # HourLen - 1
    BY <1>1 DEF Inside
  <1>3. PICK i \in 1..Len(s) : e.end = s[i].time \/ e.end = s[i].time + After
    BY <1>2, EndsOfEvents
  <1>4. PICK t \in Nat : t = s[i].time
    BY EntryFacts
  <1>5. CASE e.end = t
    BY <1>1, <1>4, <1>5, LastSecondNear DEF NotAhead
  <1>6. CASE e.end = t + After
    <2>1. PICK u \in Int : u = t + After
      BY <1>1
    <2>2. PICK pt, pu, rt, ru \in Int :
            /\ pt = HourOf(t) * HourLen /\ rt = t % HourLen /\ t = pt + rt
            /\ pu = HourOf(u) * HourLen /\ ru = u % HourLen /\ u = pu + ru
            /\ 0 <= rt /\ rt < HourLen /\ 0 <= ru /\ ru < HourLen
            /\ HourOf(t) \in Int /\ HourOf(u) \in Int
      <3>1. t \in Int
        OBVIOUS
      <3> QED BY <3>1, HourParts
    <2>0. /\ t = pt + rt /\ u = pu + ru /\ HourOf(t) \in Int /\ HourOf(u) \in Int
          /\ 0 <= rt /\ rt < HourLen /\ 0 <= ru /\ ru < HourLen
      BY <2>2
    <2>3. ru >= Slack /\ ru # HourLen - 1 /\ HourOf(u) = hour
      BY <1>2, <1>6, <2>1, <2>2 DEF Inside
    <2>4. HourOf(t) = hour
      <3>1. HourOf(t) <= HourOf(u)
        BY <1>1, <2>1, LaterHour
      <3>2. CASE HourOf(t) < HourOf(u)
        <4>1. pt + HourLen <= pu
          BY <2>2, <3>2, Multiples
        <4> QED BY <1>1, <2>0, <2>1, <2>3, <4>1
      <3> QED BY <2>0, <2>3, <3>1, <3>2
    <2>5. CASE t = DayLen - 1
      <3>1. rt = HourLen - 1
        BY <2>2, <2>5, LastSecondNear
      <3>2. pt = pu
        BY <2>2, <2>3, <2>4
      <3> QED BY <1>1, <2>0, <2>1, <2>3, <3>1, <3>2
    <2>6. CASE DayLen + t <= now
      BY <1>1, <1>6, <2>6
    <2> QED BY <1>4, <2>4, <2>5, <2>6 DEF NotAhead
  <1> QED BY <1>3, <1>4, <1>5, <1>6

\* What was not ahead of the clock is not so later.
LEMMA StillByNow ==
  ASSUME TypeOK, TypeOK', NInv, UNCHANGED hour, now <= now'
  PROVE  /\ \A t \in Nat : NotAhead(t, hour, now) => NotAhead(t, hour', now')
         /\ \A e \in Event : EndsByNow(e, hour, now) => EndsByNow(e, hour', now')
  <1>1. now \in Nat /\ now' \in Nat /\ DayLen \in Nat /\ After \in Nat
    BY IndexAssumption DEF TypeOK
  <1> QED BY <1>1 DEF NotAhead, EndsByNow, Inside, HourOf, Event

\* A step that leaves the clock, the frames and what went wrong with them alone
\* and takes the events of the list from those known.
LEMMA KnownByNow ==
  ASSUME TypeOK, NInv, UNCHANGED <<hour, now, idx>>, spoilt \subseteq spoilt',
         \A n \in Live' : \/ n \in Live /\ list'[n].event = list[n].event
                          \/ \E w \in Writers : list'[n].event \in todo[w],
         \A w \in Writers : todo'[w] \subseteq todo[w]
  PROVE  NInv'
  <1>1. TimesTrue' => TimesTrue
    BY DEF TimesTrue
  <1>2. /\ NowInHour' /\ \A t : NotAhead(t, hour, now) => NotAhead(t, hour', now')
        /\ \A e : EndsByNow(e, hour, now) => EndsByNow(e, hour', now')
    BY DEF NInv, NowInHour, NotAhead, EndsByNow, Inside, HourOf
  <1>3. TimesTrue' => \A i \in 1..Len(idx') : NotAhead(idx'[i].time, hour', now')
    BY <1>1, <1>2 DEF NInv
  <1>4. "stale" \notin spoilt' /\ TimesTrue'
          => /\ \A n \in Live' : EndsByNow(list'[n].event, hour', now')
             /\ \A w \in Writers : \A e \in todo'[w] : EndsByNow(e, hour', now')
    BY <1>1, <1>2 DEF NInv
  <1> QED BY <1>2, <1>3, <1>4 DEF NInv

LEMMA ParseByNow ==
  ASSUME TypeOK, NInv, NEW w \in Writers, NEW healed \in SUBSET {"raced", "unlisted"},
         Parse(w, healed), UNCHANGED <<hour, now, list>>
  PROVE  NInv'
  <1>1. /\ idx \in Seq(Entry) /\ idx' \in Seq(Entry) /\ Len(idx') = Len(idx)
        /\ todo' = [todo EXCEPT ![w] = EventsOf(idx')] /\ idx' = Mended(idx)
        /\ todo \in [Writers -> SUBSET Event]
    BY ParseType DEF TypeOK, Parse
  <1>2. /\ TimesTrue' => TimesTrue
        /\ "stale" \notin spoilt' => "stale" \notin spoilt
        /\ "mended" \notin spoilt' => idx' = idx
    BY DEF TimesTrue, Parse
  <1>3. /\ NowInHour' /\ \A t : NotAhead(t, hour, now) <=> NotAhead(t, hour', now')
        /\ \A e : EndsByNow(e, hour, now) <=> EndsByNow(e, hour', now')
    BY DEF NInv, NowInHour, NotAhead, EndsByNow, Inside, HourOf
  <1>4. ASSUME TimesTrue', NEW i \in 1..Len(idx') PROVE NotAhead(idx'[i].time, hour, now)
    <2>1. CASE "mended" \notin spoilt'
      BY <1>2, <1>4, <2>1 DEF NInv
    <2>2. CASE hour # 0
      <3>1. \/ idx'[i].time = idx[i].time \/ idx'[i].time = DayLen - 1
            \/ HourOf(idx'[i].time) = 0
        BY <1>1, <1>4, MendedTimes
      <3>2. NotAhead(idx[i].time, hour, now)
        BY <1>1, <1>2, <1>4 DEF NInv
      <3> QED BY <2>2, <3>1, <3>2 DEF NotAhead
    <2> QED BY <1>4, <2>1, <2>2 DEF TimesTrue
  <1>5. TimesTrue' => \A e \in EventsOf(idx') : EndsByNow(e, hour, now)
    BY <1>1, <1>4, EventsByNow
  <1>6. "stale" \notin spoilt' /\ TimesTrue'
          => /\ \A n \in Live' : EndsByNow(list'[n].event, hour', now')
             /\ \A v \in Writers : \A e \in todo'[v] : EndsByNow(e, hour', now')
    <2>1. Live' = Live
      BY DEF Live
    <2>2. SUFFICES ASSUME "stale" \notin spoilt', TimesTrue'
                   PROVE  /\ \A n \in Live : EndsByNow(list[n].event, hour, now)
                          /\ \A v \in Writers : \A e \in todo'[v] : EndsByNow(e, hour, now)
      BY <1>3, <2>1
    <2>3. /\ \A n \in Live : EndsByNow(list[n].event, hour, now)
          /\ \A v \in Writers : \A e \in todo[v] : EndsByNow(e, hour, now)
      BY <1>2, <2>2 DEF NInv
    <2>4. \A v \in Writers : todo'[v] = IF v = w THEN EventsOf(idx') ELSE todo[v]
      BY <1>1
    <2> QED BY <1>5, <2>2, <2>3, <2>4
  <1> QED BY <1>3, <1>4, <1>6 DEF NInv

LEMMA WriteByNow ==
  ASSUME TypeOK, TypeOK', NInv, NEW d \in Steps, NEW kind \in Kinds, WriteRecordFile(d, kind)
  PROVE  NInv'
  <1>1. /\ UNCHANGED <<hour, list, todo, eof, rpc, spoilt>> /\ now' = now + d
        /\ now' <= DayLen + (hour + 1) * HourLen
    BY DEF WriteRecordFile, listVars
  <1>2. /\ d \in Nat /\ now \in Nat /\ hour * HourLen \in Nat /\ HourLen \in Nat
        /\ DayLen \in Nat /\ (hour + 1) * HourLen = hour * HourLen + HourLen
    <2>1. hour \in Nat /\ now \in Nat /\ hour * HourLen \in Nat
      BY HourRange
    <2>2. HourLen \in Nat /\ DayLen \in Nat /\ d \in Nat
      BY IndexAssumption
    <2>3. (hour + 1) * HourLen = hour * HourLen + HourLen
      BY <2>1, <2>2
    <2> QED BY <2>1, <2>2, <2>3
  <1>3. /\ now <= now' /\ NowInHour' /\ now' \in Nat
        /\ DayLen + hour * HourLen - 2 <= now' /\ now' <= DayLen + hour * HourLen + HourLen
    BY <1>1, <1>2 DEF NInv, NowInHour
  <1>4. /\ \A t \in Nat : NotAhead(t, hour, now) => NotAhead(t, hour', now')
        /\ \A e \in Event : EndsByNow(e, hour, now) => EndsByNow(e, hour', now')
    BY <1>1, <1>3, StillByNow
  <1>5. NotAhead(now' % DayLen, hour', now')
    <2>1. HourOf(now' % DayLen) = hour => DayLen + (now' % DayLen) = now'
      BY <1>3, TimeOfNow
    <2> QED BY <1>1, <1>3, <2>1 DEF NotAhead, HourOf
  <1>6. \A i \in 1..Len(idx') : \/ i \in 1..Len(idx) /\ idx'[i] = idx[i]
                                \/ idx'[i].time = now' % DayLen
    <2>1. /\ Len(idx) \in Nat /\ ipos \in Nat /\ ipos <= Len(idx) + 1
      BY DEF TypeOK
    <2>2. PICK e : e = [time |-> now' % DayLen, off |-> m_offset, kind |-> kind]
      OBVIOUS
    <2>3. idx' = Put(idx, ipos, e, Zeroed) /\ e.time = now' % DayLen
      BY <2>2 DEF WriteRecordFile
    <2> QED BY <2>1, <2>3 DEF Put
  <1>7. TimesTrue' => \A i \in 1..Len(idx') : NotAhead(idx'[i].time, hour', now')
    <2>1. \A i \in 1..Len(idx) : idx[i].time \in Nat
      BY EntryFacts DEF TypeOK
    <2> QED BY <1>1, <1>4, <1>5, <1>6, <2>1 DEF NInv, TimesTrue
  <1>8. "stale" \notin spoilt' /\ TimesTrue'
          => /\ \A n \in Live' : EndsByNow(list'[n].event, hour', now')
             /\ \A v \in Writers : \A e \in todo'[v] : EndsByNow(e, hour', now')
    <2>1. \A n \in Live : list[n].event \in Event
      <3>1. \A n \in Live : list[n] \in Item
        BY DEF Live, TypeOK
      <3> QED BY <3>1 DEF Item
    <2>2. \A v \in Writers : todo[v] \subseteq Event
      BY DEF TypeOK
    <2> QED BY <1>1, <1>4, <2>1, <2>2 DEF NInv, TimesTrue, Live
  <1> QED BY <1>3, <1>7, <1>8 DEF NInv

\* What was listed for later is taken from the list with the clock, unless a
\* search still had to list it.
LEMMA RederectByNow ==
  ASSUME TInv, TypeOK', NInv, NEW s \in Clocks, RederectFilePosition(hour * HourLen + s)
  PROVE  NInv'
  <1>1. PICK t \in Nat : t = hour * HourLen + s
    <2>1. hour * HourLen \in Nat /\ s \in Nat
      BY HourRange, IndexAssumption DEF TInv
    <2> QED BY <2>1
  <1>2. /\ UNCHANGED <<hour, todo>> /\ now' = DayLen + t /\ rpc = "open"
        /\ idx' = [i \in 1..Len(idx) |-> IF i \in Kept(t) THEN idx[i] ELSE Zeroed]
        /\ list' = [i \in 1..Len(list) |->
                      IF HourOf(list[i].event.end) = HourOf(t) /\ list[i].event.end > t
                      THEN [list[i] EXCEPT !.deleted = TRUE] ELSE list[i]]
        /\ spoilt' = spoilt \cup {"jumped"}
                      \cup (IF todo["search"] # {} THEN {"stale"} ELSE {})
    BY <1>1 DEF RederectFilePosition
  <1>3. /\ hour * HourLen \in Nat /\ s \in Nat /\ s < HourLen /\ HourLen \in Nat
        /\ DayLen \in Nat /\ hour \in Nat /\ After \in Nat
    BY HourRange, IndexAssumption DEF TInv
  <1>4. HourOf(t) = hour
    BY <1>1, <1>3, HourIs
  <1>5. NowInHour'
    <2>1. DayLen + hour * HourLen - 2 <= now' /\ now' <= DayLen + hour * HourLen + HourLen
      <3>1. PICK p \in Nat : p = hour * HourLen
        BY <1>3
      <3>2. t = p + s /\ now' = DayLen + t
        BY <1>1, <1>2, <3>1
      <3>3. DayLen + p - 2 <= now' /\ now' <= DayLen + p + HourLen
        BY <1>3, <3>2
      <3> QED BY <3>1, <3>3
    <2> QED BY <1>2, <2>1 DEF NowInHour
  <1>6. \A i \in 1..Len(idx') : NotAhead(idx'[i].time, hour', now')
    <2>1. SUFFICES ASSUME NEW i \in 1..Len(idx')
                   PROVE  DayLen + idx'[i].time <= now'
      BY DEF NotAhead
    <2>2. Len(idx) \in Nat /\ i \in 1..Len(idx) /\ idx[i].time \in Nat
      BY SMTT(30), <1>2, EntryFacts DEF TInv, TypeOK
    <2>3. idx'[i] = IF i \in Kept(t) THEN idx[i] ELSE Zeroed
      BY <1>2, <2>2
    <2>4. idx'[i].time <= t
      BY <2>2, <2>3 DEF Kept, Zeroed
    <2>5. idx'[i].time \in Nat
      BY <2>2, <2>3 DEF Zeroed
    <2>6. PICK u \in Nat : u = idx'[i].time
      BY <2>5
    <2>7. now' = DayLen + t /\ t \in Nat /\ DayLen \in Nat
      BY <1>1, <1>2, <1>3
    <2> QED BY <2>4, <2>6, <2>7
  <1>7. ASSUME "stale" \notin spoilt', TimesTrue'
        PROVE  /\ \A n \in Live' : EndsByNow(list'[n].event, hour', now')
               /\ \A v \in Writers : \A e \in todo'[v] : EndsByNow(e, hour', now')
    <2>1. \A v \in Writers : todo'[v] = {}
      BY <1>2, <1>7 DEF TInv, RecorderIdle, Writers
    <2>2. ASSUME NEW n \in Live' PROVE EndsByNow(list'[n].event, hour', now')
      <3>1. n \in 1..Len(list) /\ list[n] \in Item /\ list \in Seq(Item)
        BY SMTT(30), <1>2, <2>2 DEF Live, TInv, TypeOK
      <3>2. ~(HourOf(list[n].event.end) = hour /\ list[n].event.end > t)
        <4>1. [list[n] EXCEPT !.deleted = TRUE].deleted
          BY <3>1 DEF Item
        <4> QED BY <1>2, <1>4, <2>2, <3>1, <4>1 DEF Live
      <3>3. list'[n] = list[n]
        BY <1>2, <1>4, <3>1, <3>2
      <3>4. list[n].event.end \in Int
        BY <3>1 DEF Item, Event
      <3>5. HourOf(list[n].event.end) = hour => DayLen + list[n].event.end <= now' + After
        <4>1. PICK x \in Int : x = list[n].event.end
          BY <3>4
        <4>2. HourOf(x) = hour => x <= t
          BY <3>2, <4>1
        <4>3. now' = DayLen + t
          BY <1>2
        <4> QED BY <1>3, <4>1, <4>2, <4>3
      <3> QED BY <1>2, <3>3, <3>5 DEF EndsByNow
    <2> QED BY <2>1, <2>2
  <1> QED BY <1>5, <1>6, <1>7 DEF NInv

LEMMA ListByNow ==
  ASSUME TypeOK, NInv, NEW w \in Writers, AddScan(w) \/ AddWrite(w)
  PROVE  NInv'
  <1>1. /\ UNCHANGED <<hour, now, idx>> /\ spoilt \subseteq spoilt'
        /\ \A v \in Writers : todo'[v] \subseteq todo[v]
        /\ list \in Seq(Item) /\ Len(list) \in Nat /\ eof[w] \in Nat
    <2>1. UNCHANGED <<hour, now, idx>> /\ spoilt \subseteq spoilt'
      BY DEF AddScan, AddWrite, fileVars
    <2>2. todo \in [Writers -> SUBSET Event] /\ list \in Seq(Item) /\ eof[w] \in Nat
      BY DEF TypeOK
    <2>3. \E e : todo' = todo \/ todo' = [todo EXCEPT ![w] = @ \ {e}]
      BY DEF AddScan, AddWrite
    <2> QED BY <2>1, <2>2, <2>3
  <1>2. CASE AddScan(w)
    <2>1. \A x \in Item : /\ [x EXCEPT !.deleted = TRUE].event = x.event
                          /\ [x EXCEPT !.deleted = TRUE].deleted
      BY DEF Item
    <2>2. \A n \in Live' : n \in Live /\ list'[n].event = list[n].event
      <3>1. CASE UNCHANGED list
        BY <3>1 DEF Live
      <3>2. ASSUME NEW e \in todo[w],
                   list' = [i \in 1..Len(list) |->
                              IF Replaces(e, list[i])
                              THEN [list[i] EXCEPT !.deleted = TRUE] ELSE list[i]]
            PROVE  \A n \in Live' : n \in Live /\ list'[n].event = list[n].event
        <4>1. Len(list') = Len(list)
              /\ \A n \in 1..Len(list) : list'[n] = IF Replaces(e, list[n])
                                        THEN [list[n] EXCEPT !.deleted = TRUE] ELSE list[n]
          BY <1>1, <3>2
        <4>2. \A n \in 1..Len(list) : list[n] \in Item
          BY <1>1
        <4> QED BY <2>1, <4>1, <4>2 DEF Live
      <3> QED BY <1>2, <3>1, <3>2 DEF AddScan
    <2> QED BY <1>1, <2>2, KnownByNow
  <1>3. CASE AddWrite(w)
    <2>0. PICK e \in todo[w] : \E i : /\ i = [event |-> e, deleted |-> FALSE]
                                      /\ list' = Put(list, eof[w], i, i)
      BY <1>3 DEF AddWrite
    <2>1. PICK item : /\ item = [event |-> e, deleted |-> FALSE]
                      /\ list' = Put(list, eof[w], item, item)
      BY <2>0
    <2>2. \A n \in 1..Len(list') : \/ list'[n] = item
                                   \/ n \in 1..Len(list) /\ list'[n] = list[n]
      BY <1>1, <2>1 DEF Put
    <2>3. \A n \in Live' : \/ n \in Live /\ list'[n].event = list[n].event
                           \/ list'[n].event \in todo[w]
      <3>1. item.event = e
        BY <2>1
      <3> QED BY <2>2, <3>1 DEF Live
    <2> QED BY <1>1, <2>3, KnownByNow
  <1> QED BY <1>2, <1>3

(* While entries have their true times, nothing listed or on its way to the list ends
   after the clock, but what a search read before the clock was set back.             *)
THEOREM ByNow == Spec => []NInv
  <1>1. Init => NInv
    <2> SUFFICES ASSUME Init PROVE NInv
      OBVIOUS
    <2>1. Len(idx) = 0 /\ Len(list) = 0 /\ \A w \in Writers : todo[w] = {}
      BY DEF Init
    <2>2. hour * HourLen \in Nat /\ HourLen \in Nat /\ DayLen \in Nat
      BY InitTypes, HourRange, IndexAssumption
    <2>3. NowInHour
      BY <2>2 DEF Init, NowInHour
    <2> QED BY <2>1, <2>3 DEF NInv, Live
  <1>2. ASSUME TInv, TInv', NInv, [Next]_vars PROVE NInv'
    <2> USE DEF TInv
    <2>1. CASE OpenRecordFile \/ ClearRecordInfor \/ RepairDone
      <3>1. UNCHANGED <<hour, now, idx, list, todo, spoilt>>
        BY <2>1 DEF OpenRecordFile, ClearRecordInfor, RepairDone, fileVars, listVars
      <3> QED BY <1>2, <3>1, KnownByNow DEF Live
    <2>2. CASE CloseRecordFile \/ fixNotCloseFile \/ UpdateListFile
      <3>1. UNCHANGED <<hour, now, list>>
        BY <2>2 DEF CloseRecordFile, fixNotCloseFile, UpdateListFile
      <3>2. \/ Parse("recorder", {"raced", "unlisted"})
            \/ Parse("search", {})
            \/ UNCHANGED <<idx, todo, spoilt>>
        BY <2>2 DEF CloseRecordFile, fixNotCloseFile, UpdateListFile
      <3> QED BY <1>2, <3>1, <3>2, ParseByNow, KnownByNow DEF Writers, Live
    <2>3. CASE \E d \in Steps, k \in Kinds : WriteRecordFile(d, k)
      BY <1>2, <2>3, WriteByNow
    <2>4. CASE \E s \in Clocks : RederectFilePosition(hour * HourLen + s)
      BY <1>2, <2>4, RederectByNow
    <2>5. CASE \E w \in Writers : AddScan(w) \/ AddWrite(w)
      BY <1>2, <2>5, ListByNow
    <2>6. CASE Crash
      <3>1. UNCHANGED <<hour, now, idx, list>> /\ spoilt \subseteq spoilt'
            /\ \A w \in Writers : todo'[w] = {}
        BY <2>6 DEF Crash
      <3> QED BY <1>2, <3>1, KnownByNow DEF Live
    <2>7. CASE UNCHANGED vars
      <3>1. UNCHANGED <<hour, now, idx, list, todo, spoilt>>
        BY <2>7 DEF vars, fileVars, listVars
      <3> QED BY <1>2, <3>1, KnownByNow DEF Live
    <2> QED BY <1>2, <2>1, <2>2, <2>3, <2>4, <2>5, <2>6, <2>7 DEF Next
  <1> QED BY <1>1, <1>2, TypesAndIdle, PTL DEF Spec

\* Setting the clock back takes from the list what was listed for later: no event
\* of it ends after the newest frame, but for what a search had still to list.
THEOREM ListedByNow == Spec => []NothingAfterNow
  <1>1. NInv => NothingAfterNow
    BY DEF NInv, NothingAfterNow, EndsByNow
  <1> QED BY <1>1, ByNow, PTL

-----------------------------------------------------------------------------
(* A start is listed once.                                                 *)

\* A start that is not near to a full hour was not moved there.
LEMMA StartInside ==
  ASSUME NEW t \in Int, Inside(FixEvenItenStartTime(t))
  PROVE  FixEvenItenStartTime(t) = t
  <1>1. /\ HourLen \in Int /\ HourLen > 0 /\ DayLen \in Int /\ DayLen > 0
        /\ DayLen % HourLen = 0 /\ Slack \in Int /\ Slack >= 2
    BY IndexAssumption
  <1>2. ASSUME NEW q \in Int PROVE ~Inside(HourLen * q)
    <2>1. HourLen * q = HourLen * q + 0 /\ 0 \in 0..(HourLen - 1) /\ HourLen * q \in Int
      BY <1>1
    <2>2. (HourLen * q) % HourLen = 0
      BY <1>1, <2>1, Quotient
    <2> QED BY <1>1, <2>2 DEF Inside
  <1>3. CASE t % HourLen < Slight
    <2>1. HourOf(t) \in Int /\ t - (t % HourLen) = HourLen * HourOf(t)
      BY <1>1, Division DEF HourOf
    <2> QED BY <1>2, <1>3, <2>1 DEF FixEvenItenStartTime
  <1>4. CASE ~(t % HourLen < Slight) /\ t % HourLen > HourLen - Slight
    <2>1. PICK a \in Int : a = HourOf(t) + 1
      BY HourParts
    <2>2. PICK h \in Int : DayLen = HourLen * h
      <3>1. DayLen = HourLen * (DayLen \div HourLen) + 0 /\ DayLen \div HourLen \in Int
        BY <1>1, Division
      <3> QED BY <1>1, <3>1
    <2>3. PICK k \in Int : a * HourLen = DayLen * k + ((a * HourLen) % DayLen)
      <3>1. a * HourLen \in Int
        BY <1>1, <2>1
      <3> QED BY <1>1, <3>1, Division
    <2>4. NextHour(t) = (a * HourLen) % DayLen
      BY <2>1 DEF NextHour
    <2>5. (a * HourLen) % DayLen \in Int
      BY <1>1, <2>1
    <2>6. NextHour(t) = HourLen * (a - h * k)
      <3>1. NextHour(t) = a * HourLen - DayLen * k
        BY <1>1, <2>1, <2>3, <2>4, <2>5
      <3>2. DayLen * k = HourLen * (h * k)
        BY <1>1, <2>2, <2>3
      <3>3. HourLen * (a - h * k) = HourLen * a - HourLen * (h * k)
        BY <1>1, <2>1, <2>2, <2>3
      <3> QED BY <1>1, <2>1, <3>1, <3>2, <3>3
    <2>7. a - h * k \in Int
      BY <2>1, <2>2, <2>3
    <2>8. FixEvenItenStartTime(t) = NextHour(t)
      BY <1>4 DEF FixEvenItenStartTime
    <2> QED BY <1>2, <2>6, <2>7, <2>8
  <1>5. CASE ~(t % HourLen < Slight) /\ ~(t % HourLen > HourLen - Slight)
    BY <1>5 DEF FixEvenItenStartTime
  <1> QED BY <1>3, <1>4, <1>5

\* An end that is not near to a full hour was not moved there.
LEMMA EndInside ==
  ASSUME NEW t \in Int, FixEvenItenEndTime(t) % HourLen <= HourLen - Slack
  PROVE  FixEvenItenEndTime(t) = t
  <1>1. /\ HourLen \in Int /\ HourLen > 0 /\ Slack \in Int /\ Slack >= 2
    BY IndexAssumption
  <1>2. ASSUME NEW h \in Int PROVE LastSecond(h) % HourLen = HourLen - 1
    <2>1. /\ h * HourLen <= LastSecond(h) /\ LastSecond(h) < h * HourLen + HourLen
          /\ LastSecond(h) \in Int /\ LastSecond(h) - h * HourLen = HourLen - 1
      <3>1. PICK p \in Int : p = h * HourLen
        BY <1>1
      <3> QED BY <1>1, <3>1 DEF LastSecond
    <2> QED BY <2>1, HourIs
  <1>3. HourOf(t) \in Int
    BY HourParts
  <1>4. FixEvenItenEndTime(t) % HourLen # HourLen - 1
    <2>1. FixEvenItenEndTime(t) % HourLen \in Int
      BY FixesType, Division, <1>1
    <2> QED BY <1>1, <2>1
  <1> QED BY <1>2, <1>3, <1>4, LastSecondNear DEF FixEvenItenEndTime

\* The first n entries will not be mended any more as first ones.
SettledAt(s, k) == k > MinIFrames \/ s[k].time <= DayLen - Slack
Settled(s, n) == \A k \in 1..n : SettledAt(s, k)

\* The event that has the entry n ends at t or later: with this entry, shortly
\* after it when a gap follows, or where the next kind begins.  The entry after a
\* gap, when it is the last, has been mended.
LastsTo(s, n, t) ==
  \/ t <= s[n].time
  \/ /\ n < Len(s) /\ Jumps(s[n], s[n + 1]) /\ t <= s[n].time + After
     /\ n + 1 < Len(s) \/ s[n + 1].time >= Slack
  \/ /\ n < Len(s) /\ ~Jumps(s[n], s[n + 1]) /\ s[n].kind # s[n + 1].kind
     /\ Settled(s, n + 1) /\ t <= s[n + 1].time

\* The entries i..n are of one event, of the start and at least the end of d.
Holds(s, i, n, d) ==
  /\ i <= n /\ s[i].time = d.start /\ Settled(s, n)
  /\ \A j \in Starts(s) : ~(i < j /\ j <= n)
  /\ LastsTo(s, n, d.end)

\* An event with the start of d is not shorter by now than d, and neither entries
\* put in later nor mending make it so.
Upheld(s, d) ==
  /\ Len(s) >= MinIFrames
  /\ \E i \in Starts(s), n \in 1..Len(s) : Holds(s, i, n, d)

\* No two kinds were recorded within a second, as far as times will not be mended.
SettledApart(s, h) ==
  \A i, j \in Starts(s) :
    /\ s[i].time = s[j].time /\ Inside(s[i].time) /\ HourOf(s[i].time) = h
    /\ Settled(s, i) /\ Settled(s, j)
    => i = j

InDay(s) == \A i \in 1..Len(s) : s[i].time < DayLen
Apart == spoilt \cap {"met", "jumped"} = {} /\ TimesTrue /\ SettledApart(idx, hour)

SameHere(d, e) ==
  /\ d.start = e.start /\ StartsHere(d) /\ StartsHere(e) /\ EndsEarly(d) /\ EndsEarly(e)

OneWriter == \A v, w \in Writers : todo[v] # {} /\ todo[w] # {} => v = w
AtListsEnd == \A w \in Writers : eof[w] # Unread => eof[w] = Len(list) + 1
TodoDiffer == \A w \in Writers : \A d, e \in todo[w] :
                StartsHere(d) /\ d.start = e.start => d = e
LiveWithin == \A n \in Live : SameHere(list[n].event, list[n].event)
                                => Upheld(idx, list[n].event)
TodoWithin == \A w \in Writers : \A e \in todo[w] : SameHere(e, e) => Upheld(idx, e)
Growing == \A w \in Writers : \A e \in todo[w] : \A n \in Live :
             SameHere(list[n].event, e) => list[n].event.end <= e.end
Cleared == \A w \in Writers : \A e \in todo[w] : \A n \in Live :
             eof[w] # Unread /\ ComesFirst(w, e) => ~SameHere(list[n].event, e)
OneLive == \A m, n \in Live : SameHere(list[m].event, list[n].event) => m = n

\* The event of a start in the list is not longer than it is by now, and what a
\* writer has still to put in is as long as that: it replaces what is listed.
OInv ==
  Apart => /\ InDay(idx) /\ OneWriter /\ AtListsEnd /\ TodoDiffer
           /\ LiveWithin /\ TodoWithin /\ Growing /\ Cleared /\ OneLive

\* An event that starts within the hour starts with its first frame, and ends
\* where the next one starts, or with the last frame.
LEMMA EventsHere ==
  ASSUME NEW s \in Seq(Entry), NEW e \in EventsOf(s), Inside(e.start)
  PROVE  \E i \in Starts(s) :
           /\ e.first = i /\ s[i].time = e.start /\ i < Len(s)
           /\ \/ \E j \in Starts(s) : Follows(s, i, j) /\ e.end = ClosedEvent(s, i, j).end
              \/ /\ \A j \in Starts(s) : j <= i
                 /\ EndsEarly(e) => e.end = s[Len(s)].time
  <1>1. /\ Len(s) \in Nat /\ Starts(s) \subseteq 1..Len(s)
        /\ \A i \in 1..Len(s) : s[i].time \in Int
    BY EntryFacts
  <1>2. CASE \E i, j \in Starts(s) : Follows(s, i, j) /\ e = ClosedEvent(s, i, j)
    <2>1. PICK i, j \in Starts(s) : Follows(s, i, j) /\ e = ClosedEvent(s, i, j)
      BY <1>2
    <2>2. e.start \in {FixEvenItenStartTime(s[i].time), s[i].time} /\ e.first = i
      BY <2>1 DEF ClosedEvent
    <2>3. e.start = s[i].time
      <3>1. s[i].time \in Int
        BY <1>1
      <3> QED BY <2>2, <3>1, StartInside
    <2>4. i < Len(s)
      BY <1>1, <2>1 DEF Follows
    <2> QED BY <2>1, <2>2, <2>3, <2>4
  <1>3. CASE \E i \in Starts(s) : /\ \A j \in Starts(s) : j <= i
                                  /\ s[i].time # s[Len(s)].time /\ e = LastEvent(s, i)
    <2>1. PICK i \in Starts(s) : /\ \A j \in Starts(s) : j <= i
                                 /\ s[i].time # s[Len(s)].time /\ e = LastEvent(s, i)
      BY <1>3
    <2>2. /\ e.start = s[i].time /\ e.first = i
          /\ e.end = FixEvenItenEndTime(s[Len(s)].time)
      BY <2>1 DEF LastEvent
    <2>3. s[Len(s)].time \in Int
      BY <1>1, <2>1
    <2>4. EndsEarly(e) => e.end = s[Len(s)].time
      BY <2>2, <2>3, EndInside DEF EndsEarly
    <2>5. i < Len(s)
      BY <1>1, <2>1
    <2> QED BY <2>1, <2>2, <2>4, <2>5
  <1> QED BY <1>2, <1>3 DEF EventsOf

\* What an index begins with decides what begins there.
LEMMA SameBeginning ==
  ASSUME NEW s \in Seq(Entry), NEW q \in Seq(Entry), NEW n \in 1..Len(s), n <= Len(q),
         \A k \in 1..n : q[k] = s[k]
  PROVE  /\ \A i \in 1..n : i \in Starts(s) <=> i \in Starts(q)
         /\ \A i \in 1..n : Settled(s, i) <=> Settled(q, i)
  <1>1. Len(s) \in Nat /\ Len(q) \in Nat
    OBVIOUS
  <1>2. ASSUME NEW i \in 1..n PROVE i \in Starts(s) <=> i \in Starts(q)
    <2>1. i \in 1..Len(s) /\ i \in 1..Len(q) /\ (i # 1 => i - 1 \in 1..n)
      BY <1>1
    <2>2. Breaks(s, i) <=> Breaks(q, i)
      BY <2>1 DEF Breaks
    <2> QED BY <2>1, <2>2 DEF Starts
  <1>3. ASSUME NEW i \in 1..n PROVE Settled(s, i) <=> Settled(q, i)
    <2>1. \A k \in 1..i : k \in 1..n
      BY <1>1
    <2> QED BY <2>1 DEF Settled, SettledAt
  <1> QED BY <1>2, <1>3

\* A frame at the end of the index.
LEMMA LongerApart ==
  ASSUME NEW s \in Seq(Entry), NEW q \in Seq(Entry), Len(q) = Len(s) + 1,
         \A i \in 1..Len(s) : q[i] = s[i], NEW h, SettledApart(q, h)
  PROVE  SettledApart(s, h)
  <1>1. Len(s) \in Nat /\ Starts(s) \subseteq 1..Len(s)
    BY EntryFacts
  <1>2. SUFFICES ASSUME NEW i \in Starts(s), NEW j \in Starts(s),
                        s[i].time = s[j].time, Inside(s[i].time), HourOf(s[i].time) = h,
                        Settled(s, i), Settled(s, j)
                 PROVE  i = j
    BY DEF SettledApart
  <1>3. i \in 1..Len(s) /\ j \in 1..Len(s) /\ Len(s) \in 1..Len(s) /\ Len(s) <= Len(q)
    BY <1>1
  <1>4. i \in Starts(q) /\ j \in Starts(q) /\ Settled(q, i) /\ Settled(q, j)
    BY <1>2, <1>3, SameBeginning
  <1> QED BY <1>2, <1>3, <1>4 DEF SettledApart

LEMMA LongerUpheld ==
  ASSUME NEW s \in Seq(Entry), NEW q \in Seq(Entry), Len(q) = Len(s) + 1,
         \A i \in 1..Len(s) : q[i] = s[i], NEW d, Upheld(s, d)
  PROVE  Upheld(q, d)
  <1>1. Len(s) \in Nat /\ Starts(s) \subseteq 1..Len(s) /\ MinIFrames \in Nat
    BY EntryFacts, IndexAssumption
  <1>2. PICK i \in Starts(s), n \in 1..Len(s) : Holds(s, i, n, d)
    BY DEF Upheld
  <1>3. i \in 1..Len(s) /\ Len(s) \in 1..Len(s) /\ Len(s) <= Len(q) /\ n \in 1..Len(q)
    BY <1>1
  <1>4. /\ \A k \in 1..Len(s) : k \in Starts(s) <=> k \in Starts(q)
        /\ \A k \in 1..Len(s) : Settled(s, k) <=> Settled(q, k)
    BY <1>3, SameBeginning
  <1>5. LastsTo(q, n, d.end)
    <2>1. CASE n + 1 \in 1..Len(s)
      BY <1>1, <1>2, <1>4, <2>1 DEF Holds, LastsTo
    <2>2. CASE n + 1 \notin 1..Len(s)
      BY <1>1, <1>2, <2>2 DEF Holds, LastsTo
    <2> QED BY <2>1, <2>2
  <1>6. \A j \in Starts(q) : ~(i < j /\ j <= n)
    <2>1. Starts(q) \subseteq 1..Len(q)
      BY EntryFacts
    <2> QED BY <1>1, <1>2, <1>3, <1>4, <2>1 DEF Holds
  <1>7. Holds(q, i, n, d)
    BY <1>2, <1>3, <1>4, <1>5, <1>6 DEF Holds
  <1>8. Len(q) >= MinIFrames /\ i \in Starts(q)
    BY <1>1, <1>3, <1>4 DEF Upheld
  <1> QED BY <1>3, <1>7, <1>8 DEF Upheld

\* The times of a mended index, the last one's included.
LEMMA MendedTime ==
  ASSUME NEW s \in Seq(Entry), NEW i \in 1..Len(s), NEW t,
         t = IF SettledAt(s, i) THEN s[i].time ELSE After * (i - 1)
  PROVE  /\ Mended(s)[i].time = IF i = Len(s) /\ Len(s) >= MinIFrames /\ t < Slack
                                THEN DayLen - 1 ELSE t
         /\ SettledAt(s, i) /\ (i < Len(s) \/ s[i].time >= Slack) => Mended(s)[i] = s[i]
  <1>1. /\ Len(s) \in Nat /\ MinIFrames \in Nat /\ Slack \in Nat /\ DayLen \in Nat
        /\ s[i] \in Entry /\ i \in Nat /\ 1 <= i /\ s[i].time \in Nat
    BY EntryFacts, IndexAssumption
  <1>2. /\ Len(MendFirst(s)) = Len(s)
        /\ MendFirst(s)[i] = IF i <= MinIFrames /\ s[i].time > DayLen - Slack
                             THEN [s[i] EXCEPT !.time = After * (i - 1)] ELSE s[i]
    BY <1>1 DEF MendFirst
  <1>3. \A q : Len(q) = Len(s) =>
          MendLast(q)[i] = IF i = Len(s) /\ q[i].time < Slack
                           THEN [q[i] EXCEPT !.time = DayLen - 1] ELSE q[i]
    BY <1>1 DEF MendLast
  <1>4. PICK f \in Entry : f = MendFirst(s)[i] /\ f.time = t /\ (SettledAt(s, i) => f = s[i])
    <2>1. CASE SettledAt(s, i)
      BY <1>1, <1>2, <2>1 DEF SettledAt
    <2>2. CASE ~SettledAt(s, i)
      <3>1. i <= MinIFrames /\ s[i].time > DayLen - Slack
        BY <1>1, <2>2, DayIsLong DEF SettledAt
      <3>2. After * (i - 1) \in Nat
        BY <1>1, <3>1, FirstTimes
      <3>3. /\ [s[i] EXCEPT !.time = After * (i - 1)] \in Entry
            /\ [s[i] EXCEPT !.time = After * (i - 1)].time = After * (i - 1)
        BY <1>1, <3>2 DEF Entry
      <3> QED BY <1>2, <2>2, <3>1, <3>3
    <2> QED BY <2>1, <2>2
  <1>5. CASE Len(s) < MinIFrames
    <2>1. Mended(s)[i] = f
      BY <1>4, <1>5 DEF Mended
    <2> QED BY <1>1, <1>4, <1>5, <2>1
  <1>6. CASE ~(Len(s) < MinIFrames)
    <2>1. Mended(s)[i] = IF i = Len(s) /\ f.time < Slack
                         THEN [f EXCEPT !.time = DayLen - 1] ELSE f
      BY <1>2, <1>3, <1>4, <1>6 DEF Mended
    <2>2. [f EXCEPT !.time = DayLen - 1].time = DayLen - 1
      BY DEF Entry
    <2> QED BY <1>1, <1>4, <1>6, <2>1, <2>2
  <1> QED BY <1>5, <1>6

LEMMA MendedInDay ==
  ASSUME NEW s \in Seq(Entry), InDay(s)
  PROVE  InDay(Mended(s))
  <1>1. Len(Mended(s)) = Len(s)
    BY MendedType
  <1>2. ASSUME NEW i \in 1..Len(s) PROVE Mended(s)[i].time < DayLen
    <2>1. PICK t : t = IF SettledAt(s, i) THEN s[i].time ELSE After * (i - 1)
      OBVIOUS
    <2>2. t \in Nat /\ t < DayLen
      <3>1. CASE SettledAt(s, i)
        BY <2>1, <3>1, EntryFacts DEF InDay
      <3>2. CASE ~SettledAt(s, i)
        <4>1. i \in Nat /\ 1 <= i /\ i <= MinIFrames
          BY <3>2, EntryFacts, IndexAssumption DEF SettledAt
        <4> QED BY <2>1, <3>2, <4>1, FirstTimes, DayIsLong
      <3> QED BY <3>1, <3>2
    <2> QED BY <2>1, <2>2, MendedTime, DayIsLong
  <1> QED BY <1>1, <1>2 DEF InDay

\* A mended index: only the last of the first entries may have to be mended again.
Tidy(s) ==
  /\ Len(s) >= MinIFrames
  /\ \A k \in 1..Len(s) : k < Len(s) => SettledAt(s, k)
  /\ s[Len(s)].time >= Slack
  /\ SettledAt(s, Len(s)) \/ s[Len(s)].time = DayLen - 1

LEMMA MendedTidy ==
  ASSUME NEW s \in Seq(Entry), Len(s) >= MinIFrames
  PROVE  Tidy(Mended(s))
  <1> DEFINE m == Mended(s)
  <1>1. /\ Len(m) = Len(s) /\ Len(s) \in Nat /\ Len(s) \in 1..Len(s)
        /\ MinIFrames \in Nat /\ Slack \in Nat /\ DayLen \in Nat /\ DayLen > Slack
        /\ HourLen \in Nat /\ HourLen > 0 /\ DayLen - Slack >= HourLen
    BY MendedType, DayIsLong, IndexAssumption
  <1>2. ASSUME NEW k \in 1..Len(s)
        PROVE  \/ SettledAt(m, k)
               \/ k = Len(s) /\ m[k].time = DayLen - 1
    <2>1. PICK t : t = IF SettledAt(s, k) THEN s[k].time ELSE After * (k - 1)
      OBVIOUS
    <2>2. m[k].time = IF k = Len(s) /\ Len(s) >= MinIFrames /\ t < Slack
                      THEN DayLen - 1 ELSE t
      BY <2>1, MendedTime
    <2>3. k > MinIFrames \/ t <= DayLen - Slack
      <3>1. CASE SettledAt(s, k)
        BY <2>1, <3>1 DEF SettledAt
      <3>2. CASE ~SettledAt(s, k)
        <4>1. k \in Nat /\ 1 <= k /\ k <= MinIFrames
          BY <1>1, <3>2 DEF SettledAt
        <4>2. t \in 0..(HourLen - 1)
          BY <2>1, <3>2, <4>1, FirstTimes
        <4> QED BY <1>1, <4>2
      <3> QED BY <3>1, <3>2
    <2> QED BY <2>2, <2>3 DEF SettledAt
  <1>3. m[Len(s)].time >= Slack
    <2>1. PICK t : t = IF SettledAt(s, Len(s)) THEN s[Len(s)].time ELSE After * (Len(s) - 1)
      OBVIOUS
    <2>2. m[Len(s)].time = IF t < Slack THEN DayLen - 1 ELSE t
      BY <1>1, <2>1, MendedTime
    <2>3. t \in Nat
      <3>1. CASE SettledAt(s, Len(s))
        BY <1>1, <2>1, <3>1, EntryFacts
      <3>2. CASE ~SettledAt(s, Len(s))
        <4>1. Len(s) <= MinIFrames /\ 1 <= Len(s)
          BY <1>1, <3>2 DEF SettledAt
        <4> QED BY <1>1, <2>1, <3>2, <4>1, FirstTimes
      <3> QED BY <3>1, <3>2
    <2> QED BY <1>1, <2>2, <2>3
  <1> QED BY <1>1, <1>2, <1>3 DEF Tidy

\* Mending leaves alone what an index begins with, up to a settled entry.
LEMMA MendedBeginning ==
  ASSUME NEW s \in Seq(Entry), NEW n \in 1..Len(s), Settled(s, n), s[n].time >= Slack
  PROVE  /\ \A k \in 1..n : Mended(s)[k] = s[k]
         /\ \A k \in 1..n : k \in Starts(s) <=> k \in Starts(Mended(s))
         /\ \A k \in 1..n : Settled(s, k) <=> Settled(Mended(s), k)
  <1>1. /\ Len(s) \in Nat /\ Mended(s) \in Seq(Entry) /\ Len(Mended(s)) = Len(s)
    BY MendedType
  <1>2. ASSUME NEW k \in 1..n PROVE Mended(s)[k] = s[k]
    <2>1. k \in 1..Len(s) /\ (k < Len(s) \/ k = n)
      BY <1>1
    <2>2. SettledAt(s, k)
      BY DEF Settled
    <2> QED BY <2>1, <2>2, MendedTime
  <1>3. n <= Len(Mended(s))
    BY <1>1
  <1> QED BY <1>1, <1>2, <1>3, SameBeginning

\* A time of another hour than the first is not near to midnight.
LEMMA NotFirstHour ==
  ASSUME NEW t \in Int, 0 <= t, HourOf(t) # 0
  PROVE  HourLen <= t /\ Slack <= t
  <1>1. CASE t < HourLen
    <2>1. 0 * HourLen <= t /\ t < 0 * HourLen + HourLen /\ 0 \in Int
      BY <1>1, DayIsLong
    <2> QED BY <2>1, HourIs
  <1> QED BY <1>1, DayIsLong

LEMMA MendedApart ==
  ASSUME NEW s \in Seq(Entry), NEW h \in Nat, h # 0, SettledApart(Mended(s), h)
  PROVE  SettledApart(s, h)
  <1>1. SUFFICES ASSUME NEW i \in Starts(s), NEW j \in Starts(s),
                        s[i].time = s[j].time, Inside(s[i].time), HourOf(s[i].time) = h,
                        Settled(s, i), Settled(s, j)
                 PROVE  i = j
    BY DEF SettledApart
  <1>2. /\ i \in 1..Len(s) /\ j \in 1..Len(s) /\ s[i].time \in Int /\ 0 <= s[i].time
    BY EntryFacts
  <1>3. Slack <= s[i].time /\ i \in 1..i /\ j \in 1..j
    BY <1>1, <1>2, NotFirstHour
  <1>4. /\ Mended(s)[i] = s[i] /\ i \in Starts(Mended(s)) /\ Settled(Mended(s), i)
        /\ Mended(s)[j] = s[j] /\ j \in Starts(Mended(s)) /\ Settled(Mended(s), j)
    BY <1>1, <1>2, <1>3, MendedBeginning
  <1> QED BY <1>1, <1>4 DEF SettledApart

LEMMA MendedUpheld ==
  ASSUME NEW s \in Seq(Entry), InDay(s), NEW d \in Event, Upheld(s, d), HourLen <= d.start
  PROVE  Upheld(Mended(s), d)
  <1> DEFINE m == Mended(s)
  <1>1. /\ Len(s) \in Nat /\ Starts(s) \subseteq 1..Len(s)
        /\ \A k \in 1..Len(s) : s[k].time \in Int
        /\ MinIFrames \in Int /\ After \in Int /\ After >= 0 /\ Gap \in Int
        /\ HourLen \in Int /\ Slack \in Int /\ Slack <= HourLen
        /\ DayLen \in Int /\ DayLen >= HourLen + HourLen /\ HourLen > 0
        /\ m \in Seq(Entry) /\ Len(m) = Len(s)
        /\ d.end \in Int /\ d.start \in Int
    <2>1. d.end \in Int /\ d.start \in Int
      BY DEF Event
    <2>2. \A k \in 1..Len(s) : s[k].time \in Nat
      BY EntryFacts
    <2> QED BY <2>1, <2>2, EntryFacts, MendedType, DayIsLong, IndexAssumption
  <1>2. PICK i \in Starts(s), n \in 1..Len(s) : Holds(s, i, n, d)
    BY DEF Upheld
  <1>3. i \in 1..n /\ i <= n /\ Settled(s, n) /\ SettledAt(s, n)
    BY <1>1, <1>2 DEF Holds, Settled
  <1>4. HourLen <= s[n].time /\ Slack <= s[n].time
    <2>1. s[i].time <= s[n].time
      BY <1>1, <1>2, Unbroken DEF Holds
    <2>2. s[i].time \in Int /\ s[n].time \in Int /\ HourLen <= s[i].time
      BY <1>1, <1>2 DEF Holds
    <2> QED BY <1>1, <2>1, <2>2
  <1>5. /\ \A k \in 1..n : m[k] = s[k]
        /\ \A k \in 1..n : k \in Starts(s) <=> k \in Starts(m)
        /\ \A k \in 1..n : Settled(s, k) <=> Settled(m, k)
    BY <1>3, <1>4, MendedBeginning
  <1>6. n \in 1..n /\ m[n] = s[n]
    BY <1>1, <1>5
  <1>7. LastsTo(m, n, d.end)
    <2>1. CASE d.end <= s[n].time
      BY <1>6, <2>1 DEF LastsTo
    <2>2. CASE /\ n < Len(s) /\ Jumps(s[n], s[n + 1]) /\ d.end <= s[n].time + After
               /\ n + 1 < Len(s) \/ s[n + 1].time >= Slack
      <3>1. n + 1 \in 1..Len(s) /\ n + 1 \in Nat /\ 1 <= n + 1 /\ (n + 1) - 1 = n
        BY SMTT(30), <1>1, <2>2
      <3>2. CASE SettledAt(s, n + 1)
        <4>1. m[n + 1] = s[n + 1]
          BY <2>2, <3>1, <3>2, MendedTime
        <4> QED BY <1>1, <1>6, <2>2, <4>1 DEF LastsTo
      <3>3. CASE ~SettledAt(s, n + 1)
        <4>1. n + 1 <= MinIFrames /\ s[n + 1].time > DayLen - Slack
          BY <1>1, <3>1, <3>3 DEF SettledAt
        <4>2. s[n].time <= DayLen - Slack
          BY <1>1, <1>3, <4>1 DEF SettledAt
        <4>3. s[n + 1].time - s[n].time >= Gap /\ s[n + 1].time <= DayLen - 1
          <5>1. s[n].time \in Int /\ s[n + 1].time \in Int /\ s[n + 1].time < DayLen
            BY <1>1, <3>1 DEF InDay
          <5>2. ~(s[n + 1].time < s[n].time)
            BY <1>1, <4>1, <4>2, <5>1
          <5> QED BY <1>1, <2>2, <5>1, <5>2 DEF Jumps
        <4>4. PICK t \in 0..(HourLen - 1) : t = After * ((n + 1) - 1)
          BY <3>1, <4>1, FirstTimes
        <4>5. m[n + 1].time = IF n + 1 = Len(s) /\ Len(s) >= MinIFrames /\ t < Slack
                              THEN DayLen - 1 ELSE t
          BY <3>1, <3>3, <4>4, MendedTime
        <4>6. Len(s) >= MinIFrames
          BY DEF Upheld
        <4>7. CASE n + 1 = Len(s) /\ t < Slack
          <5>1. m[n + 1].time = DayLen - 1
            BY <4>5, <4>6, <4>7
          <5>2. s[n].time \in Int /\ s[n + 1].time \in Int /\ m[n].time = s[n].time
            BY <1>1, <1>6, <3>1
          <5>3. (DayLen - 1) - s[n].time >= Gap
            BY <1>1, <4>3, <5>2
          <5>4. Jumps(m[n], m[n + 1])
            BY <5>1, <5>2, <5>3 DEF Jumps
          <5>5. m[n + 1].time >= Slack
            BY <1>1, <5>1
          <5> QED BY <1>1, <1>6, <2>2, <5>4, <5>5 DEF LastsTo
        <4>8. CASE ~(n + 1 = Len(s) /\ t < Slack)
          <5>1. m[n + 1].time = t
            BY <4>5, <4>8
          <5>2. s[n].time \in Int /\ m[n].time = s[n].time
            BY <1>1, <1>6
          <5>3. Jumps(m[n], m[n + 1])
            <6>1. t < s[n].time
              BY <1>1, <1>4, <4>4, <5>2
            <6> QED BY <5>1, <5>2, <6>1 DEF Jumps
          <5>4. n + 1 < Len(m) \/ m[n + 1].time >= Slack
            BY <1>1, <3>1, <4>4, <4>8, <5>1
          <5> QED BY <1>1, <1>6, <2>2, <5>3, <5>4 DEF LastsTo
        <4> QED BY <4>7, <4>8
      <3> QED BY <3>2, <3>3
    <2>3. CASE /\ n < Len(s) /\ ~Jumps(s[n], s[n + 1]) /\ s[n].kind # s[n + 1].kind
               /\ Settled(s, n + 1) /\ d.end <= s[n + 1].time
      <3>1. n + 1 \in 1..Len(s) /\ n + 1 \in 1..(n + 1)
        BY <1>1, <2>3
      <3>2. s[n + 1].time >= Slack
        <4>1. s[n].time \in Int /\ s[n + 1].time \in Int
          BY <1>1, <3>1
        <4> QED BY <1>1, <1>4, <2>3, <4>1 DEF Jumps
      <3>3. m[n + 1] = s[n + 1] /\ Settled(m, n + 1)
        BY <2>3, <3>1, <3>2, MendedBeginning
      <3> QED BY <1>1, <1>6, <2>3, <3>3 DEF LastsTo
    <2> QED BY <1>2, <2>1, <2>2, <2>3 DEF Holds, LastsTo
  <1>8. \A j \in Starts(m) : ~(i < j /\ j <= n)
    <2>1. Starts(m) \subseteq 1..Len(m)
      BY <1>1, EntryFacts
    <2>2. ASSUME NEW j \in Starts(m), i < j, j <= n PROVE FALSE
      <3>1. j \in 1..n /\ j \in Starts(s)
        BY <1>1, <1>5, <2>1, <2>2
      <3> QED BY <1>2, <2>2, <3>1 DEF Holds
    <2> QED BY <2>2
  <1>9. /\ i \in Starts(m) /\ n \in 1..Len(m) /\ m[i] = s[i] /\ Settled(m, n)
        /\ Len(m) >= MinIFrames
    BY <1>1, <1>3, <1>5, <1>6 DEF Upheld
  <1>10. Holds(m, i, n, d)
    BY <1>2, <1>3, <1>7, <1>8, <1>9 DEF Holds
  <1> QED BY <1>9, <1>10 DEF Upheld

\* Steps that leave the index, the list and what is to be listed alone.
LEMMA StillOnce ==
  ASSUME OInv, UNCHANGED <<hour, idx, list, todo, eof>>, spoilt \subseteq spoilt'
  PROVE  OInv'
  <1>1. Apart' => Apart
    BY DEF Apart, TimesTrue
  <1> QED BY <1>1 DEF OInv, OneWriter, AtListsEnd, TodoDiffer, LiveWithin, TodoWithin,
                      Growing, Cleared, OneLive, SameHere, StartsHere, EndsEarly, Live,
                      ComesFirst

LEMMA CrashOnce ==
  ASSUME TInv, OInv, Crash
  PROVE  OInv'
  <1>1. /\ UNCHANGED <<hour, idx, list>> /\ spoilt \subseteq spoilt'
        /\ \A w \in Writers : todo'[w] = {} /\ eof'[w] = Unread
    BY DEF Crash
  <1>2. Apart' => Apart
    BY <1>1 DEF Apart, TimesTrue
  <1>3. OneWriter' /\ AtListsEnd' /\ TodoDiffer' /\ TodoWithin' /\ Growing' /\ Cleared'
    BY <1>1 DEF OneWriter, AtListsEnd, TodoDiffer, TodoWithin, Growing, Cleared
  <1>4. Apart => InDay(idx)' /\ LiveWithin' /\ OneLive'
    BY <1>1 DEF OInv, LiveWithin, OneLive, SameHere, StartsHere, EndsEarly, Live
  <1> QED BY <1>2, <1>3, <1>4 DEF OInv

\* The events of a mended index whose starts differ.
LEMMA EventsOnce ==
  ASSUME NEW s \in Seq(Entry), Tidy(s), NEW e \in EventsOf(s), StartsHere(e),
         SettledApart(s, hour)
  PROVE  /\ \A d \in EventsOf(s) : d.start = e.start => d = e
         /\ EndsEarly(e) => Upheld(s, e)
         /\ \A d \in Event : Upheld(s, d) /\ SameHere(d, e) => d.end <= e.end
  <1>1. /\ Len(s) \in Nat /\ Starts(s) \subseteq 1..Len(s) /\ Len(s) >= MinIFrames
        /\ \A k \in 1..Len(s) : s[k].time \in Int
        /\ \A k \in Int : k < Len(s) => Settled(s, k)
        /\ After \in Int /\ After >= 0
    <2>1. \A k \in 1..Len(s) : s[k].time \in Nat
      BY EntryFacts
    <2>2. ASSUME NEW k \in Int, k < Len(s) PROVE Settled(s, k)
      <3>1. ASSUME NEW a \in 1..k PROVE SettledAt(s, a)
        <4>1. a \in 1..Len(s) /\ a < Len(s)
          BY <2>2, EntryFacts
        <4> QED BY <4>1 DEF Tidy
      <3> QED BY <3>1 DEF Settled
    <2> QED BY <2>1, <2>2, EntryFacts, IndexAssumption DEF Tidy
  <1>2. Inside(e.start) /\ HourOf(e.start) = hour
    BY DEF StartsHere
  <1>3. PICK i \in Starts(s) :
          /\ e.first = i /\ s[i].time = e.start /\ i < Len(s)
          /\ \/ \E j \in Starts(s) : Follows(s, i, j) /\ e.end = ClosedEvent(s, i, j).end
             \/ /\ \A j \in Starts(s) : j <= i
                /\ EndsEarly(e) => e.end = s[Len(s)].time
    BY <1>2, EventsHere
  <1>4. i \in 1..Len(s) /\ i \in Int /\ Settled(s, i)
    BY <1>1, <1>3
  <1>5. ASSUME NEW d \in EventsOf(s), d.start = e.start PROVE d = e
    <2>1. PICK k \in Starts(s) : d.first = k /\ s[k].time = d.start /\ k < Len(s)
      BY <1>2, <1>5, EventsHere
    <2>2. k \in Int /\ Settled(s, k)
      BY <1>1, <2>1
    <2>3. k = i
      BY <1>2, <1>3, <1>4, <1>5, <2>1, <2>2 DEF SettledApart
    <2> QED BY <1>3, <2>1, <2>3, FirstsUnique
  <1>6. e.end \in Int
    <2>1. e \in Event
      BY EventsType
    <2> QED BY <2>1 DEF Event
  <1>7. ASSUME NEW j \in Starts(s), Follows(s, i, j), e.end = ClosedEvent(s, i, j).end
        PROVE  /\ j \in 1..Len(s) /\ j - 1 \in 1..Len(s) /\ i <= j - 1
               /\ e.end = IF Jumps(s[j - 1], s[j]) THEN s[j - 1].time + After ELSE s[j].time
               /\ ~Jumps(s[j - 1], s[j]) => s[j - 1].kind # s[j].kind
    <2>1. j \in 1..Len(s) /\ j - 1 \in 1..Len(s) /\ i <= j - 1 /\ j # 1
      BY <1>1, <1>4, <1>7 DEF Follows
    <2>2. e.end = IF Jumps(s[j - 1], s[j]) THEN s[j - 1].time + After ELSE s[j].time
      BY <1>7 DEF ClosedEvent
    <2>3. Breaks(s, j)
      BY DEF Starts
    <2> QED BY <2>1, <2>2, <2>3 DEF Breaks
  <1>8. ASSUME EndsEarly(e), NEW k \in 1..Len(s), e.end = s[k].time
        PROVE  Settled(s, k)
    <2>1. CASE k < Len(s)
      BY <1>1, <2>1
    <2>2. CASE k = Len(s)
      <3>1. s[Len(s)].time # DayLen - 1
        <4>1. /\ HourLen \in Int /\ Slack \in Int /\ Slack >= 2
          BY IndexAssumption
        <4> QED BY <1>8, <2>2, <4>1, LastSecondNear DEF EndsEarly
      <3>2. SettledAt(s, Len(s))
        BY <3>1 DEF Tidy
      <3> QED BY <1>1, <2>2, <3>2 DEF Tidy, Settled
    <2> QED BY <1>1, <2>1, <2>2
  <1>9. ASSUME EndsEarly(e) PROVE Upheld(s, e)
    <2>1. CASE \E j \in Starts(s) : Follows(s, i, j) /\ e.end = ClosedEvent(s, i, j).end
      <3>1. PICK j \in Starts(s) : Follows(s, i, j) /\ e.end = ClosedEvent(s, i, j).end
        BY <2>1
      <3>2. /\ j \in 1..Len(s) /\ j - 1 \in 1..Len(s) /\ i <= j - 1
            /\ e.end = IF Jumps(s[j - 1], s[j]) THEN s[j - 1].time + After ELSE s[j].time
            /\ ~Jumps(s[j - 1], s[j]) => s[j - 1].kind # s[j].kind
        BY <1>7, <3>1
      <3>3. Settled(s, j - 1) /\ (j - 1) + 1 = j /\ j - 1 < Len(s)
        BY <1>1, <3>2
      <3>4. \A k \in Starts(s) : ~(i < k /\ k <= j - 1)
        BY <1>1, <3>1, <3>2 DEF Follows
      <3>5. LastsTo(s, j - 1, e.end)
        <4>1. CASE Jumps(s[j - 1], s[j])
          <5>1. j < Len(s) \/ s[j].time >= Slack
            BY <1>1, <3>2 DEF Tidy
          <5> QED BY <1>6, <3>2, <3>3, <4>1, <5>1 DEF LastsTo
        <4>2. CASE ~Jumps(s[j - 1], s[j])
          <5>1. Settled(s, j)
            BY <1>8, <1>9, <3>2, <4>2
          <5> QED BY <1>6, <3>2, <3>3, <4>2, <5>1 DEF LastsTo
        <4> QED BY <4>1, <4>2
      <3>6. Holds(s, i, j - 1, e)
        BY <1>3, <3>2, <3>3, <3>4, <3>5 DEF Holds
      <3> QED BY <1>1, <3>2, <3>6 DEF Upheld
    <2>2. CASE /\ \A j \in Starts(s) : j <= i
               /\ EndsEarly(e) => e.end = s[Len(s)].time
      <3>1. Len(s) \in 1..Len(s) /\ e.end = s[Len(s)].time
        BY <1>1, <1>4, <1>9, <2>2
      <3>2. Settled(s, Len(s))
        BY <1>8, <1>9, <3>1
      <3>3. LastsTo(s, Len(s), e.end)
        BY <1>6, <3>1 DEF LastsTo
      <3>4. \A k \in Starts(s) : ~(i < k /\ k <= Len(s))
        BY <1>1, <1>4, <2>2
      <3>5. Holds(s, i, Len(s), e)
        BY <1>1, <1>3, <3>2, <3>3, <3>4 DEF Holds
      <3> QED BY <1>1, <3>1, <3>5 DEF Upheld
    <2> QED BY <1>3, <2>1, <2>2
  <1>10. ASSUME NEW d \in Event, Upheld(s, d), SameHere(d, e) PROVE d.end <= e.end
    <2>0. d.end \in Int
      BY DEF Event
    <2>1. PICK a \in Starts(s), n \in 1..Len(s) : Holds(s, a, n, d)
      BY <1>10 DEF Upheld
    <2>2. Settled(s, a)
      BY <1>1, <2>1 DEF Holds, Settled
    <2>3. a = i
      BY <1>2, <1>3, <1>4, <1>10, <2>1, <2>2 DEF SettledApart, Holds, SameHere
    <2>4. /\ i <= n /\ LastsTo(s, n, d.end) /\ \A j \in Starts(s) : ~(i < j /\ j <= n)
          /\ s[n].time \in Int
      BY <1>1, <2>1, <2>3 DEF Holds
    <2>5. \/ d.end <= s[n].time
          \/ /\ n + 1 \in Starts(s)
             /\ IF Jumps(s[n], s[n + 1]) THEN d.end <= s[n].time + After
                                         ELSE d.end <= s[n + 1].time
      <3>1. n < Len(s) => n + 1 \in 1..Len(s) /\ (n + 1) - 1 = n
        BY <1>1
      <3> QED BY <2>4, <3>1 DEF LastsTo, Starts, Breaks
    <2>6. CASE \E j \in Starts(s) : Follows(s, i, j) /\ e.end = ClosedEvent(s, i, j).end
      <3>1. PICK j \in Starts(s) : Follows(s, i, j) /\ e.end = ClosedEvent(s, i, j).end
        BY <2>6
      <3>2. /\ j \in 1..Len(s) /\ j - 1 \in 1..Len(s) /\ i <= j - 1
            /\ e.end = IF Jumps(s[j - 1], s[j]) THEN s[j - 1].time + After ELSE s[j].time
        BY <1>7, <3>1
      <3>3. n <= j - 1
        BY <1>1, <2>4, <3>1, <3>2 DEF Follows
      <3>4. CASE d.end <= s[n].time
        <4>1. \A q \in Starts(s) : ~(n < q /\ q <= j - 1)
          BY <1>1, <1>4, <2>4, <3>1, <3>2 DEF Follows
        <4>2. s[n].time <= s[j - 1].time /\ s[j - 1].time \in Int /\ s[j].time \in Int
          BY <1>1, <3>2, <3>3, <4>1, Unbroken
        <4>3. s[j - 1].time <= e.end
          BY <1>1, <3>2, <4>2 DEF Jumps
        <4> QED BY <1>6, <2>0, <2>4, <3>4, <4>2, <4>3
      <3>5. CASE /\ n + 1 \in Starts(s)
                 /\ IF Jumps(s[n], s[n + 1]) THEN d.end <= s[n].time + After
                                             ELSE d.end <= s[n + 1].time
        <4>1. n + 1 = j /\ j - 1 = n
          BY <1>1, <1>4, <2>4, <3>1, <3>2, <3>3, <3>5 DEF Follows
        <4> QED BY <3>2, <3>5, <4>1
      <3> QED BY <2>5, <3>4, <3>5
    <2>7. CASE /\ \A j \in Starts(s) : j <= i
               /\ EndsEarly(e) => e.end = s[Len(s)].time
      <3>1. e.end = s[Len(s)].time
        BY <1>10, <2>7 DEF SameHere
      <3>2. n + 1 \notin Starts(s)
        BY <1>4, <2>4, <2>7
      <3>3. \A q \in Starts(s) : ~(n < q /\ q <= Len(s))
        BY <1>1, <1>4, <2>4, <2>7
      <3>4. s[n].time <= s[Len(s)].time
        BY <1>1, <3>3, Unbroken
      <3> QED BY <1>6, <2>0, <2>4, <2>5, <3>1, <3>2, <3>4
    <2> QED BY <1>3, <2>6, <2>7
  <1> QED BY <1>5, <1>9, <1>10

LEMMA ParseOnce ==
  ASSUME TypeOK, OInv, NEW w \in Writers, todo[w] = {},
         NEW healed \in SUBSET {"raced", "unlisted"}, Parse(w, healed),
         UNCHANGED <<hour, list, eof>>
  PROVE  OInv'
  <1> SUFFICES ASSUME Apart'
               PROVE  /\ InDay(idx)' /\ OneWriter' /\ AtListsEnd' /\ TodoDiffer'
                      /\ LiveWithin' /\ TodoWithin' /\ Growing' /\ Cleared' /\ OneLive'
    BY DEF OInv
  <1>1. /\ idx' = Mended(idx) /\ \A v \in Writers \ {w} : todo[v] = {}
        /\ spoilt \cap {"met", "jumped"} = {}
        /\ "mended" \notin spoilt' => "mended" \notin spoilt /\ idx' = idx
        /\ SettledApart(idx', hour) /\ (hour = 0 => "mended" \notin spoilt')
    BY DEF Apart, Parse, TimesTrue
  <1>2. /\ idx \in Seq(Entry) /\ todo' = [todo EXCEPT ![w] = EventsOf(idx')]
        /\ todo \in [Writers -> SUBSET Event] /\ idx' \in Seq(Entry) /\ Len(idx') = Len(idx)
    BY ParseType DEF TypeOK
  <1>3. /\ todo'[w] = EventsOf(idx') /\ \A v \in Writers \ {w} : todo'[v] = {}
        /\ \A v \in Writers : eof'[v] = Unread
    <2>1. \A v \in Writers : todo[v] = {}
      BY <1>1
    <2> QED BY <1>2, <2>1 DEF TypeOK
  <1>4. hour \in Nat
    BY HourRange
  <1>5. Apart
    <2>1. SettledApart(idx, hour)
      <3>1. CASE hour = 0
        BY <1>1, <3>1
      <3>2. CASE hour # 0
        BY <1>1, <1>2, <1>4, <3>2, MendedApart
      <3> QED BY <3>1, <3>2
    <2> QED BY <1>1, <2>1 DEF Apart, TimesTrue
  <1>6. InDay(idx) /\ LiveWithin /\ OneLive
    BY <1>5 DEF OInv
  <1>7. InDay(idx')
    BY <1>1, <1>2, <1>6, MendedInDay
  <1>8. Live' = Live /\ list' = list
    BY DEF Live
  <1>9. /\ \A d : StartsHere(d)' <=> StartsHere(d)
        /\ \A d, e : SameHere(d, e)' <=> SameHere(d, e)
    BY DEF SameHere, StartsHere, EndsEarly
  <1>10. OneWriter' /\ AtListsEnd' /\ Cleared' /\ OneLive'
    BY <1>3, <1>6, <1>8, <1>9 DEF OneWriter, AtListsEnd, Cleared, OneLive
  <1>11. \A n \in Live : list[n].event \in Event
    <2>1. \A n \in Live : list[n] \in Item
      BY DEF Live, TypeOK
    <2> QED BY <2>1 DEF Item
  <1>12. ASSUME NEW n \in Live, SameHere(list[n].event, list[n].event)
         PROVE  Upheld(idx', list[n].event)
    <2>1. Upheld(idx, list[n].event)
      BY <1>6, <1>12 DEF LiveWithin
    <2>2. CASE hour = 0
      BY <1>1, <2>1, <2>2
    <2>3. CASE hour # 0
      <3>1. PICK d \in Event : d = list[n].event
        BY <1>11
      <3>2. HourOf(d.start) # 0 /\ d.start \in Int
        BY <1>12, <2>3, <3>1 DEF SameHere, StartsHere, Event
      <3>3. 0 <= d.start
        <4>1. PICK k \in Starts(idx) : idx[k].time = d.start
          BY <2>1, <3>1 DEF Upheld, Holds
        <4> QED BY <1>2, <4>1, EntryFacts
      <3>4. HourLen <= d.start
        BY <3>2, <3>3, NotFirstHour
      <3> QED BY <1>1, <1>2, <1>6, <2>1, <3>1, <3>4, MendedUpheld
    <2> QED BY <2>2, <2>3
  <1>13. LiveWithin'
    BY <1>8, <1>9, <1>12 DEF LiveWithin
  <1>14. ASSUME NEW e \in EventsOf(idx') PROVE Tidy(idx')
    <2>1. ~(Len(idx') < MinIFrames)
      BY <1>14 DEF EventsOf
    <2>2. Len(idx) >= MinIFrames
      BY <1>2, <2>1, IndexAssumption
    <2> QED BY <1>1, <1>2, <2>2, MendedTidy
  <1>15. TodoDiffer'
    <2>1. \A d, e \in EventsOf(idx') : StartsHere(d) /\ d.start = e.start => d = e
      BY <1>1, <1>2, <1>14, EventsOnce
    <2> QED BY <1>3, <1>9, <2>1 DEF TodoDiffer
  <1>16. TodoWithin'
    <2>1. \A e \in EventsOf(idx') : SameHere(e, e) => Upheld(idx', e)
      BY <1>1, <1>2, <1>14, EventsOnce DEF SameHere
    <2> QED BY <1>3, <1>9, <2>1 DEF TodoWithin
  <1>17. Growing'
    <2>1. ASSUME NEW e \in EventsOf(idx'), NEW n \in Live, SameHere(list[n].event, e)
          PROVE  list[n].event.end <= e.end
      <3>1. Upheld(idx', list[n].event) /\ list[n].event \in Event
        BY <1>11, <1>12, <2>1 DEF SameHere
      <3>2. StartsHere(e)
        BY <2>1 DEF SameHere
      <3> QED BY <1>1, <1>2, <1>14, <2>1, <3>1, <3>2, EventsOnce
    <2> QED BY <1>3, <1>8, <1>9, <2>1 DEF Growing
  <1> QED BY <1>7, <1>10, <1>13, <1>15, <1>16, <1>17

LEMMA ScanOnce ==
  ASSUME TypeOK, FirstsDiffer, OInv, NEW w \in Writers, AddScan(w)
  PROVE  OInv'
  <1> SUFFICES ASSUME Apart'
               PROVE  /\ InDay(idx)' /\ OneWriter' /\ AtListsEnd' /\ TodoDiffer'
                      /\ LiveWithin' /\ TodoWithin' /\ Growing' /\ Cleared' /\ OneLive'
    BY DEF OInv
  <1>1. UNCHANGED <<hour, idx, spoilt>> /\ eof[w] = Unread
    BY DEF AddScan, fileVars
  <1>2. Apart /\ \A d, e : SameHere(d, e)' <=> SameHere(d, e)
    BY <1>1 DEF Apart, TimesTrue, SameHere, StartsHere, EndsEarly
  <1>3. /\ InDay(idx)' /\ OneWriter /\ AtListsEnd /\ TodoDiffer
        /\ LiveWithin /\ TodoWithin /\ Growing /\ Cleared /\ OneLive
    BY <1>1, <1>2 DEF OInv
  <1>4. PICK e \in todo[w] :
          /\ ComesFirst(w, e)
          /\ IF w = "search" /\ ~Named
             THEN todo' = [todo EXCEPT ![w] = @ \ {e}] /\ UNCHANGED <<list, eof>>
             ELSE /\ list' = [i \in 1..Len(list) |->
                                IF Replaces(e, list[i])
                                THEN [list[i] EXCEPT !.deleted = TRUE] ELSE list[i]]
                  /\ eof' = [eof EXCEPT ![w] = Len(list) + 1]
                  /\ UNCHANGED todo
    BY DEF AddScan
  <1>5. /\ todo \in [Writers -> SUBSET Event] /\ eof \in [Writers -> Nat]
        /\ list \in Seq(Item) /\ Len(list) \in Nat
        /\ \A n \in 1..Len(list) : list[n] \in Item
    BY DEF TypeOK
  <1>6. CASE w = "search" /\ ~Named
    <2>1. /\ UNCHANGED <<list, eof>> /\ eof[w] = Unread
          /\ \A v \in Writers : todo'[v] \subseteq todo[v] /\ (v # w => todo'[v] = todo[v])
      BY <1>1, <1>4, <1>5, <1>6
    <2>2. OneWriter' /\ AtListsEnd' /\ LiveWithin' /\ OneLive'
      BY <1>1, <1>2, <1>3, <2>1 DEF OneWriter, AtListsEnd, LiveWithin, OneLive, Live
    <2>3. TodoDiffer' /\ TodoWithin' /\ Growing'
      BY <1>1, <1>2, <1>3, <2>1 DEF TodoDiffer, TodoWithin, Growing, Live, StartsHere
    <2>4. Cleared'
      BY <1>2, <1>3, <2>1 DEF Cleared, Live, ComesFirst
    <2> QED BY <1>3, <2>2, <2>3, <2>4
  <1>7. CASE ~(w = "search" /\ ~Named)
    <2>1. /\ todo' = todo /\ eof' = [eof EXCEPT ![w] = Len(list) + 1]
          /\ list' = [i \in 1..Len(list) |->
                        IF Replaces(e, list[i])
                        THEN [list[i] EXCEPT !.deleted = TRUE] ELSE list[i]]
      BY <1>4, <1>7
    <2>2. Len(list') = Len(list) /\ \A n \in Live' : /\ n \in Live /\ list'[n] = list[n]
                                                     /\ ~Replaces(e, list[n])
      <3>1. \A x \in Item : [x EXCEPT !.deleted = TRUE].deleted
        BY DEF Item
      <3> QED BY <1>5, <2>1, <3>1 DEF Live
    <2>3. OneWriter' /\ TodoDiffer' /\ LiveWithin' /\ TodoWithin' /\ Growing' /\ OneLive'
      BY <1>1, <1>2, <1>3, <2>1, <2>2 DEF OneWriter, TodoDiffer, LiveWithin, TodoWithin,
                                          Growing, OneLive, StartsHere
    <2>4. AtListsEnd'
      BY <1>3, <1>5, <2>1, <2>2 DEF AtListsEnd
    <2>5. ASSUME NEW v \in Writers, NEW f \in todo[v], NEW n \in Live',
                 eof'[v] # Unread, ComesFirst(v, f), SameHere(list'[n].event, f)
          PROVE  FALSE
      <3>1. CASE v = w
        <4>1. e \in Event /\ f \in Event
          BY <1>5, <2>5, <3>1
        <4>2. e.first <= f.first /\ f.first <= e.first /\ e.first \in Nat /\ f.first \in Nat
          BY <1>4, <2>5, <3>1, <4>1 DEF ComesFirst, Event
        <4>3. f = e
          BY <2>5, <3>1, <4>2 DEF FirstsDiffer
        <4>4. list[n].event.end <= e.end
          BY <1>3, <2>2, <2>5, <4>3 DEF Growing
        <4>5. Replaces(e, list[n])
          BY <2>2, <2>5, <4>3, <4>4 DEF Replaces, SameHere, Live
        <4> QED BY <2>2, <2>5, <4>5
      <3>2. CASE v # w
        BY <1>3, <1>5, <2>1, <2>2, <2>5, <3>2 DEF Cleared
      <3> QED BY <3>1, <3>2
    <2>6. Cleared'
      BY <1>2, <2>1, <2>5 DEF Cleared, ComesFirst
    <2> QED BY <1>3, <2>3, <2>4, <2>6
  <1> QED BY <1>6, <1>7

LEMMA AddOnce ==
  ASSUME TypeOK, OInv, NEW w \in Writers, AddWrite(w)
  PROVE  OInv'
  <1> SUFFICES ASSUME Apart'
               PROVE  /\ InDay(idx)' /\ OneWriter' /\ AtListsEnd' /\ TodoDiffer'
                      /\ LiveWithin' /\ TodoWithin' /\ Growing' /\ Cleared' /\ OneLive'
    BY DEF OInv
  <1>1. /\ UNCHANGED <<hour, idx>> /\ spoilt \subseteq spoilt' /\ eof[w] # Unread
        /\ eof' = [eof EXCEPT ![w] = Unread]
    BY DEF AddWrite, fileVars
  <1>2. Apart /\ \A d, e : SameHere(d, e)' <=> SameHere(d, e)
    BY <1>1 DEF Apart, TimesTrue, SameHere, StartsHere, EndsEarly
  <1>3. /\ InDay(idx)' /\ OneWriter /\ AtListsEnd /\ TodoDiffer
        /\ LiveWithin /\ TodoWithin /\ Growing /\ Cleared /\ OneLive
    BY <1>1, <1>2 DEF OInv
  <1>0. PICK e \in todo[w] :
          \E i : /\ ComesFirst(w, e) /\ i = [event |-> e, deleted |-> FALSE]
                 /\ list' = Put(list, eof[w], i, i)
                 /\ todo' = [todo EXCEPT ![w] = @ \ {e}]
    BY DEF AddWrite
  <1>4. PICK item :
          /\ ComesFirst(w, e) /\ item = [event |-> e, deleted |-> FALSE]
          /\ list' = Put(list, eof[w], item, item)
          /\ todo' = [todo EXCEPT ![w] = @ \ {e}]
    BY <1>0
  <1>5. /\ todo \in [Writers -> SUBSET Event] /\ eof \in [Writers -> Nat]
        /\ list \in Seq(Item) /\ Len(list) \in Nat
    BY DEF TypeOK
  <1>6. /\ eof[w] = Len(list) + 1
        /\ \A v \in Writers \ {w} : todo[v] = {} /\ eof[v] = Unread
    BY <1>1, <1>3, <1>4 DEF AtListsEnd, OneWriter, TypeOK
  <1>7. /\ \A v \in Writers : eof'[v] = Unread
        /\ todo'[w] = todo[w] \ {e} /\ \A v \in Writers \ {w} : todo'[v] = {}
    BY <1>1, <1>4, <1>5, <1>6
  <1>8. /\ Len(list') = Len(list) + 1 /\ list'[Len(list) + 1] = item
        /\ \A n \in 1..Len(list) : list'[n] = list[n]
    BY <1>4, <1>5, <1>6 DEF Put
  <1>9. \A n \in Live' : \/ n \in Live /\ list'[n] = list[n]
                         \/ n = Len(list) + 1 /\ list'[n].event = e
    <2>1. item.event = e
      BY <1>4
    <2> QED BY <1>5, <1>8, <2>1 DEF Live
  <1>10. OneWriter' /\ AtListsEnd' /\ Cleared'
    BY <1>7 DEF OneWriter, AtListsEnd, Cleared
  <1>11. TodoDiffer' /\ TodoWithin'
    BY <1>1, <1>2, <1>3, <1>7 DEF TodoDiffer, TodoWithin, StartsHere
  <1>12. LiveWithin'
    BY <1>1, <1>2, <1>3, <1>4, <1>9 DEF LiveWithin, TodoWithin
  <1>13. Growing'
    <2>1. SUFFICES ASSUME NEW f \in todo[w], f # e, NEW n \in Live',
                          SameHere(list'[n].event, f)
                   PROVE  list'[n].event.end <= f.end
      BY <1>2, <1>7 DEF Growing
    <2>2. CASE n \in Live /\ list'[n] = list[n]
      BY <1>3, <2>1, <2>2 DEF Growing
    <2>3. CASE list'[n].event = e
      BY <1>3, <1>4, <2>1, <2>3 DEF TodoDiffer, SameHere
    <2> QED BY <1>9, <2>2, <2>3
  <1>14. OneLive'
    <2>1. SUFFICES ASSUME NEW m \in Live', NEW n \in Live',
                          SameHere(list'[m].event, list'[n].event)
                   PROVE  m = n
      BY <1>2 DEF OneLive
    <2>2. \A k \in Live : ~SameHere(list[k].event, e) /\ ~SameHere(e, list[k].event)
      BY <1>1, <1>3, <1>4 DEF Cleared, SameHere
    <2>3. CASE m \in Live /\ list'[m] = list[m] /\ n \in Live /\ list'[n] = list[n]
      BY <1>3, <2>1, <2>3 DEF OneLive
    <2> QED BY <1>9, <2>1, <2>2, <2>3
  <1> QED BY <1>3, <1>10, <1>11, <1>12, <1>13, <1>14

\* As the clock is not set the entry goes to the end of the index.
LEMMA WriteOnce ==
  ASSUME TypeOK, TypeOK', PInv, OInv, NEW d \in Steps, NEW kind \in Kinds,
         WriteRecordFile(d, kind)
  PROVE  OInv'
  <1> SUFFICES ASSUME Apart'
               PROVE  /\ InDay(idx)' /\ OneWriter' /\ AtListsEnd' /\ TodoDiffer'
                      /\ LiveWithin' /\ TodoWithin' /\ Growing' /\ Cleared' /\ OneLive'
    BY DEF OInv
  <1>1. UNCHANGED <<hour, list, todo, eof, spoilt>> /\ rpc = "open"
    BY DEF WriteRecordFile, listVars
  <1>2. ipos = Len(idx) + 1
    BY <1>1 DEF Apart, PInv, AtTheEnd, NotSet
  <1>3. idx \in Seq(Entry) /\ idx' \in Seq(Entry) /\ Len(idx) \in Nat
    BY DEF TypeOK
  <1>4. /\ Len(idx') = Len(idx) + 1 /\ \A i \in 1..Len(idx) : idx'[i] = idx[i]
        /\ idx'[Len(idx) + 1].time < DayLen
    <2>1. PICK e : idx' = Put(idx, Len(idx) + 1, e, Zeroed) /\ e.time = now' % DayLen
      BY <1>2 DEF WriteRecordFile
    <2>2. now' % DayLen < DayLen
      <3>1. now' \in Int /\ DayLen \in Int /\ DayLen > 0
        BY DayIsLong, IndexAssumption DEF TypeOK
      <3> QED BY <3>1, Division
    <2> QED BY <1>3, <2>1, <2>2 DEF Put
  <1>5. SettledApart(idx, hour)
    BY <1>1, <1>3, <1>4, LongerApart DEF Apart
  <1>6. Apart
    BY <1>1, <1>5 DEF Apart, TimesTrue
  <1>7. \A e \in Event : Upheld(idx, e) => Upheld(idx', e)
    BY <1>3, <1>4, LongerUpheld
  <1>8. /\ \A n \in Live : list[n].event \in Event
        /\ \A w \in Writers : todo[w] \subseteq Event
    <2>1. \A n \in Live : list[n] \in Item
      BY DEF Live, TypeOK
    <2> QED BY <2>1 DEF Item, TypeOK
  <1>9. \A x, e : SameHere(x, e)' <=> SameHere(x, e)
    BY <1>1 DEF SameHere, StartsHere, EndsEarly
  <1>10. /\ InDay(idx) /\ OneWriter /\ AtListsEnd /\ TodoDiffer
         /\ LiveWithin /\ TodoWithin /\ Growing /\ Cleared /\ OneLive
    BY <1>6 DEF OInv
  <1>11. OneWriter' /\ AtListsEnd' /\ TodoDiffer' /\ Growing' /\ Cleared' /\ OneLive'
    BY <1>1, <1>9, <1>10 DEF OneWriter, AtListsEnd, TodoDiffer, Growing, Cleared, OneLive,
                             StartsHere, Live, ComesFirst
  <1>12. LiveWithin' /\ TodoWithin'
    BY <1>1, <1>7, <1>8, <1>9, <1>10 DEF LiveWithin, TodoWithin, Live
  <1>13. InDay(idx)'
    BY <1>3, <1>4, <1>10 DEF InDay
  <1> QED BY <1>11, <1>12, <1>13

(* At every place of the writers, an event of a start that the list has is no longer than
   the index gives it by now, and what is to be put in replaces it.                   *)
THEOREM Once == Spec => []OInv
  <1>1. Init => OInv
    BY DEF Init, OInv, InDay, OneWriter, AtListsEnd, TodoDiffer, LiveWithin, TodoWithin,
           Growing, Cleared, OneLive, Live
  <1>2. ASSUME TInv, TInv', PInv, LInv, OInv, [Next]_vars PROVE OInv'
    <2> USE DEF TInv
    <2>1. CASE OpenRecordFile \/ ClearRecordInfor \/ RepairDone
      <3>1. UNCHANGED <<hour, idx, list, todo, eof, spoilt>>
        BY <2>1 DEF OpenRecordFile, ClearRecordInfor, RepairDone, fileVars, listVars
      <3> QED BY <1>2, <3>1, StillOnce
    <2>2. CASE CloseRecordFile
      <3>1. /\ UNCHANGED <<hour, list, eof>> /\ Parse("recorder", {"raced", "unlisted"})
            /\ rpc = "open"
        BY <2>2 DEF CloseRecordFile
      <3>2. todo["recorder"] = {} /\ "recorder" \in Writers
        BY <1>2, <3>1 DEF RecorderIdle, Writers
      <3> QED BY <1>2, <3>1, <3>2, ParseOnce
    <2>3. CASE fixNotCloseFile
      <3>1. UNCHANGED <<hour, list, eof>> /\ rpc = "down"
        BY <2>3 DEF fixNotCloseFile
      <3>2. todo["recorder"] = {} /\ "recorder" \in Writers
        BY <1>2, <3>1 DEF RecorderIdle, Writers
      <3>3. CASE m_bNonStop
        <4>1. Parse("recorder", {"raced", "unlisted"})
          BY <2>3, <3>3 DEF fixNotCloseFile
        <4> QED BY <1>2, <3>1, <3>2, <4>1, ParseOnce
      <3>4. CASE ~m_bNonStop
        <4>1. UNCHANGED <<idx, todo, spoilt>>
          BY <2>3, <3>4 DEF fixNotCloseFile
        <4> QED BY <1>2, <3>1, <4>1, StillOnce
      <3> QED BY <3>3, <3>4
    <2>4. CASE UpdateListFile
      <3>1. /\ UNCHANGED <<hour, list, eof>> /\ Parse("search", {}) /\ todo["search"] = {}
            /\ "search" \in Writers
        BY <2>4 DEF UpdateListFile, Writers
      <3> QED BY <1>2, <3>1, ParseOnce
    <2>5. CASE \E d \in Steps, k \in Kinds : WriteRecordFile(d, k)
      BY <1>2, <2>5, WriteOnce
    <2>6. CASE \E s \in Clocks : RederectFilePosition(hour * HourLen + s)
      <3>1. "jumped" \in spoilt'
        BY <2>6 DEF RederectFilePosition
      <3> QED BY <3>1 DEF OInv, Apart
    <2>7. CASE \E w \in Writers : AddScan(w) \/ AddWrite(w)
      BY <1>2, <2>7, ScanOnce, AddOnce DEF LInv
    <2>8. CASE Crash
      BY <1>2, <2>8, CrashOnce
    <2>9. CASE UNCHANGED vars
      <3>1. UNCHANGED <<hour, idx, list, todo, eof, spoilt>>
        BY <2>9 DEF vars, fileVars, listVars
      <3> QED BY <1>2, <3>1, StillOnce
    <2> QED BY <1>2, <2>1, <2>2, <2>3, <2>4, <2>5, <2>6, <2>7, <2>8, <2>9 DEF Next
  <1> QED BY <1>1, <1>2, TypesAndIdle, Positions, Reaches, PTL DEF Spec

\* However often the growing event is put into the list, its start is there once,
\* also when times of the index were mended in between.
THEOREM ListedOnce == Spec => []OnePerStart
  <1>1. OInv => OnePerStart
    <2> SUFFICES ASSUME OInv, spoilt \cap {"met", "jumped"} = {}, TimesTrue, StartsApart
                 PROVE  OnePerStart
      BY DEF OnePerStart
    <2>1. SettledApart(idx, hour)
      BY DEF SettledApart, StartsApart
    <2>2. OneLive
      BY <2>1 DEF OInv, Apart
    <2> QED BY <2>2 DEF OnePerStart, OneLive, SameHere, StartsHere
  <1> QED BY <1>1, Once, PTL

=============================================================================
