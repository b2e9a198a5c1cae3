--------------------------- MODULE DataSlotProofs ---------------------------
(***************************************************************************)
(* Theorems about a DataSlot of any size, for data of any times, and about *)
(* a port that pulls from it.                                              *)
(*                                                                         *)
(* The order of the ring is inductive by itself once Last is known to be   *)
(* a cell: a datum in time order goes above the newest one, and one out of *)
(* time order moves just the data that are newer than it.                  *)
(***************************************************************************)
EXTENDS PullPort, TLAPS, WellFoundedInduction, SequenceTheorems

(* The cell after a cell is a cell, and the walks up and down undo each    *)
(* other: the wrap-around of the array in write and read.                  *)
LEMMA Wrap ==
  ASSUME NEW i \in Cell
  PROVE  /\ Nxt(i) \in Cell /\ Prv(i) \in Cell
         /\ Prv(Nxt(i)) = i /\ Nxt(Prv(i)) = i
  BY SizeAssumption DEF Cell, Nxt, Prv

Datum == Data \cup {NoData}

LEMMA DatumTime == ASSUME NEW p \in Datum PROVE p.time \in Nat
  BY BoundAssumption DEF Datum, Data, NoData

Slot == [hist : [Cell -> Datum], last : Cell, num : 0 .. Size]

InOrder(s) == \A i \in Cell \ {s.last} : s.hist[i].time <= s.hist[Nxt(i)].time

Latest(s) == s.hist[s.last].time

(* The newest datum of a slot is at Last. *)
Top(s) == \A i \in Cell : s.hist[i].time <= Latest(s)

LEMMA NewestType ==
  ASSUME NEW s \in Slot, NEW p \in Data
  PROVE  PutNewest(s, p) \in Slot
<1>1. Nxt(s.last) \in Cell BY Wrap DEF Slot
<1>2. p \in Datum BY DEF Datum
<1>3. [s.hist EXCEPT ![Nxt(s.last)] = p] \in [Cell -> Datum] BY <1>1, <1>2 DEF Slot
<1>4. Bump(s.num) \in 0 .. Size BY SizeAssumption DEF Slot, Bump
<1> QED BY <1>1, <1>3, <1>4 DEF PutNewest, Slot

LEMMA LateType ==
  ASSUME NEW s \in Slot, NEW p \in Data
  PROVE  PutLate(s, p) \in Slot
<1> DEFINE h == PutLate(s, p).hist
<1>1. Nxt(s.last) \in Cell BY Wrap DEF Slot
<1>2. h = [i \in Cell |-> h[i]] BY DEF PutLate
<1>3. ASSUME NEW i \in Cell PROVE h[i] \in Datum
  <2>1. s.hist[i] \in Datum /\ s.hist[Prv(i)] \in Datum BY Wrap DEF Slot
  <2>2. p \in Datum BY DEF Datum
  <2> QED BY <2>1, <2>2 DEF PutLate
<1>4. Bump(s.num) \in 0 .. Size BY SizeAssumption DEF Slot, Bump
<1>5. h \in [Cell -> Datum] BY <1>2, <1>3
<1> QED BY <1>1, <1>4, <1>5 DEF PutLate, Slot

(* A datum that is not late keeps the ring in order and becomes its top. *)
LEMMA NewestInOrder ==
  ASSUME NEW s \in Slot, NEW p \in Data, InOrder(s), Top(s), ~Late(s, p)
  PROVE  /\ InOrder(PutNewest(s, p)) /\ Top(PutNewest(s, p))
         /\ Latest(PutNewest(s, p)) >= Latest(s)
<1> DEFINE r == PutNewest(s, p)
           top == Nxt(s.last)
<1>1. top \in Cell /\ s.last \in Cell BY Wrap DEF Slot
<1>2. r.last = top /\ r.hist = [s.hist EXCEPT ![top] = p] BY DEF PutNewest
<1>3. \A i \in Cell : r.hist[i] = IF i = top THEN p ELSE s.hist[i]
  BY <1>1, <1>2 DEF Slot
<1>4. \A i \in Cell : s.hist[i].time \in Nat BY DatumTime DEF Slot
<1>5. p.time \in Nat BY DatumTime DEF Datum
<1>6. s.hist[s.last].time <= p.time BY <1>1, <1>4, <1>5 DEF Late
<1>7. ASSUME NEW i \in Cell, i # top
      PROVE  r.hist[i].time <= r.hist[Nxt(i)].time
  <2>1. CASE i = s.last BY <2>1, <1>1, <1>3, <1>6, <1>7
  <2>2. CASE i # s.last
    <3>1. Nxt(i) # top BY <2>2, <1>1, Wrap
    <3> QED BY <2>2, <3>1, <1>3, <1>7, Wrap DEF InOrder
  <2> QED BY <2>1, <2>2
<1>8. ASSUME NEW i \in Cell PROVE r.hist[i].time <= r.hist[r.last].time
  BY <1>1, <1>2, <1>3, <1>4, <1>5, <1>6 DEF Top, Latest
<1>9. Latest(r) >= Latest(s) BY <1>1, <1>2, <1>3, <1>4, <1>5, <1>6 DEF Latest
<1> QED BY <1>2, <1>7, <1>8, <1>9 DEF InOrder, Top, Latest

(* So does a late one that is sorted in: each cell is compared with the    *)
(* next one, by whether the one below it and itself are moved.             *)
LEMMA LateInOrder ==
  ASSUME NEW s \in Slot, NEW p \in Data, InOrder(s), Top(s), Late(s, p)
  PROVE  /\ InOrder(PutLate(s, p)) /\ Top(PutLate(s, p))
         /\ Latest(PutLate(s, p)) >= Latest(s)
<1> DEFINE r == PutLate(s, p)
           newer == {i \in Cell : s.hist[i].time > p.time}
<1>1. Nxt(s.last) \in Cell /\ s.last \in Cell BY Wrap DEF Slot
<1>2. \A i \in Cell : s.hist[i].time \in Nat BY DatumTime DEF Slot
<1>3. p.time \in Nat BY DatumTime DEF Datum
<1>4. s.last \in newer BY <1>1, <1>2, <1>3 DEF Late
<1>5. r.last = Nxt(s.last) BY DEF PutLate
<1>6. \A i \in Cell : r.hist[i] = IF Prv(i) \in newer THEN s.hist[Prv(i)]
                                  ELSE IF i \in newer THEN p ELSE s.hist[i]
  BY DEF PutLate
<1>7. ASSUME NEW i \in Cell, i # Nxt(s.last)
      PROVE  r.hist[i].time <= r.hist[Nxt(i)].time
  <2>1. /\ Nxt(i) \in Cell /\ Prv(i) \in Cell
        /\ Prv(Nxt(i)) = i /\ Prv(i) # s.last /\ Nxt(Prv(i)) = i
    BY <1>1, <1>7, Wrap
  <2>2. s.hist[Prv(i)].time <= s.hist[i].time BY <2>1 DEF InOrder
  <2>3. r.hist[Nxt(i)] = IF i \in newer THEN s.hist[i]
                         ELSE IF Nxt(i) \in newer THEN p ELSE s.hist[Nxt(i)]
    BY <2>1, <1>6
  <2>4. CASE i \in newer
    BY <2>4, <2>1, <2>2, <2>3, <1>2, <1>3, <1>6
  <2>5. CASE i \notin newer
    <3>1. Prv(i) \notin newer BY <2>5, <2>1, <2>2, <1>2, <1>3
    <3>2. r.hist[i] = s.hist[i] /\ s.hist[i].time <= p.time
      BY <2>5, <3>1, <1>2, <1>3, <1>6
    <3>3. s.hist[i].time <= s.hist[Nxt(i)].time BY <2>5, <1>4 DEF InOrder
    <3> QED BY <2>3, <2>5, <3>2, <3>3
  <2> QED BY <2>4, <2>5
<1>8. r.hist[r.last] = s.hist[s.last] BY <1>1, <1>4, <1>5, <1>6, Wrap
<1>9. ASSUME NEW i \in Cell PROVE r.hist[i].time <= r.hist[r.last].time
  <2>1. s.hist[i].time <= s.hist[s.last].time /\ s.hist[Prv(i)].time <= s.hist[s.last].time
    BY Wrap DEF Top, Latest
  <2>2. p.time <= s.hist[s.last].time BY <1>1, <1>2, <1>3, <1>4
  <2> QED BY <2>1, <2>2, <1>6, <1>8
<1>10. Latest(r) >= Latest(s) BY <1>1, <1>2, <1>8 DEF Latest
<1> QED BY <1>5, <1>7, <1>9, <1>10 DEF InOrder, Top, Latest

(* DataSlot::write keeps a slot a slot, in order, with the newest at Last. *)
LEMMA WriteKeepsOrder ==
  ASSUME NEW s \in Slot, NEW p \in Data, InOrder(s), Top(s)
  PROVE  /\ RingWrite(s, p) \in Slot
         /\ InOrder(RingWrite(s, p)) /\ Top(RingWrite(s, p))
         /\ Latest(RingWrite(s, p)) >= Latest(s)
<1>1. CASE ~Late(s, p) BY <1>1, NewestType, NewestInOrder DEF RingWrite
<1>2. CASE Late(s, p) /\ Fits(s, p) BY <1>2, LateType, LateInOrder DEF RingWrite
<1>3. CASE Late(s, p) /\ ~Fits(s, p)
  <2>1. Latest(s) \in Nat BY DatumTime DEF Latest, Slot
  <2> QED BY <1>3, <2>1 DEF RingWrite
<1> QED BY <1>1, <1>2, <1>3
-----------------------------------------------------------------------------
IInv ==
  /\ slot \in Slot
  /\ written \in 0 .. MaxWrites
  /\ InOrder(slot)
  /\ Top(slot)

LEMMA InitIInv == Init => IInv
  BY SizeAssumption, BoundAssumption
  DEF Init, IInv, EmptySlot, Slot, Datum, NoData, Cell, InOrder, Top, Latest, Nxt

Climbs == Latest(slot') >= Latest(slot)

LEMMA NextIInv == IInv /\ [Next]_vars => IInv' /\ Climbs
<1> SUFFICES ASSUME IInv, [Next]_vars PROVE IInv' /\ Climbs OBVIOUS
<1>1. ASSUME NEW time \in 1 .. MaxTime, Write(time) PROVE IInv' /\ Climbs
  <2> DEFINE p == [time |-> time, id |-> written + 1]
  <2>1. p \in Data BY <1>1, BoundAssumption DEF Write, Data, IInv
  <2>2. slot' = RingWrite(slot, p) BY <1>1 DEF Write
  <2>3. written' \in 0 .. MaxWrites BY <1>1, BoundAssumption DEF Write, IInv
  <2> QED BY <2>1, <2>2, <2>3, WriteKeepsOrder DEF IInv, InOrder, Top, Climbs
<1>2. Latest(slot) \in Nat BY DatumTime DEF Latest, IInv, Slot
<1>3. CASE WriteRefused \/ UNCHANGED vars
  <2>1. slot' = slot /\ written' = written BY <1>3 DEF WriteRefused, vars
  <2> QED BY <1>2, <2>1 DEF IInv, InOrder, Top, Climbs
<1> QED BY <1>1, <1>3 DEF Next

THEOREM Invariance == Spec => []IInv
BY InitIInv, NextIInv, PTL DEF Spec

(* A DataSlot never leaves its array: Last is a cell of History, NumItems  *)
(* is at most Size, whatever is written in whatever order.                 *)
THEOREM TypeCorrect == Spec => []TypeOK
<1>1. IInv => TypeOK BY DEF IInv, TypeOK, Slot, Datum
<1> QED BY <1>1, Invariance, PTL

(* Whatever the order of the writes, the times in the ring never go down   *)
(* from the oldest cell to Last: the order DataSlot::read relies on.       *)
THEOREM TimeOrder == Spec => []RingInTimeOrder
<1>1. IInv => RingInTimeOrder BY DEF IInv, InOrder, RingInTimeOrder
<1> QED BY <1>1, Invariance, PTL

(* A late datum never hides a newer one from a reader that asks for the    *)
(* latest (t == 0): the time of the datum at Last never goes back.         *)
LatestNeverGoesBack ==
  [][slot'.hist[slot'.last].time >= slot.hist[slot.last].time]_vars

THEOREM LatestClimbs == Spec => LatestNeverGoesBack
<1>1. Climbs <=> slot'.hist[slot'.last].time >= slot.hist[slot.last].time
  BY DEF Climbs, Latest
<1> QED BY <1>1, NextIInv, Invariance, PTL DEF Spec, LatestNeverGoesBack
-----------------------------------------------------------------------------
(* Induction over a set of numbers. *)
LEMMA AllNumbers ==
  ASSUME NEW S, 0 \in S, \A n \in Nat : n \in S => n + 1 \in S
  PROVE  Nat \subseteq S
<1> SUFFICES ASSUME Nat \ S # {} PROVE FALSE
  OBVIOUS
<1>1. PICK i \in Nat \ S : \A j \in Nat \ S : ~(<<j, i>> \in OpToRel(<, Nat))
  BY WFMin, NatLessThanWellFounded
<1>2. \A j \in Nat \ S : ~(j < i)
  BY <1>1 DEF OpToRel
<1>3. i # 0 /\ i - 1 \in Nat /\ i - 1 < i
  OBVIOUS
<1>4. i - 1 \in S
  BY <1>2, <1>3
<1> QED BY <1>3, <1>4

(* A set of numbers that is not empty has a least member. *)
LEMMA LeastIn ==
  ASSUME NEW S \in SUBSET Nat, S # {}
  PROVE  \E n \in S : \A m \in S : n <= m
<1>1. PICK i \in S : \A j \in S : ~(<<j, i>> \in OpToRel(<, Nat))
  BY WFMin, NatLessThanWellFounded
<1>2. \A j \in S : ~(j < i)
  BY <1>1 DEF OpToRel
<1> QED BY <1>2

(* Counting one turn of the array too many changes nothing. *)
LEMMA OneTurn ==
  ASSUME NEW i \in Cell
  PROVE  i % Size = i /\ (i + Size) % Size = i
  BY SizeAssumption DEF Cell

(* The cell n steps back from Last, and the one before it. *)
LEMMA BackIs ==
  ASSUME NEW s, s.last \in Cell, NEW n \in 0 .. Size - 1
  PROVE  Back(s, n) = IF n <= s.last THEN s.last - n ELSE s.last + Size - n
<1>1. Size \in Nat \ {0} /\ s.last \in 0 .. Size - 1
  BY SizeAssumption DEF Cell
<1>2. CASE n <= s.last
  <2>1. s.last - n \in Cell /\ s.last + Size - n = (s.last - n) + Size
    BY <1>1, <1>2 DEF Cell
  <2>2. ((s.last - n) + Size) % Size = s.last - n
    BY <2>1, OneTurn
  <2> QED BY <1>2, <2>1, <2>2 DEF Back
<1>3. CASE ~(n <= s.last)
  <2>1. s.last + Size - n \in Cell
    BY <1>1, <1>3 DEF Cell
  <2>2. (s.last + Size - n) % Size = s.last + Size - n
    BY <2>1, OneTurn
  <2> QED BY <1>3, <2>2 DEF Back
<1> QED BY <1>2, <1>3

(* The walk back from Last visits every cell once, against Nxt. *)
LEMMA BackGoes ==
  ASSUME NEW s, s.last \in Cell
  PROVE  /\ Back(s, 0) = s.last /\ Back(s, Size) = s.last
         /\ \A n \in 0 .. Size - 1 : Back(s, n) \in Cell
         /\ \A n \in 1 .. Size - 1 : Back(s, n) # s.last /\ Nxt(Back(s, n)) = Back(s, n - 1)
         /\ \A n, m \in 0 .. Size - 1 : Back(s, n) = Back(s, m) => n = m
<1>1. Size \in Nat \ {0} /\ s.last \in 0 .. Size - 1
  BY SizeAssumption DEF Cell
<1>2. Back(s, Size) = s.last
  <2>1. s.last + Size - Size = s.last /\ s.last % Size = s.last
    BY <1>1, OneTurn
  <2> QED BY <2>1 DEF Back
<1>3. Back(s, 0) = s.last
  BY <1>1, BackIs
<1>4. ASSUME NEW n \in 0 .. Size - 1 PROVE Back(s, n) \in Cell
  BY <1>1, BackIs DEF Cell
<1>5. ASSUME NEW n \in 1 .. Size - 1
      PROVE  Back(s, n) # s.last /\ Nxt(Back(s, n)) = Back(s, n - 1)
  <2>1. n \in 0 .. Size - 1 /\ n - 1 \in 0 .. Size - 1
    BY <1>1
  <2> QED BY <1>1, <2>1, BackIs DEF Nxt
<1>6. ASSUME NEW n \in 0 .. Size - 1, NEW m \in 0 .. Size - 1, Back(s, n) = Back(s, m)
      PROVE  n = m
  BY <1>1, <1>6, BackIs
<1> QED BY <1>2, <1>3, <1>4, <1>5, <1>6

(* A slot whose data have times. *)
Timed(s) == s.last \in Cell /\ \A i \in Cell : s.hist[i].time \in Nat

(* The time of the datum n steps back. *)
TimeAt(s, n) == s.hist[Back(s, n)].time

(* In a slot in order, the walk back meets no newer datum. *)
LEMMA TimesFall ==
  ASSUME NEW s, Timed(s), InOrder(s)
  PROVE  /\ \A n \in 0 .. Size - 1 : TimeAt(s, n) \in Nat
         /\ \A m, n \in 0 .. Size - 1 : m <= n => TimeAt(s, n) <= TimeAt(s, m)
<1>1. Size \in Nat \ {0}
  BY SizeAssumption
<1>2. \A n \in 0 .. Size - 1 : TimeAt(s, n) \in Nat
  BY BackGoes DEF Timed, TimeAt
<1>3. ASSUME NEW n \in 1 .. Size - 1 PROVE TimeAt(s, n) <= TimeAt(s, n - 1)
  <2>1. n \in 0 .. Size - 1
    BY <1>1
  <2>2. Back(s, n) \in Cell /\ Back(s, n) # s.last /\ Nxt(Back(s, n)) = Back(s, n - 1)
    BY <2>1, BackGoes DEF Timed
  <2> QED BY <2>2 DEF InOrder, TimeAt
<1> DEFINE S == {d \in Nat : \A m \in 0 .. Size - 1 : m + d <= Size - 1 =>
                               TimeAt(s, m + d) <= TimeAt(s, m)}
<1>4. 0 \in S
  BY <1>1, <1>2
<1>5. ASSUME NEW d \in Nat, d \in S PROVE d + 1 \in S
  <2> SUFFICES ASSUME NEW m \in 0 .. Size - 1, m + (d + 1) <= Size - 1
               PROVE  TimeAt(s, m + (d + 1)) <= TimeAt(s, m)
    BY <1>5
  <2>1. m + (d + 1) \in 1 .. Size - 1 /\ (m + (d + 1)) - 1 = m + d /\ m + d \in 0 .. Size - 1
    BY <1>1
  <2>2. TimeAt(s, m + (d + 1)) <= TimeAt(s, m + d) /\ TimeAt(s, m + d) <= TimeAt(s, m)
    BY <1>3, <1>5, <2>1
  <2>3. m + (d + 1) \in 0 .. Size - 1
    BY <1>1, <2>1
  <2> QED BY <1>2, <2>1, <2>2, <2>3
<1>6. Nat \subseteq S
  <2> HIDE DEF S
  <2> QED BY <1>4, <1>5, AllNumbers
<1>7. ASSUME NEW m \in 0 .. Size - 1, NEW n \in 0 .. Size - 1, m <= n
      PROVE  TimeAt(s, n) <= TimeAt(s, m)
  <2>1. n - m \in Nat /\ m + (n - m) = n /\ n <= Size - 1
    BY <1>1, <1>7
  <2> QED BY <1>6, <2>1
<1> QED BY <1>2, <1>7

(* n steps back is the newest datum at or before t; Size where there is    *)
(* none.                                                                   *)
UpTo(s, t, h) ==
  /\ h \in 0 .. Size
  /\ h < Size => TimeAt(s, h) <= t
  /\ \A n \in 0 .. Size - 1 : n < h => TimeAt(s, n) > t

(* Up to l steps back from h all data have time t, and the one at l has not.*)
Past(s, t, h, l) ==
  /\ l \in h .. Size
  /\ l < Size => TimeAt(s, l) # t
  /\ \A n \in h .. Size - 1 : n < l => TimeAt(s, n) = t

(* The number a walk returns: the least hit, Size where there is none. *)
LEMMA LeastHit ==
  ASSUME NEW lo \in 0 .. Size, NEW hits \in SUBSET (lo .. Size - 1), NEW w,
         w = IF hits = {} THEN Size ELSE CHOOSE n \in hits : \A m \in hits : n <= m
  PROVE  w \in lo .. Size /\ (w < Size => w \in hits)
         /\ \A n \in lo .. Size - 1 : n < w => n \notin hits
<1>1. Size \in Nat \ {0}
  BY SizeAssumption
<1>2. CASE hits = {}
  BY <1>1, <1>2
<1>3. CASE hits # {}
  <2>1. hits \in SUBSET Nat
    BY <1>1
  <2>2. \E n \in hits : \A m \in hits : n <= m
    BY <1>3, <2>1, LeastIn
  <2>3. w \in hits /\ \A m \in hits : w <= m
    BY <1>3, <2>2
  <2>4. w \in lo .. Size - 1
    BY <2>3
  <2>5. w \in lo .. Size /\ w \in Nat
    BY <1>1, <2>4
  <2>6. ASSUME NEW n \in lo .. Size - 1, n < w PROVE n \notin hits
    <3>1. ~(w <= n)
      BY <1>1, <2>5, <2>6
    <3> QED BY <2>3, <3>1
  <2> QED BY <2>3, <2>5, <2>6
<1> QED BY <1>2, <1>3

(* A read answers from the two places it walks back to. *)
LEMMA ReadPlaces ==
  ASSUME NEW s, Timed(s), NEW t \in Nat, NEW k
  PROVE  \E h, l \in 0 .. Size :
           /\ RingRead(s, t, k) = ReadFrom(s, t, k, h, l)
           /\ UpTo(s, t, h)
           /\ IF TimeAt(s, h) = t THEN Past(s, t, h, l) ELSE l = h
<1> DEFINE hits == {n \in 0 .. Size - 1 : s.hist[Back(s, n)].time <= t}
           h == IF hits = {} THEN Size ELSE CHOOSE n \in hits : \A m \in hits : n <= m
           others == {n \in h .. Size - 1 : s.hist[Back(s, n)].time # t}
           past == IF others = {} THEN Size
                   ELSE CHOOSE n \in others : \A m \in others : n <= m
           l == IF s.hist[Back(s, h)].time = t THEN past ELSE h
<1>1. RingRead(s, t, k) = ReadFrom(s, t, k, h, l)
  BY DEF RingRead, Walk
<1>2. Size \in Nat \ {0} /\ \A n \in 0 .. Size - 1 : TimeAt(s, n) \in Nat
  BY SizeAssumption, BackGoes DEF Timed, TimeAt
<1>3. h \in 0 .. Size /\ (h < Size => h \in hits) /\ \A n \in 0 .. Size - 1 : n < h => n \notin hits
  <2> DEFINE w == h
  <2>1. hits \in SUBSET (0 .. Size - 1) /\ 0 \in 0 .. Size
    BY <1>2
  <2>2. w = IF hits = {} THEN Size ELSE CHOOSE n \in hits : \A m \in hits : n <= m
    OBVIOUS
  <2> HIDE DEF w, hits
  <2>3. w \in 0 .. Size /\ (w < Size => w \in hits) /\ \A n \in 0 .. Size - 1 : n < w => n \notin hits
    BY <2>1, <2>2, LeastHit
  <2> QED BY <2>3 DEF w
<1>4. UpTo(s, t, h)
  <2> DEFINE w == h
  <2>1. w \in 0 .. Size /\ (w < Size => w \in hits) /\ \A n \in 0 .. Size - 1 : n < w => n \notin hits
    BY <1>3
  <2> HIDE DEF w
  <2>2. UpTo(s, t, w)
    BY <1>2, <2>1 DEF UpTo, TimeAt
  <2> QED BY <2>2 DEF w
<1> HIDE DEF h
<1>5. past \in h .. Size /\ (past < Size => past \in others)
      /\ \A n \in h .. Size - 1 : n < past => n \notin others
  <2> DEFINE w == past
  <2>1. others \in SUBSET (h .. Size - 1)
    BY <1>2
  <2>2. w = IF others = {} THEN Size ELSE CHOOSE n \in others : \A m \in others : n <= m
    OBVIOUS
  <2> HIDE DEF w, others
  <2>3. h \in 0 .. Size
    BY <1>3
  <2>4. w \in h .. Size /\ (w < Size => w \in others) /\ \A n \in h .. Size - 1 : n < w => n \notin others
    BY <2>1, <2>2, <2>3, LeastHit
  <2> QED BY <2>4 DEF w
<1>6. Past(s, t, h, past)
  <2> DEFINE w == past
  <2>1. w \in h .. Size /\ (w < Size => w \in others) /\ \A n \in h .. Size - 1 : n < w => n \notin others
    BY <1>5
  <2> HIDE DEF w
  <2>2. Past(s, t, h, w)
    BY <2>1 DEF Past, TimeAt
  <2> QED BY <2>2 DEF w
<1>7. past \in 0 .. Size
  <2> DEFINE w == past
  <2>1. w \in h .. Size
    BY <1>5
  <2> HIDE DEF w
  <2>2. w \in 0 .. Size
    BY <1>2, <1>3, <2>1
  <2> QED BY <2>2 DEF w
<1> HIDE DEF past
<1>8. l \in 0 .. Size /\ IF TimeAt(s, h) = t THEN Past(s, t, h, l) ELSE l = h
  BY <1>3, <1>6, <1>7 DEF TimeAt
<1> QED BY <1>1, <1>3, <1>4, <1>8

(* l steps back is the newest datum before t; Size where there is none. *)
Before(s, t, l) ==
  /\ l \in 0 .. Size
  /\ \A n \in 0 .. Size - 1 : IF n < l THEN TimeAt(s, n) >= t ELSE TimeAt(s, n) < t

(* The second walk of a read ends at the newest datum before t. *)
LEMMA PastIsBefore ==
  ASSUME NEW s, Timed(s), InOrder(s), NEW t \in Nat,
         NEW h \in 0 .. Size, NEW l \in 0 .. Size, UpTo(s, t, h), h < Size,
         IF TimeAt(s, h) = t THEN Past(s, t, h, l) ELSE l = h
  PROVE  Before(s, t, l)
<1>1. Size \in Nat \ {0} /\ h \in 0 .. Size - 1
  BY SizeAssumption
<1>2. /\ \A n \in 0 .. Size - 1 : TimeAt(s, n) \in Nat
      /\ \A m, n \in 0 .. Size - 1 : m <= n => TimeAt(s, n) <= TimeAt(s, m)
  BY TimesFall
<1>3. TimeAt(s, h) <= t /\ \A n \in 0 .. Size - 1 : n < h => TimeAt(s, n) > t
  BY DEF UpTo
<1>4. CASE TimeAt(s, h) = t
  <2>1. /\ l \in h .. Size /\ (l < Size => TimeAt(s, l) # t)
        /\ \A n \in h .. Size - 1 : n < l => TimeAt(s, n) = t
    BY <1>4 DEF Past
  <2>2. ASSUME NEW n \in 0 .. Size - 1, n < l PROVE TimeAt(s, n) >= t
    <3>1. CASE n < h
      BY <1>2, <1>3, <3>1
    <3>2. CASE h <= n
      BY <1>1, <2>1, <2>2, <3>2
    <3> QED BY <1>1, <3>1, <3>2
  <2>3. ASSUME NEW n \in 0 .. Size - 1, ~(n < l) PROVE TimeAt(s, n) < t
    <3>1. l \in 0 .. Size - 1 /\ l < Size /\ l <= n /\ h <= l
      BY <1>1, <2>1, <2>3
    <3>2. TimeAt(s, l) # t /\ TimeAt(s, l) <= t /\ TimeAt(s, n) <= TimeAt(s, l)
      BY <1>1, <1>2, <1>4, <2>1, <3>1
    <3> QED BY <1>2, <3>1, <3>2
  <2> QED BY <2>2, <2>3 DEF Before
<1>5. CASE TimeAt(s, h) # t
  <2>1. l = h
    BY <1>5
  <2>2. ASSUME NEW n \in 0 .. Size - 1, n < l PROVE TimeAt(s, n) >= t
    BY <1>2, <1>3, <2>1, <2>2
  <2>3. ASSUME NEW n \in 0 .. Size - 1, ~(n < l) PROVE TimeAt(s, n) < t
    <3>1. TimeAt(s, n) <= TimeAt(s, h)
      BY <1>1, <1>2, <2>1, <2>3
    <3> QED BY <1>1, <1>2, <1>3, <1>5, <3>1
  <2> QED BY <2>2, <2>3 DEF Before
<1> QED BY <1>4, <1>5

(* The reply that gives the datum n steps back. *)
Gives(s, r, n) ==
  /\ n \in 0 .. Size - 1
  /\ r.ids = <<s.hist[Back(s, n)].id>>
  /\ r.time = TimeAt(s, n)

(* The reply r to a read of t and k, in terms of the two places the walks  *)
(* of the read come to.                                                    *)
RepliesFrom(s, r, t, k, h, l) ==
  IF t = 0 THEN Gives(s, r, 0)
  ELSE /\ UpTo(s, t, h) /\ Before(s, t, l) /\ h < Size
       /\ k < 0 => Gives(s, r, h - k)
       /\ k > 0 => Gives(s, r, l - 1 - k)
       /\ k = 0 /\ TimeAt(s, h) = t => Gives(s, r, h)
       /\ k = 0 /\ TimeAt(s, h) # t =>
            /\ l = h /\ h > 0 /\ r.time = t
            /\ r.ids = <<s.hist[Back(s, h)].id, s.hist[Back(s, h - 1)].id>>

(* What a slot that was written to answers when it reports success. *)
LEMMA ReadAnswers ==
  ASSUME NEW s, Timed(s), InOrder(s), s.num # 0, NEW t \in Nat, NEW k \in Int,
         RingRead(s, t, k).code = {}
  PROVE  \E h, l \in 0 .. Size : RepliesFrom(s, RingRead(s, t, k), t, k, h, l)
<1>1. PICK h \in 0 .. Size, l \in 0 .. Size :
        /\ RingRead(s, t, k) = ReadFrom(s, t, k, h, l)
        /\ UpTo(s, t, h)
        /\ IF TimeAt(s, h) = t THEN Past(s, t, h, l) ELSE l = h
  BY ReadPlaces
<1> DEFINE r == ReadFrom(s, t, k, h, l)
<1>2. Size \in Nat \ {0} /\ Back(s, 0) = s.last /\ r.code = {}
  BY <1>1, SizeAssumption, BackGoes DEF Timed
<1>3. NoMore # {} /\ TooOld # {} /\ Future # {}
  BY DEF NoMore, TooOld, Future
<1>4. CASE t = 0
  <2>1. r = Give({}, s.hist[s.last], k)
    BY <1>2, <1>4 DEF ReadFrom
  <2>2. Gives(s, r, 0)
    BY <1>2, <2>1 DEF Give, Reply, Gives, TimeAt
  <2> QED BY <1>1, <1>4, <2>2 DEF RepliesFrom
<1>5. CASE t # 0
  <2>1. /\ h < Size
        /\ r = IF k < 0 THEN ReadBefore(s, t, k, h)
               ELSE IF s.hist[Back(s, h)].time = t /\ k = 0 THEN Give({}, s.hist[Back(s, h)], 0)
               ELSE IF l = Size THEN Give(TooOld, s.hist[Nxt(s.last)], k)
               ELSE IF k > 0 THEN ReadAfter(s, t, k, l)
               ELSE ReadBetween(s, t, h, l)
    BY <1>2, <1>3, <1>5 DEF ReadFrom, Give, Reply
  <2>2. Before(s, t, l)
    BY <1>1, <2>1, PastIsBefore
  <2>3. ASSUME k < 0 PROVE Gives(s, r, h - k)
    <3>1. r = ReadBefore(s, t, k, h) /\ h - k \in Nat
      BY <1>2, <2>1, <2>3
    <3>2. h - k < Size
      BY <1>2, <1>3, <3>1 DEF ReadBefore, Reply
    <3> QED BY <1>2, <3>1, <3>2 DEF ReadBefore, Give, Reply, Gives, TimeAt
  <2>4. ASSUME k > 0 PROVE Gives(s, r, l - 1 - k)
    <3>1. l # Size
      BY <1>2, <1>3, <2>1, <2>4 DEF Give, Reply
    <3>2. r = ReadAfter(s, t, k, l) /\ l - 1 - k \in Int /\ l - 1 - k < Size
      BY <1>2, <2>1, <2>4, <3>1
    <3>3. l - 1 - k \in 0 .. Size - 1
      BY <1>2, <1>3, <3>2 DEF ReadAfter, Reply
    <3> QED BY <1>2, <3>2, <3>3 DEF ReadAfter, Give, Reply, Gives, TimeAt
  <2>5. ASSUME k = 0, TimeAt(s, h) = t PROVE Gives(s, r, h)
    <3>1. r = Give({}, s.hist[Back(s, h)], 0) /\ h \in 0 .. Size - 1
      BY <1>2, <2>1, <2>5 DEF TimeAt
    <3> QED BY <3>1 DEF Give, Reply, Gives, TimeAt
  <2>6. ASSUME k = 0, TimeAt(s, h) # t
        PROVE  /\ l = h /\ h > 0 /\ r.time = t
               /\ r.ids = <<s.hist[Back(s, h)].id, s.hist[Back(s, h - 1)].id>>
    <3>1. l = h
      BY <1>1, <2>6
    <3>2. r = ReadBetween(s, t, h, h)
      BY <1>2, <2>1, <2>6, <3>1 DEF TimeAt
    <3>3. h # 0
      BY <1>2, <1>3, <3>2 DEF ReadBetween, Reply
    <3> QED BY <1>2, <3>1, <3>2, <3>3 DEF ReadBetween, Reply
  <2> HIDE DEF r
  <2> QED BY <1>1, <1>5, <2>1, <2>2, <2>3, <2>4, <2>5, <2>6 DEF r, RepliesFrom
<1> QED BY <1>4, <1>5

(* In a full slot the kept data are those the walk back meets. *)
LEMMA KeptIs ==
  ASSUME slot \in Slot, slot.num = Size
  PROVE  /\ Len(Kept) = Size
         /\ \A n \in 0 .. Size - 1 : Size - n \in 1 .. Size /\ Kept[Size - n] = slot.hist[Back(slot, n)]
<1>1. Size \in Nat \ {0} /\ slot.last \in Cell /\ \A i \in Cell : slot.hist[i] \in Datum
  BY SizeAssumption DEF Slot
<1>2. ASSUME NEW i \in 1 .. Size
      PROVE  Size - i \in 0 .. Size - 1 /\ Kept[i] = slot.hist[Back(slot, Size - i)] /\ Kept[i] \in Datum
  <2>1. Size - i \in 0 .. Size - 1
    BY <1>1
  <2>2. Back(slot, Size - i) \in Cell
    BY <1>1, <2>1, BackGoes
  <2> QED BY <1>1, <2>1, <2>2 DEF Kept
<1>3. Kept \in [1 .. Size -> Datum]
  <2>1. Kept = [i \in 1 .. Size |-> Kept[i]]
    BY DEF Kept
  <2> QED BY <1>2, <2>1
<1>4. Len(Kept) = Size
  <2> DEFINE w == Kept
  <2>1. w \in [1 .. Size -> Datum]
    BY <1>3
  <2> HIDE DEF w
  <2>2. w \in Seq(Datum) /\ DOMAIN w = 1 .. Size
    BY <1>1, <2>1
  <2>3. Len(w) = Size
    BY <1>1, <2>2
  <2> QED BY <2>3 DEF w
<1>5. ASSUME NEW n \in 0 .. Size - 1
      PROVE  Size - n \in 1 .. Size /\ Kept[Size - n] = slot.hist[Back(slot, n)]
  <2>1. Size - n \in 1 .. Size /\ Size - (Size - n) = n
    BY <1>1
  <2> QED BY <1>2, <2>1
<1> QED BY <1>4, <1>5

(* The two walks find the positions the promise speaks of. *)
LEMMA WalksFind ==
  ASSUME slot \in Slot, slot.num = Size, NEW t \in Nat, NEW h, NEW l,
         UpTo(slot, t, h), Before(slot, t, l)
  PROVE  LastUpTo(t) = Size - h /\ FirstFrom(t) = Size + 1 - l
<1> DEFINE w == Kept
           N == Size
<1>1. N \in Nat \ {0} /\ h \in 0 .. N /\ l \in 0 .. N
  BY SizeAssumption DEF UpTo, Before
<1>2. Len(w) = N /\ \A n \in 0 .. N - 1 : N - n \in 1 .. N /\ w[N - n].time = TimeAt(slot, n)
  BY KeptIs DEF TimeAt
<1>3. \A n \in 0 .. N - 1 : TimeAt(slot, n) \in Nat
  <2>1. Timed(slot)
    BY DatumTime DEF Timed, Slot
  <2> QED BY <2>1, BackGoes DEF Timed, TimeAt
<1> HIDE DEF w, N
<1>4. ASSUME NEW j \in 1 .. N PROVE N - j \in 0 .. N - 1 /\ w[j].time = TimeAt(slot, N - j)
  <2>1. N - j \in 0 .. N - 1 /\ N - (N - j) = j
    BY <1>1
  <2> QED BY <1>2, <2>1
<1>5. LastUpTo(t) = N - h
  <2> DEFINE Up(i) == (i > 0 => w[i].time <= t) /\ \A j \in i + 1 .. N : w[j].time > t
  <2>1. LastUpTo(t) = CHOOSE i \in 0 .. N : Up(i)
    BY <1>2 DEF LastUpTo, w
  <2>2. N - h \in 0 .. N
    BY <1>1
  <2>3. N - h > 0 => w[N - h].time <= t
    <3> SUFFICES ASSUME N - h > 0 PROVE w[N - h].time <= t
      OBVIOUS
    <3>1. h \in 0 .. N - 1 /\ h < N
      BY <1>1
    <3> QED BY <1>2, <3>1 DEF UpTo, N
  <2>4. ASSUME NEW j \in N - h + 1 .. N PROVE w[j].time > t
    <3>1. j \in 1 .. N /\ N - j < h
      BY <1>1
    <3>2. N - j \in 0 .. N - 1 /\ w[j].time = TimeAt(slot, N - j)
      BY <1>4, <3>1
    <3> QED BY <3>1, <3>2 DEF UpTo, N
  <2>5. ASSUME NEW i \in 0 .. N, Up(i) PROVE i = N - h
    <3>1. CASE i < N - h
      <4>1. N - h \in i + 1 .. N /\ N - h \in 1 .. N /\ N - h > 0
        BY <1>1, <3>1
      <4>2. w[N - h].time > t /\ w[N - h].time <= t
        BY <2>3, <2>5, <4>1
      <4>3. w[N - h].time \in Nat
        BY <1>3, <1>4, <4>1
      <4> QED BY <4>2, <4>3
    <3>2. CASE N - h < i
      <4>1. i \in N - h + 1 .. N /\ i \in 1 .. N /\ i > 0
        BY <1>1, <3>2
      <4>2. w[i].time > t /\ w[i].time <= t
        BY <2>4, <2>5, <4>1
      <4>3. w[i].time \in Nat
        BY <1>3, <1>4, <4>1
      <4> QED BY <4>2, <4>3
    <3> QED BY <1>1, <3>1, <3>2
  <2>6. Up(N - h)
    BY <2>3, <2>4
  <2> HIDE DEF Up
  <2> QED BY <2>1, <2>2, <2>5, <2>6
<1>6. FirstFrom(t) = N + 1 - l
  <2> DEFINE From(i) == (i <= N => w[i].time >= t) /\ \A j \in 1 .. i - 1 : w[j].time < t
  <2>1. FirstFrom(t) = CHOOSE i \in 1 .. N + 1 : From(i)
    BY <1>2 DEF FirstFrom, w
  <2>2. N + 1 - l \in 1 .. N + 1
    BY <1>1
  <2>3. N + 1 - l <= N => w[N + 1 - l].time >= t
    <3> SUFFICES ASSUME N + 1 - l <= N PROVE w[N + 1 - l].time >= t
      OBVIOUS
    <3>1. l - 1 \in 0 .. N - 1 /\ l - 1 < l /\ N - (l - 1) = N + 1 - l
      BY <1>1
    <3>2. TimeAt(slot, l - 1) >= t
      BY <3>1 DEF Before, N
    <3> QED BY <1>2, <3>1, <3>2
  <2>4. ASSUME NEW j \in 1 .. (N + 1 - l) - 1 PROVE w[j].time < t
    <3>1. j \in 1 .. N /\ ~(N - j < l)
      BY <1>1
    <3>2. N - j \in 0 .. N - 1 /\ w[j].time = TimeAt(slot, N - j)
      BY <1>4, <3>1
    <3> QED BY <3>1, <3>2 DEF Before, N
  <2>5. ASSUME NEW i \in 1 .. N + 1, From(i) PROVE i = N + 1 - l
    <3>1. CASE i < N + 1 - l
      <4>1. i \in 1 .. (N + 1 - l) - 1 /\ i \in 1 .. N /\ i <= N
        BY <1>1, <3>1
      <4>2. w[i].time < t /\ w[i].time >= t
        BY <2>4, <2>5, <4>1
      <4>3. w[i].time \in Nat
        BY <1>3, <1>4, <4>1
      <4> QED BY <4>2, <4>3
    <3>2. CASE N + 1 - l < i
      <4>1. N + 1 - l \in 1 .. i - 1 /\ N + 1 - l \in 1 .. N /\ N + 1 - l <= N
        BY <1>1, <3>2
      <4>2. w[N + 1 - l].time >= t /\ w[N + 1 - l].time < t
        BY <2>3, <2>5, <4>1
      <4>3. w[N + 1 - l].time \in Nat
        BY <1>3, <1>4, <4>1
      <4> QED BY <4>2, <4>3
    <3> QED BY <1>1, <3>1, <3>2
  <2>6. From(N + 1 - l)
    BY <2>3, <2>4
  <2> HIDE DEF From
  <2> QED BY <2>1, <2>2, <2>5, <2>6
<1> QED BY <1>5, <1>6 DEF N

(* What a read that succeeds is promised to give. *)
Promised(t, k) ==
  LET w == Wanted(t, k)
      r == RingRead(slot, t, k)
  IN  IF k = 0 /\ w = 0
      THEN r.ids = <<Kept[LastUpTo(t)].id, Kept[FirstFrom(t)].id>> /\ r.time = t
      ELSE w \in 1 .. Len(Kept) /\ r.ids = <<Kept[w].id>> /\ r.time = Kept[w].time

(* The datum n steps back is the kept one n before the last. *)
LEMMA GivesKept ==
  ASSUME slot \in Slot, slot.num = Size, NEW r, NEW n, Gives(slot, r, n)
  PROVE  /\ Size - n \in 1 .. Len(Kept) /\ n \in 0 .. Size - 1
         /\ r.ids = <<Kept[Size - n].id>> /\ r.time = Kept[Size - n].time
<1>1. n \in 0 .. Size - 1
  BY DEF Gives
<1>2. Len(Kept) = Size /\ Size - n \in 1 .. Size /\ Kept[Size - n] = slot.hist[Back(slot, n)]
  BY <1>1, KeptIs
<1> QED BY <1>1, <1>2 DEF Gives, TimeAt

(* A full slot in order keeps the promise for every time and every step. *)
LEMMA PromiseKept ==
  ASSUME IInv, slot.num = Size, NEW t \in Nat, NEW k \in Int,
         RingRead(slot, t, k).code = {}
  PROVE  Promised(t, k)
<1> DEFINE r == RingRead(slot, t, k)
<1>1. slot \in Slot /\ InOrder(slot) /\ Timed(slot)
  BY DatumTime DEF IInv, Timed, Slot
<1>2. PICK h \in 0 .. Size, l \in 0 .. Size :
        IF t = 0 THEN Gives(slot, r, 0)
        ELSE /\ UpTo(slot, t, h) /\ Before(slot, t, l) /\ h < Size
             /\ k < 0 => Gives(slot, r, h - k)
             /\ k > 0 => Gives(slot, r, l - 1 - k)
             /\ k = 0 /\ TimeAt(slot, h) = t => Gives(slot, r, h)
             /\ k = 0 /\ TimeAt(slot, h) # t =>
                  /\ l = h /\ h > 0 /\ r.time = t
                  /\ r.ids = <<slot.hist[Back(slot, h)].id, slot.hist[Back(slot, h - 1)].id>>
  <2>1. slot.num # 0
    BY SizeAssumption
  <2>2. PICK h \in 0 .. Size, l \in 0 .. Size : RepliesFrom(slot, r, t, k, h, l)
    BY <1>1, <2>1, ReadAnswers
  <2> QED BY <2>2 DEF RepliesFrom
<1>3. Size \in Nat \ {0} /\ Len(Kept) = Size
  BY <1>1, KeptIs, SizeAssumption
<1> HIDE DEF r
<1>4. SUFFICES LET w == Wanted(t, k)
               IN  IF k = 0 /\ w = 0
                   THEN r.ids = <<Kept[LastUpTo(t)].id, Kept[FirstFrom(t)].id>> /\ r.time = t
                   ELSE w \in 1 .. Len(Kept) /\ r.ids = <<Kept[w].id>> /\ r.time = Kept[w].time
  BY DEF Promised, r
<1>5. ASSUME NEW n, Gives(slot, r, n), Wanted(t, k) = Size - n
      PROVE  LET w == Wanted(t, k)
             IN  /\ ~(k = 0 /\ w = 0)
                 /\ w \in 1 .. Len(Kept) /\ r.ids = <<Kept[w].id>> /\ r.time = Kept[w].time
  <2>1. /\ Size - n \in 1 .. Len(Kept)
        /\ r.ids = <<Kept[Size - n].id>> /\ r.time = Kept[Size - n].time
    BY <1>1, <1>5, GivesKept
  <2> QED BY <1>3, <1>5, <2>1
<1>6. CASE t = 0
  <2>1. Wanted(t, k) = Size - 0
    BY <1>3, <1>6 DEF Wanted
  <2> QED BY <1>2, <1>5, <1>6, <2>1
<1>7. CASE t # 0
  <2>1. LastUpTo(t) = Size - h /\ FirstFrom(t) = Size + 1 - l
    BY <1>1, <1>2, <1>7, WalksFind
  <2>2. CASE k < 0
    <3>1. Wanted(t, k) = Size - (h - k)
      BY <1>3, <1>7, <2>1, <2>2 DEF Wanted
    <3> QED BY <1>2, <1>5, <1>7, <2>2, <3>1
  <2>3. CASE k > 0
    <3>1. Wanted(t, k) = Size - (l - 1 - k)
      BY <1>3, <1>7, <2>1, <2>3 DEF Wanted
    <3> QED BY <1>2, <1>5, <1>7, <2>3, <3>1
  <2>4. ASSUME k = 0
        PROVE  /\ LastUpTo(t) > 0 /\ Kept[LastUpTo(t)] = slot.hist[Back(slot, h)]
               /\ Wanted(t, k) = IF TimeAt(slot, h) = t THEN Size - h ELSE 0
    <3>1. h \in 0 .. Size - 1
      BY <1>2, <1>3, <1>7
    <3>2. Kept[Size - h] = slot.hist[Back(slot, h)] /\ Size - h > 0
      BY <1>1, <1>3, <3>1, KeptIs
    <3> QED BY <1>7, <2>1, <2>4, <3>2 DEF Wanted, TimeAt
  <2>5. CASE k = 0 /\ TimeAt(slot, h) = t
    BY <1>2, <1>5, <1>7, <2>4, <2>5
  <2>6. CASE k = 0 /\ TimeAt(slot, h) # t
    <3>1. h - 1 \in 0 .. Size - 1 /\ Size - (h - 1) = Size + 1 - h
      BY <1>2, <1>3, <1>7, <2>6
    <3>2. Kept[Size + 1 - h] = slot.hist[Back(slot, h - 1)]
      BY <1>1, <1>3, <3>1, KeptIs
    <3>3. Kept[FirstFrom(t)] = slot.hist[Back(slot, h - 1)]
      BY <1>2, <1>7, <2>1, <2>6, <3>2
    <3> QED BY <1>2, <1>7, <2>4, <2>6, <3>3
  <2> QED BY <2>2, <2>3, <2>5, <2>6
<1> QED BY <1>6, <1>7

(* Once the array is full, whatever was written in whatever order, a read  *)
(* that reports success gives the datum DataSlot.hh describes, counted in  *)
(* time order from the time asked for, or interpolates between the two     *)
(* neighbours of that time.                                                *)
THEOREM ReadIsRight == Spec => []ReadGivesWanted
<1>1. ASSUME IInv PROVE ReadGivesWanted
  <2> SUFFICES ASSUME slot.num = Size, NEW t \in Times, NEW k \in Steps,
                      RingRead(slot, t, k).code = {}
               PROVE  Promised(t, k)
    BY DEF ReadGivesWanted, Answers, Promised
  <2>1. t \in Nat /\ k \in Int
    BY BoundAssumption DEF Times, Steps
  <2> QED BY <1>1, <2>1, PromiseKept
<1> QED BY <1>1, Invariance, PTL
-----------------------------------------------------------------------------
(* The ring after a device wrote its data in time order: n steps back is   *)
(* the datum written n before the last one, and times really fall.         *)
Stacked ==
  /\ slot.last \in Cell
  /\ slot.num = IF written < Size THEN written ELSE Size
  /\ \A n \in 0 .. Size - 1 :
       IF n < written
       THEN slot.hist[Back(slot, n)].id = written - n /\ TimeAt(slot, n) \in Nat \ {0}
       ELSE slot.hist[Back(slot, n)] = NoData
  /\ \A n \in 1 .. Size - 1 : n <= written => TimeAt(slot, n) < TimeAt(slot, n - 1)

(* Where a forward sequence has come to: LastTime is the time of its datum *)
(* as long as the ring has it.                                             *)
OnTheWay ==
  /\ lastTime \in Nat /\ nextData \in Int /\ result.time \in Nat
  /\ mode = "forward" => nextData = 1
  /\ mode = "forward" /\ at # 0 =>
       /\ at \in 1 .. written
       /\ lastTime > 0
       /\ IF written - at < Size THEN TimeAt(slot, written - at) = lastTime
          ELSE \A n \in 0 .. Size - 1 : TimeAt(slot, n) > lastTime

PortInv ==
  /\ written \in Nat
  /\ DOMAIN slot.hist = Cell
  /\ Stacked
  /\ OnTheWay

(* Every cell is some steps back. *)
LEMMA EveryCell ==
  ASSUME NEW s, s.last \in Cell, NEW i \in Cell
  PROVE  \E n \in 0 .. Size - 1 : Back(s, n) = i
<1>1. Size \in Nat \ {0} /\ i \in 0 .. Size - 1 /\ s.last \in 0 .. Size - 1
  BY SizeAssumption DEF Cell
<1>2. CASE i <= s.last
  <2>1. s.last - i \in 0 .. Size - 1 /\ s.last - i <= s.last /\ s.last - (s.last - i) = i
    BY <1>1, <1>2
  <2> QED BY <2>1, BackIs
<1>3. CASE s.last < i
  <2>1. /\ s.last + Size - i \in 0 .. Size - 1 /\ ~(s.last + Size - i <= s.last)
        /\ s.last + Size - (s.last + Size - i) = i
    BY <1>1, <1>3
  <2> QED BY <2>1, BackIs
<1> QED BY <1>1, <1>2, <1>3

(* Such a ring is in order, and its times really fall. *)
LEMMA StackedRing ==
  ASSUME Stacked, written \in Nat
  PROVE  /\ Timed(slot) /\ InOrder(slot)
         /\ \A n \in 0 .. Size - 1 : TimeAt(slot, n) \in Nat
         /\ \A m, n \in 0 .. Size - 1 : m < n /\ m < written => TimeAt(slot, n) < TimeAt(slot, m)
         /\ written > 0 <=> slot.num # 0
<1>1. Size \in Nat \ {0} /\ slot.last \in Cell
  BY SizeAssumption DEF Stacked
<1>2. \A n \in 0 .. Size - 1 : TimeAt(slot, n) \in Nat /\ (n >= written => TimeAt(slot, n) = 0)
  BY <1>1 DEF Stacked, TimeAt, NoData
<1>3. Timed(slot)
  <2> SUFFICES ASSUME NEW i \in Cell PROVE slot.hist[i].time \in Nat
    BY <1>1 DEF Timed
  <2>1. PICK n \in 0 .. Size - 1 : Back(slot, n) = i
    BY <1>1, EveryCell
  <2> QED BY <1>2, <2>1 DEF TimeAt
<1>4. \A n \in 1 .. Size - 1 : TimeAt(slot, n) <= TimeAt(slot, n - 1)
  <2> SUFFICES ASSUME NEW n \in 1 .. Size - 1 PROVE TimeAt(slot, n) <= TimeAt(slot, n - 1)
    OBVIOUS
  <2>1. n \in 0 .. Size - 1 /\ n - 1 \in 0 .. Size - 1
    BY <1>1
  <2>2. CASE n <= written
    BY <1>2, <2>1, <2>2 DEF Stacked
  <2>3. CASE n > written
    BY <1>1, <1>2, <2>1, <2>3
  <2> QED BY <1>1, <2>2, <2>3
<1>5. InOrder(slot)
  <2> SUFFICES ASSUME NEW i \in Cell, i # slot.last
               PROVE  slot.hist[i].time <= slot.hist[Nxt(i)].time
    BY DEF InOrder
  <2>1. PICK n \in 0 .. Size - 1 : Back(slot, n) = i
    BY <1>1, EveryCell
  <2>2. n # 0 /\ n \in 1 .. Size - 1
    BY <1>1, <2>1, BackGoes
  <2>3. Nxt(i) = Back(slot, n - 1)
    BY <1>1, <2>1, <2>2, BackGoes
  <2> QED BY <1>4, <2>1, <2>2, <2>3 DEF TimeAt
<1>6. ASSUME NEW m \in 0 .. Size - 1, NEW n \in 0 .. Size - 1, m < n, m < written
      PROVE  TimeAt(slot, n) < TimeAt(slot, m)
  <2>1. m + 1 \in 1 .. Size - 1 /\ m + 1 <= written /\ m + 1 <= n /\ (m + 1) - 1 = m
        /\ m + 1 \in 0 .. Size - 1
    BY <1>1, <1>6
  <2>2. TimeAt(slot, m + 1) < TimeAt(slot, m)
    BY <2>1 DEF Stacked
  <2>3. TimeAt(slot, n) <= TimeAt(slot, m + 1)
    BY <1>3, <1>5, <2>1, TimesFall
  <2>4. TimeAt(slot, n) \in Nat /\ TimeAt(slot, m) \in Nat /\ TimeAt(slot, m + 1) \in Nat
    BY <1>2, <2>1
  <2> QED BY <2>2, <2>3, <2>4
<1>7. written > 0 <=> slot.num # 0
  BY <1>1 DEF Stacked
<1> QED BY <1>2, <1>3, <1>5, <1>6, <1>7

(* A datum newer than all others pushes them one step back. *)
LEMMA NewestSteps ==
  ASSUME NEW s, NEW p, NEW r, s.last \in Cell, DOMAIN s.hist = Cell, r = PutNewest(s, p)
  PROVE  /\ r.last \in Cell /\ DOMAIN r.hist = Cell
         /\ r.num = Bump(s.num)
         /\ r.hist[Back(r, 0)] = p
         /\ \A n \in 1 .. Size - 1 : r.hist[Back(r, n)] = s.hist[Back(s, n - 1)]
<1>1. Size \in Nat \ {0} /\ s.last \in 0 .. Size - 1 /\ Nxt(s.last) \in Cell
  BY SizeAssumption, Wrap DEF Cell
<1>2. r.last = Nxt(s.last) /\ r.num = Bump(s.num) /\ r.hist = [s.hist EXCEPT ![Nxt(s.last)] = p]
  BY DEF PutNewest
<1>3. r.hist[Nxt(s.last)] = p /\ \A i \in Cell : i # Nxt(s.last) => r.hist[i] = s.hist[i]
  BY <1>1, <1>2
<1>4. DOMAIN r.hist = Cell
  BY <1>1, <1>2
<1>5. r.hist[Back(r, 0)] = p
  BY <1>1, <1>2, <1>3, BackGoes
<1>6. ASSUME NEW n \in 1 .. Size - 1 PROVE r.hist[Back(r, n)] = s.hist[Back(s, n - 1)]
  <2>1. n \in 0 .. Size - 1 /\ n - 1 \in 0 .. Size - 1
    BY <1>1
  <2>2. Back(r, n) = Back(s, n - 1)
    <3>1. Back(r, n) = IF n <= Nxt(s.last) THEN Nxt(s.last) - n ELSE Nxt(s.last) + Size - n
      BY <1>1, <1>2, <2>1, BackIs
    <3>2. Back(s, n - 1) = IF n - 1 <= s.last THEN s.last - (n - 1) ELSE s.last + Size - (n - 1)
      BY <1>1, <2>1, BackIs DEF Cell
    <3> QED BY <1>1, <3>1, <3>2 DEF Nxt
  <2>3. Back(r, n) # r.last /\ Back(r, n) \in Cell
    BY <1>1, <1>2, <2>1, BackGoes
  <2> QED BY <1>2, <1>3, <2>2, <2>3
<1> QED BY <1>1, <1>2, <1>4, <1>5, <1>6

(* The port begins with an empty slot. *)
LEMMA InitPort == PortInit => PortInv
<1> SUFFICES ASSUME PortInit PROVE PortInv
  OBVIOUS
<1>1. /\ slot = EmptySlot /\ written = 0 /\ mode = "exact"
      /\ lastTime = 0 /\ nextData = 0 /\ result = NoResult
  BY DEF PortInit, Init
<1>2. Size \in Nat \ {0} /\ slot.last \in Cell /\ \A i \in Cell : slot.hist[i] = NoData
  BY <1>1, SizeAssumption DEF EmptySlot, Cell
<1>3. \A n \in 0 .. Size - 1 : Back(slot, n) \in Cell
  BY <1>2, BackGoes
<1>4. Stacked
  BY <1>1, <1>2, <1>3 DEF Stacked, EmptySlot
<1>5. OnTheWay
  BY <1>1 DEF OnTheWay, NoResult
<1>6. DOMAIN slot.hist = Cell
  BY <1>1 DEF EmptySlot
<1> QED BY <1>1, <1>4, <1>5, <1>6 DEF PortInv

(* A datum later than all others moves the sequence one step further back. *)
LEMMA DeviceKeeps ==
  ASSUME PortInv, 0 \notin Gaps, NEW gap \in Gaps, DeviceWrites(gap)
  PROVE  PortInv'
<1> DEFINE p == [time |-> LastWritten + gap, id |-> written + 1]
<1>1. /\ Size \in Nat \ {0} /\ written \in Nat /\ slot.last \in Cell /\ gap \in Nat \ {0}
      /\ DOMAIN slot.hist = Cell /\ Stacked /\ OnTheWay
  BY SizeAssumption, PortAssumption DEF PortInv, Stacked
<1>2. Back(slot, 0) = slot.last /\ LastWritten = TimeAt(slot, 0) /\ LastWritten \in Nat
  BY <1>1, BackGoes, StackedRing DEF LastWritten, TimeAt
<1>3. p.time \in Nat \ {0} /\ p.time > TimeAt(slot, 0) /\ p.id = written + 1
  BY <1>1, <1>2
<1>4. written' = written + 1 /\ slot' = RingWrite(slot, p)
  BY DEF DeviceWrites, Write
<1>12. written' = written + 1
  BY <1>4
<1>5. ~Late(slot, p)
  BY <1>2, <1>3 DEF Late, TimeAt
<1>6. slot' = PutNewest(slot, p)
  BY <1>4, <1>5 DEF RingWrite
<1>7. /\ slot'.last \in Cell /\ DOMAIN slot'.hist = Cell
      /\ slot'.num = Bump(slot.num)
      /\ slot'.hist[Back(slot', 0)] = p
      /\ \A n \in 1 .. Size - 1 : slot'.hist[Back(slot', n)] = slot.hist[Back(slot, n - 1)]
  BY <1>1, <1>6, NewestSteps
<1> HIDE DEF p
<1>8. /\ TimeAt(slot', 0) = p.time
      /\ \A n \in 1 .. Size - 1 : TimeAt(slot', n) = TimeAt(slot, n - 1)
  BY <1>7 DEF TimeAt
<1>9. /\ \A n \in 0 .. Size - 1 : TimeAt(slot, n) \in Nat
      /\ \A m, n \in 0 .. Size - 1 : m < n /\ m < written => TimeAt(slot, n) < TimeAt(slot, m)
  BY <1>1, StackedRing
<1>10. Stacked'
  <2>1. slot'.num = IF written + 1 < Size THEN written + 1 ELSE Size
    BY <1>1, <1>7 DEF Stacked, Bump
  <2>2. ASSUME NEW n \in 0 .. Size - 1
        PROVE  IF n < written'
               THEN slot'.hist[Back(slot', n)].id = written' - n /\ TimeAt(slot', n) \in Nat \ {0}
               ELSE slot'.hist[Back(slot', n)] = NoData
    <3>1. CASE n = 0
      BY <1>1, <1>3, <1>7, <1>8, <1>12, <3>1
    <3>2. CASE n # 0
      <4>1. n \in 1 .. Size - 1 /\ n - 1 \in 0 .. Size - 1
        BY <1>1, <3>2
      <4>2. IF n - 1 < written
            THEN slot.hist[Back(slot, n - 1)].id = written - (n - 1) /\ TimeAt(slot, n - 1) \in Nat \ {0}
            ELSE slot.hist[Back(slot, n - 1)] = NoData
        BY <1>1, <4>1 DEF Stacked
      <4> QED BY <1>1, <1>7, <1>8, <1>12, <4>1, <4>2
    <3> QED BY <3>1, <3>2
  <2>3. ASSUME NEW n \in 1 .. Size - 1, n <= written + 1
        PROVE  TimeAt(slot', n) < TimeAt(slot', n - 1)
    <3>1. CASE n = 1
      BY <1>1, <1>3, <1>8, <3>1
    <3>2. CASE n # 1
      <4>1. n - 1 \in 1 .. Size - 1 /\ n - 1 <= written
        BY <1>1, <2>3, <3>2
      <4>2. TimeAt(slot, n - 1) < TimeAt(slot, (n - 1) - 1)
        BY <1>1, <4>1 DEF Stacked
      <4> QED BY <1>8, <4>1, <4>2
    <3> QED BY <3>1, <3>2
  <2>4. slot'.num = IF written' < Size THEN written' ELSE Size
    BY <1>12, <2>1
  <2>6. ASSUME NEW n \in 1 .. Size - 1, n <= written'
        PROVE  TimeAt(slot', n) < TimeAt(slot', n - 1)
    BY <1>12, <2>3, <2>6
  <2> QED BY <1>7, <2>2, <2>4, <2>6 DEF Stacked
<1>11. OnTheWay'
  <2>1. UNCHANGED <<lastTime, nextData, result, mode, at>>
    BY DEF DeviceWrites, portVars, pullVars
  <2>2. ASSUME mode = "forward", at # 0
        PROVE  /\ at \in 1 .. written + 1 /\ lastTime > 0
               /\ IF written + 1 - at < Size THEN TimeAt(slot', written + 1 - at) = lastTime
                  ELSE \A n \in 0 .. Size - 1 : TimeAt(slot', n) > lastTime
    <3>1. /\ at \in 1 .. written /\ lastTime \in Nat /\ lastTime > 0
          /\ IF written - at < Size THEN TimeAt(slot, written - at) = lastTime
             ELSE \A n \in 0 .. Size - 1 : TimeAt(slot, n) > lastTime
      BY <1>1, <2>2 DEF OnTheWay
    <3>2. CASE written + 1 - at < Size
      <4>1. written + 1 - at \in 1 .. Size - 1 /\ (written + 1 - at) - 1 = written - at
        BY <1>1, <3>1, <3>2
      <4> QED BY <1>1, <1>8, <3>1, <3>2, <4>1
    <3>3. CASE ~(written + 1 - at < Size)
      <4> SUFFICES ASSUME NEW n \in 0 .. Size - 1 PROVE TimeAt(slot', n) > lastTime
        BY <1>1, <3>1, <3>3
      <4>1. \A m \in 0 .. Size - 1 : m < Size - 1 => TimeAt(slot, m) > lastTime
        <5> SUFFICES ASSUME NEW m \in 0 .. Size - 1, m < Size - 1 PROVE TimeAt(slot, m) > lastTime
          OBVIOUS
        <5>1. CASE written - at < Size
          <6>1. written - at = Size - 1 /\ m < written /\ Size - 1 \in 0 .. Size - 1
            BY <1>1, <3>1, <3>3, <5>1
          <6>2. TimeAt(slot, Size - 1) < TimeAt(slot, m)
            BY <1>9, <6>1
          <6> QED BY <1>9, <3>1, <6>1, <6>2
        <5>2. CASE ~(written - at < Size)
          BY <3>1, <5>2
        <5> QED BY <5>1, <5>2
      <4>2. TimeAt(slot, 0) >= lastTime /\ 0 \in 0 .. Size - 1
        <5>1. CASE written - at < Size
          <6>1. written - at = Size - 1 /\ Size - 1 \in 0 .. Size - 1 /\ 0 < written /\ 0 \in 0 .. Size - 1
            BY <1>1, <3>1, <3>3, <5>1
          <6>2. TimeAt(slot, Size - 1) = lastTime
            BY <3>1, <5>1, <6>1
          <6> QED BY <1>1, <1>9, <6>1, <6>2
        <5>2. CASE ~(written - at < Size)
          BY <1>1, <1>9, <3>1, <5>2
        <5> QED BY <5>1, <5>2
      <4>3. CASE n = 0
        BY <1>3, <1>8, <1>9, <3>1, <4>2, <4>3
      <4>4. CASE n # 0
        <5>1. n \in 1 .. Size - 1 /\ n - 1 \in 0 .. Size - 1 /\ n - 1 < Size - 1
          BY <1>1, <4>4
        <5> QED BY <1>8, <4>1, <5>1
      <4> QED BY <4>3, <4>4
    <3> QED BY <3>2, <3>3
  <2> QED BY <1>1, <1>4, <2>1, <2>2 DEF OnTheWay
<1> QED BY <1>1, <1>4, <1>7, <1>10, <1>11 DEF PortInv

(* Every reply is a record with a time, and to a read one datum forward    *)
(* interpolate[0] does not come back as 0.                                 *)
LEMMA ReplyForm ==
  ASSUME NEW s, Timed(s), NEW t \in Nat, NEW k \in Int
  PROVE  \E c, i, x : \E m \in Nat : RingRead(s, t, k) = Reply(c, i, m, x) /\ (k = 1 => x # 0)
<1> DEFINE Good(r) == \E c, i, x : \E m \in Nat : r = Reply(c, i, m, x) /\ (k = 1 => x # 0)
<1>1. ASSUME NEW c, NEW i, NEW x, NEW m \in Nat, k = 1 => x # 0
      PROVE  Good(Reply(c, i, m, x))
  BY <1>1
<1>2. ASSUME NEW c, NEW p, p.time \in Nat, NEW x, k = 1 => x # 0
      PROVE  Good(Give(c, p, x))
  BY <1>1, <1>2 DEF Give
<1> HIDE DEF Good
<1>3. PICK h \in 0 .. Size, l \in 0 .. Size :
        /\ RingRead(s, t, k) = ReadFrom(s, t, k, h, l)
        /\ UpTo(s, t, h)
        /\ IF TimeAt(s, h) = t THEN Past(s, t, h, l) ELSE l = h
  BY ReadPlaces
<1>4. /\ Size \in Nat \ {0} /\ s.last \in Cell
      /\ \A n \in 0 .. Size - 1 : s.hist[Back(s, n)].time \in Nat
      /\ \A i \in Cell : s.hist[i].time \in Nat
  BY SizeAssumption, BackGoes DEF Timed
<1>5. RingOldest(s) \in Cell /\ Nxt(s.last) \in Cell
  <2>1. s.last # Size - 1 => s.last + 1 \in Cell /\ (s.last + 1) % Size = s.last + 1
    <3> SUFFICES ASSUME s.last # Size - 1 PROVE s.last + 1 \in Cell /\ (s.last + 1) % Size = s.last + 1
      OBVIOUS
    <3>1. s.last + 1 \in Cell
      BY <1>4 DEF Cell
    <3> QED BY <3>1, OneTurn
  <2>2. s.last = Size - 1 => (s.last + 1) % Size = 0
    <3>1. 0 \in Cell
      BY <1>4 DEF Cell
    <3>2. (0 + Size) % Size = 0
      BY <3>1, OneTurn
    <3> QED BY <1>4, <3>2
  <2>3. 0 \in Cell
    BY <1>4 DEF Cell
  <2> QED BY <1>4, <2>1, <2>2, <2>3, Wrap DEF RingOldest
<1>6. ASSUME NEW j \in Cell, NEW c PROVE Good(Give(c, s.hist[j], k))
  BY <1>2, <1>4
<1>7. ASSUME k < 0 PROVE Good(ReadBefore(s, t, k, h))
  <2>1. CASE h - k >= Size
    <3>1. ReadBefore(s, t, k, h) = Reply(TooOld, <<>>, 0, k)
      BY <2>1 DEF ReadBefore
    <3> QED BY <1>1, <1>7, <3>1
  <2>2. CASE ~(h - k >= Size)
    <3>1. h - k \in 0 .. Size - 1
      BY <1>4, <1>7, <2>2
    <3>2. PICK x : ReadBefore(s, t, k, h) = Give({}, s.hist[Back(s, h - k)], x)
      BY <2>2 DEF ReadBefore
    <3> QED BY <1>2, <1>4, <1>7, <3>1, <3>2
  <2> QED BY <2>1, <2>2
<1>8. ASSUME k > 0 PROVE Good(ReadAfter(s, t, k, l))
  <2>1. CASE l - 1 - k < 0
    <3>1. ReadAfter(s, t, k, l) = Reply(NoMore, <<>>, 0, k)
      BY <2>1 DEF ReadAfter
    <3> QED BY <1>1, <3>1
  <2>2. CASE ~(l - 1 - k < 0)
    <3>1. l - 1 - k \in 0 .. Size - 1
      BY <1>4, <1>8, <2>2
    <3>2. ReadAfter(s, t, k, l) = Give({}, s.hist[Back(s, l - 1 - k)],
                                       IF s.hist[Back(s, l - 1 - k)].time = t THEN k + 1 ELSE 1)
      BY <2>2 DEF ReadAfter
    <3>3. (IF s.hist[Back(s, l - 1 - k)].time = t THEN k + 1 ELSE 1) # 0
      BY <1>8
    <3>4. s.hist[Back(s, l - 1 - k)].time \in Nat
      BY <1>4, <3>1
    <3> QED BY <1>2, <3>2, <3>3, <3>4
  <2> QED BY <2>1, <2>2
<1>9. ASSUME k = 0 PROVE Good(ReadBetween(s, t, h, l))
  <2>1. CASE h = 0
    BY <1>1, <1>9, <2>1 DEF ReadBetween
  <2>2. CASE h # 0
    BY <1>1, <1>9, <2>2 DEF ReadBetween
  <2> QED BY <2>1, <2>2
<1>10. ASSUME k = 0, h # Size PROVE Good(Give({}, s.hist[Back(s, h)], 0))
  <2>1. h \in 0 .. Size - 1
    BY <1>4, <1>10
  <2> QED BY <1>2, <1>4, <1>10, <2>1
<1>11. Good(Reply(NoMore, <<>>, 0, k))
  BY <1>1
<1>12. Good(ReadFrom(s, t, k, h, l))
  <2> DEFINE newest(c) == Good(Give(c, s.hist[s.last], k))
             next(c) == Good(Give(c, s.hist[Nxt(s.last)], k))
  <2>1. /\ newest({}) /\ newest(Future) /\ newest({"TIMESTAMP_ERROR"}) /\ newest(NoMore)
        /\ next(TooOld) /\ Good(Give(TooOld, s.hist[RingOldest(s)], k))
    BY <1>4, <1>5, <1>6
  <2>2. k < 0 \/ k > 0 \/ k = 0
    OBVIOUS
  <2> QED BY <1>7, <1>8, <1>9, <1>10, <1>11, <2>1, <2>2 DEF ReadFrom
<1> QED BY <1>3, <1>12 DEF Good

(* A successful read one datum forward gives the datum written right after *)
(* the one the sequence has come to.                                       *)
LEMMA ForwardReply ==
  ASSUME PortInv, NEW t \in Nat, RingRead(slot, t, 1).code = {}
  PROVE  LET r == RingRead(slot, t, 1)
         IN  \E n \in 0 .. Size - 1 :
               /\ n < written /\ r.ids = <<written - n>>
               /\ r.time = TimeAt(slot, n) /\ r.time \in Nat \ {0} /\ r.time # t
               /\ mode = "forward" /\ at # 0 /\ t = lastTime => written - n = at + 1
<1> DEFINE r == RingRead(slot, t, 1)
<1>1. Size \in Nat \ {0} /\ written \in Nat /\ Stacked /\ OnTheWay
  BY SizeAssumption DEF PortInv
<1>2. /\ Timed(slot) /\ InOrder(slot)
      /\ \A n \in 0 .. Size - 1 : TimeAt(slot, n) \in Nat
      /\ \A m, n \in 0 .. Size - 1 : m < n /\ m < written => TimeAt(slot, n) < TimeAt(slot, m)
      /\ written > 0 <=> slot.num # 0
  BY <1>1, StackedRing
<1>3. slot.num # 0
  <2> SUFFICES ASSUME slot.num = 0 PROVE FALSE
    OBVIOUS
  <2>1. PICK h \in 0 .. Size, l \in 0 .. Size : r = ReadFrom(slot, t, 1, h, l)
    BY <1>2, ReadPlaces
  <2>2. r.code = NoMore
    BY <2>1 DEF ReadFrom, Reply
  <2> QED BY <2>2 DEF NoMore
<1>4. ASSUME NEW n \in 0 .. Size - 1, n < written, Gives(slot, r, n)
      PROVE  r.ids = <<written - n>> /\ r.time = TimeAt(slot, n) /\ r.time \in Nat \ {0}
  BY <1>1, <1>4 DEF Gives, Stacked
<1>5. PICK h \in 0 .. Size, l \in 0 .. Size : RepliesFrom(slot, r, t, 1, h, l)
  BY <1>2, <1>3, ReadAnswers
<1>6. /\ t = 0 => Gives(slot, r, 0)
      /\ t # 0 => UpTo(slot, t, h) /\ Before(slot, t, l) /\ h < Size /\ Gives(slot, r, l - 1 - 1)
  BY <1>5 DEF RepliesFrom
<1> HIDE DEF r
<1>7. CASE t = 0
  <2>1. 0 \in 0 .. Size - 1 /\ 0 < written
    BY <1>1, <1>2, <1>3
  <2>2. ~(mode = "forward" /\ at # 0 /\ t = lastTime)
    BY <1>1, <1>7 DEF OnTheWay
  <2>3. r.ids = <<written - 0>> /\ r.time = TimeAt(slot, 0) /\ r.time \in Nat \ {0}
    BY <1>4, <1>6, <1>7, <2>1
  <2> QED BY <1>7, <2>1, <2>2, <2>3 DEF r
<1>8. CASE t # 0
  <2> DEFINE n == l - 1 - 1
  <2>1. UpTo(slot, t, h) /\ Before(slot, t, l) /\ h < Size /\ Gives(slot, r, n)
    BY <1>6, <1>8
  <2>2. n \in 0 .. Size - 1 /\ l - 1 \in 0 .. Size - 1 /\ n < l - 1 /\ l - 1 < l
    BY <1>1, <2>1 DEF Gives
  <2>3. TimeAt(slot, l - 1) >= t /\ TimeAt(slot, l - 1) \in Nat
    BY <1>2, <2>1, <2>2 DEF Before
  <2>4. l - 1 < written
    <3> SUFFICES ASSUME ~(l - 1 < written) PROVE FALSE
      OBVIOUS
    <3>1. slot.hist[Back(slot, l - 1)] = NoData
      BY <1>1, <2>2 DEF Stacked
    <3> QED BY <1>8, <2>3, <3>1 DEF TimeAt, NoData
  <2>5. n < written /\ TimeAt(slot, n) > TimeAt(slot, l - 1) /\ TimeAt(slot, n) \in Nat
    BY <1>1, <1>2, <2>2, <2>4
  <2>6. r.ids = <<written - n>> /\ r.time = TimeAt(slot, n) /\ r.time \in Nat \ {0}
    BY <1>4, <2>1, <2>2, <2>5
  <2>7. r.time # t
    BY <2>3, <2>5, <2>6
  <2>8. ASSUME mode = "forward", at # 0, t = lastTime PROVE written - n = at + 1
    <3>1. /\ at \in 1 .. written
          /\ IF written - at < Size THEN TimeAt(slot, written - at) = t
             ELSE \A m \in 0 .. Size - 1 : TimeAt(slot, m) > t
      BY <1>1, <2>8 DEF OnTheWay
    <3>2. h \in 0 .. Size - 1 /\ TimeAt(slot, h) <= t
      BY <1>1, <2>1 DEF UpTo
    <3>3. written - at \in 0 .. Size - 1 /\ TimeAt(slot, written - at) = t
      BY <1>1, <1>2, <3>1, <3>2
    <3>4. written - at < l
      <4> SUFFICES ASSUME ~(written - at < l) PROVE FALSE
        OBVIOUS
      <4>1. TimeAt(slot, written - at) < t
        BY <2>1, <3>3 DEF Before
      <4> QED BY <3>3, <4>1
    <3>5. ~(written - at < l - 1)
      <4> SUFFICES ASSUME written - at < l - 1 PROVE FALSE
        OBVIOUS
      <4>1. TimeAt(slot, l - 1) < TimeAt(slot, written - at)
        BY <1>1, <1>2, <2>2, <3>1, <3>3
      <4> QED BY <2>3, <3>3, <4>1
    <3> QED BY <1>1, <3>1, <3>4, <3>5
  <2> HIDE DEF n
  <2> QED BY <2>2, <2>5, <2>6, <2>7, <2>8 DEF r
<1> QED BY <1>7, <1>8

(* A sequence is only told that there are no more data when there are none.*)
LEMMA NoMoreReply ==
  ASSUME PortInv, mode = "forward", at # 0, RingRead(slot, lastTime, 1).code = NoMore
  PROVE  at = written
<1> DEFINE t == lastTime
           r == RingRead(slot, t, 1)
<1>1. Size \in Nat \ {0} /\ written \in Nat /\ Stacked /\ OnTheWay
  BY SizeAssumption DEF PortInv
<1>2. /\ t \in Nat \ {0} /\ at \in 1 .. written
      /\ IF written - at < Size THEN TimeAt(slot, written - at) = t
         ELSE \A m \in 0 .. Size - 1 : TimeAt(slot, m) > t
  BY <1>1 DEF OnTheWay
<1>3. /\ Timed(slot) /\ InOrder(slot) /\ slot.num # 0
      /\ \A n \in 0 .. Size - 1 : TimeAt(slot, n) \in Nat
  BY <1>1, <1>2, StackedRing
<1>4. PICK h \in 0 .. Size, l \in 0 .. Size :
        /\ r = ReadFrom(slot, t, 1, h, l)
        /\ UpTo(slot, t, h)
        /\ IF TimeAt(slot, h) = t THEN Past(slot, t, h, l) ELSE l = h
  BY <1>2, <1>3, ReadPlaces
<1> HIDE DEF t
<1>5. TooOld # NoMore /\ Future # NoMore /\ {"TIMESTAMP_ERROR"} # NoMore /\ {} # NoMore
  <2>1. /\ "TIMESTAMP_TOO_OLD" \in TooOld /\ "TIMESTAMP_IN_FUTURE" \in Future
        /\ "TIMESTAMP_TOO_OLD" \notin NoMore /\ "TIMESTAMP_IN_FUTURE" \notin NoMore
        /\ "NO_DATA_AVAILABLE" \in NoMore /\ "NO_DATA_AVAILABLE" \notin {"TIMESTAMP_ERROR"}
    BY DEF TooOld, Future, NoMore
  <2> QED BY <2>1
<1>6. r.code = NoMore
  BY DEF t
<1>7. h < Size /\ l < Size /\ r = ReadAfter(slot, t, 1, l)
  BY <1>1, <1>2, <1>3, <1>4, <1>5, <1>6 DEF ReadFrom, Give, Reply
<1>8. l <= 1
  BY <1>5, <1>6, <1>7 DEF ReadAfter, Give, Reply
<1>9. Before(slot, t, l)
  BY <1>2, <1>3, <1>4, <1>7, PastIsBefore
<1>10. l \in 0 .. Size - 1 /\ TimeAt(slot, l) < t
  BY <1>1, <1>7, <1>9 DEF Before
<1>11. written - at \in 0 .. Size - 1 /\ TimeAt(slot, written - at) = t
  BY <1>1, <1>2, <1>3, <1>10
<1>12. written - at < l
  <2> SUFFICES ASSUME ~(written - at < l) PROVE FALSE
    OBVIOUS
  <2>1. TimeAt(slot, written - at) < t
    BY <1>9, <1>11 DEF Before
  <2> QED BY <1>2, <1>11, <2>1
<1> QED BY <1>1, <1>2, <1>8, <1>12

(* An answer of the slot, with the flag the slot's address may add. *)
LEMMA AnswerForm ==
  ASSUME NEW t \in Nat, NEW k \in Int, Timed(slot)
  PROVE  /\ SlotAnswer(t, k).time \in Nat
         /\ k = 1 => SlotAnswer(t, k) = RingRead(slot, t, k)
<1>1. PICK c, i, x : \E m \in Nat : RingRead(slot, t, k) = Reply(c, i, m, x) /\ (k = 1 => x # 0)
  BY ReplyForm
<1>2. PICK m \in Nat : RingRead(slot, t, k) = Reply(c, i, m, x) /\ (k = 1 => x # 0)
  BY <1>1
<1> QED BY <1>2 DEF SlotAnswer, Reply

(* A pull leaves the slot as it is and takes the sequence one step on. *)
LEMMA PullKeeps ==
  ASSUME PortInv, NEW t \in Nat, PullSlot(t)
  PROVE  /\ PortInv'
         /\ mode = "forward" /\ code' = {} /\ at # 0 => at' = at + 1
         /\ mode = "forward" /\ code' = NoMore /\ at # 0 => at = written
<1> DEFINE r == Answer(t)
           res == Result(r)
<1>1. /\ written \in Nat /\ Stacked /\ OnTheWay /\ Timed(slot)
      /\ DOMAIN slot.hist = Cell
      /\ lastTime \in Nat /\ nextData \in Int /\ result.time \in Nat
  BY StackedRing DEF PortInv, OnTheWay
<1>2. /\ slot' = slot /\ written' = written /\ mode' = mode
      /\ result' = res /\ code' = r.code
      /\ \/ ~Sequenced /\ UNCHANGED <<lastTime, nextData, at>>
         \/ Sequenced /\ r.code = {} /\ Advance(res) /\ at' = res.ids[1]
         \/ Sequenced /\ "TIMESTAMP_TOO_OLD" \in r.code /\ Restart(res) /\ at' = 0
         \/ /\ Sequenced /\ r.code # {} /\ "TIMESTAMP_TOO_OLD" \notin r.code
            /\ UNCHANGED <<lastTime, nextData, at>>
  BY DEF PullSlot, vars
<1>3. r.time \in Nat
  BY <1>1, AnswerForm DEF Answer
<1>4. res.time \in Nat
  BY <1>1, <1>3 DEF Result
<1>5. ASSUME mode = "forward"
      PROVE  r = RingRead(slot, lastTime, 1) /\ nextData = 1
  <2>1. nextData = 1 /\ Sequenced /\ mode # "exact"
    BY <1>1, <1>5 DEF OnTheWay, Sequenced
  <2>2. r = SlotAnswer(lastTime, 1)
    BY <2>1 DEF Answer
  <2> QED BY <1>1, <2>1, <2>2, AnswerForm
<1>6. Stacked'
  BY <1>1, <1>2 DEF Stacked, TimeAt
<1>7. ASSUME mode = "forward", r.code = {}
      PROVE  \E n \in 0 .. Size - 1 :
               /\ n < written /\ res.ids = <<written - n>>
               /\ res.time = TimeAt(slot, n) /\ res.time \in Nat \ {0} /\ res.time # lastTime
               /\ at # 0 => written - n = at + 1
  <2>1. r = RingRead(slot, lastTime, 1)
    BY <1>5, <1>7
  <2>2. PICK n \in 0 .. Size - 1 :
          /\ n < written /\ r.ids = <<written - n>>
          /\ r.time = TimeAt(slot, n) /\ r.time \in Nat \ {0} /\ r.time # lastTime
          /\ mode = "forward" /\ at # 0 /\ lastTime = lastTime => written - n = at + 1
    BY <1>1, <1>7, <2>1, ForwardReply
  <2>3. res.ids = r.ids /\ res.time = r.time
    BY <2>2 DEF Result
  <2> QED BY <1>7, <2>2, <2>3
<1> HIDE DEF r, res
<1>8. ASSUME mode = "forward", code' = {}
      PROVE  /\ at' \in 1 .. written /\ lastTime' \in Nat \ {0} /\ nextData' = 1
             /\ written - at' < Size /\ TimeAt(slot, written - at') = lastTime'
             /\ at # 0 => at' = at + 1
  <2>1. r.code = {} /\ Sequenced
    BY <1>2, <1>8 DEF Sequenced
  <2>2. Advance(res) /\ at' = res.ids[1]
    BY <1>2, <2>1
  <2>3. PICK n \in 0 .. Size - 1 :
          /\ n < written /\ res.ids = <<written - n>>
          /\ res.time = TimeAt(slot, n) /\ res.time \in Nat \ {0} /\ res.time # lastTime
          /\ at # 0 => written - n = at + 1
    BY <1>7, <1>8, <2>1
  <2>4. at' = written - n /\ lastTime' = res.time /\ nextData' = 1
    BY <2>2, <2>3 DEF Advance
  <2>5. Size \in Nat /\ written - (written - n) = n
    BY <1>1, SizeAssumption
  <2> QED BY <1>1, <2>3, <2>4, <2>5
<1>9. ASSUME mode = "forward", code' # {}
      PROVE  /\ nextData' = 1
             /\ at' # 0 => at' = at /\ lastTime' = lastTime
  BY <1>2, <1>5, <1>9 DEF Sequenced, Restart
<1>10. lastTime' \in Nat /\ nextData' \in Int
  BY <1>1, <1>2, <1>4 DEF Advance, Restart
<1>11. OnTheWay'
  <2>1. mode' = "forward" => nextData' = 1
    BY <1>2, <1>8, <1>9
  <2>2. ASSUME mode' = "forward", at' # 0
        PROVE  /\ at' \in 1 .. written' /\ lastTime' > 0
               /\ IF written' - at' < Size THEN TimeAt(slot', written' - at') = lastTime'
                  ELSE \A n \in 0 .. Size - 1 : TimeAt(slot', n) > lastTime'
    <3>1. CASE code' = {}
      BY <1>2, <1>8, <2>2, <3>1
    <3>2. CASE code' # {}
      <4>1. at' = at /\ lastTime' = lastTime /\ at # 0 /\ mode = "forward"
        BY <1>2, <1>9, <2>2, <3>2
      <4>2. /\ at \in 1 .. written /\ lastTime > 0
            /\ IF written - at < Size THEN TimeAt(slot, written - at) = lastTime
               ELSE \A n \in 0 .. Size - 1 : TimeAt(slot, n) > lastTime
        BY <1>1, <4>1 DEF OnTheWay
      <4> QED BY <1>2, <4>1, <4>2
    <3> QED BY <3>1, <3>2
  <2> QED BY <1>2, <1>4, <1>10, <2>1, <2>2 DEF OnTheWay
<1>12. PortInv'
  BY <1>1, <1>2, <1>6, <1>11 DEF PortInv
<1>13. ASSUME mode = "forward", code' = NoMore, at # 0 PROVE at = written
  <2>1. RingRead(slot, lastTime, 1).code = NoMore
    BY <1>2, <1>5, <1>13
  <2> QED BY <1>13, <2>1, NoMoreReply
<1> QED BY <1>8, <1>12, <1>13

(* Every step of the port and its device keeps the invariant. *)
LEMMA NextPort ==
  ASSUME 0 \notin Gaps, PortInv, [PortNext]_pullPortVars
  PROVE  PortInv'
<1>1. /\ written \in Nat /\ Stacked /\ OnTheWay /\ LastWritten \in Nat
      /\ DOMAIN slot.hist = Cell
      /\ lastTime \in Nat /\ nextData \in Int /\ result.time \in Nat
  <2>1. Timed(slot)
    BY StackedRing DEF PortInv
  <2> QED BY <2>1 DEF PortInv, OnTheWay, Timed, LastWritten
<1>2. ASSUME UNCHANGED vars PROVE written' = written /\ slot' = slot /\ Stacked'
  BY <1>1, <1>2 DEF vars, Stacked, TimeAt
<1>3. ASSUME UNCHANGED <<slot, written, mode, lastTime, nextData, result, at>> PROVE PortInv'
  BY <1>1, <1>3 DEF PortInv, Stacked, OnTheWay, TimeAt
<1>4. ASSUME UNCHANGED vars, lastTime' \in Nat, nextData' \in Int, result' = result, at' = 0,
             mode' = "forward" => nextData' = 1
      PROVE  PortInv'
  <2>1. OnTheWay'
    BY <1>1, <1>4 DEF OnTheWay
  <2> QED BY <1>1, <1>2, <1>4, <2>1 DEF PortInv
<1>5. ASSUME NEW gap \in Gaps, DeviceWrites(gap) PROVE PortInv'
  BY <1>5, DeviceKeeps
<1>6. CASE DeleteSlot \/ Connect \/ Disconnect
  BY <1>3, <1>6 DEF DeleteSlot, Connect, Disconnect, vars, portVars, pullVars
<1>7. CASE SetExact
  BY <1>1, <1>4, <1>7 DEF SetExact
<1>8. CASE SetLatest
  BY <1>1, <1>4, <1>8 DEF SetLatest
<1>9. ASSUME NEW t \in {0, LastWritten}, NEW way \in Ways, SetSequenced(t, way) PROVE PortInv'
  BY <1>1, <1>4, <1>9 DEF SetSequenced
<1>10. ASSUME NEW t \in 0 .. LastWritten, PullData(t) PROVE PortInv'
  <2>1. CASE PullNothing \/ PullDead \/ PullRefused
    BY <1>3, <2>1 DEF PullNothing, PullDead, PullRefused, vars, portVars
  <2>2. CASE PullSlot(t)
    <3>1. t \in Nat
      BY <1>1
    <3> QED BY <2>2, <3>1, PullKeeps
  <2> QED BY <1>10, <2>1, <2>2 DEF PullData
<1>11. CASE UNCHANGED pullPortVars
  BY <1>3, <1>11 DEF pullPortVars, vars, portVars, pullVars
<1> QED BY <1>5, <1>6, <1>7, <1>8, <1>9, <1>10, <1>11 DEF PortNext

(* What a pull is promised, from the invariant. *)
LEMMA PullsGoOn ==
  ASSUME PortInv, Pulled, mode = "forward", at # 0
  PROVE  /\ code' = {} => at' = at + 1
         /\ code' = NoMore => at = written
<1>1. PICK t \in 0 .. LastWritten : PullSlot(t)
  BY DEF Pulled
<1>2. t \in Nat
  <2>1. LastWritten \in Nat
    BY StackedRing DEF PortInv, Timed, LastWritten
  <2> QED BY <2>1
<1> QED BY <1>1, <1>2, PullKeeps

(* The invariant of the port holds throughout. *)
LEMMA PortInvariance == ASSUME 0 \notin Gaps PROVE PortSpec => []PortInv
<1>1. PortInv /\ [PortNext]_pullPortVars => PortInv'
  BY NextPort
<1> QED BY <1>1, InitPort, PTL DEF PortSpec

(* A port set to pull in sequence, from a device whose data have different *)
(* times, gets each datum right after the one before, in whatever order    *)
(* writes and pulls come and however far the ring has turned.              *)
THEOREM PullsInOrder == ASSUME 0 \notin Gaps PROVE PortSpec => NextInOrder
<1>1. PortInv => (Pulled /\ mode = "forward" /\ code' = {} /\ at # 0 => at' = at + 1)
  BY PullsGoOn
<1> QED BY <1>1, PortInvariance, PTL DEF PortSpec, NextInOrder

(* And it is told that there are no more data only when it has had the     *)
(* newest.                                                                 *)
THEOREM PullsCatchUp == ASSUME 0 \notin Gaps PROVE PortSpec => NoMoreMeansCaughtUp
<1>1. PortInv => (Pulled /\ mode = "forward" /\ code' = NoMore /\ at # 0 => at = written)
  BY PullsGoOn
<1> QED BY <1>1, PortInvariance, PTL DEF PortSpec, NoMoreMeansCaughtUp
-----------------------------------------------------------------------------
(* The refinement: seen as the data it keeps, oldest first, the slot is the *)
(* window of SlotWindow.  Counted in steps back from Last, every write that *)
(* is kept puts its datum m steps back and moves what is older by one.     *)

(* s has become r: p came in m steps back, behind the data that are newer. *)
Sorted(s, p, r, m) ==
  /\ r \in Slot /\ r.num = Bump(s.num)
  /\ m \in 0 .. s.num /\ m < Size
  /\ \A n \in 0 .. Size - 1 : n < m <=> TimeAt(s, n) > p.time
  /\ \A n \in 0 .. Size - 1 :
       r.hist[Back(r, n)] = IF n < m THEN s.hist[Back(s, n)]
                            ELSE IF n = m THEN p ELSE s.hist[Back(s, n - 1)]

(* The cells the slot has not got round to hold nothing. *)
Unwritten(s) == \A n \in 0 .. Size - 1 : n >= s.num => s.hist[Back(s, n)] = NoData

(* Moving Last on takes every cell one step further from it; the cell that *)
(* was Size - 1 steps back is the new Last.                                *)
LEMMA LastMoves ==
  ASSUME NEW s, NEW r, s.last \in Cell, r.last = Nxt(s.last)
  PROVE  /\ Back(s, Size - 1) = r.last /\ Back(r, 0) = r.last
         /\ \A n \in 1 .. Size - 1 : Back(r, n) = Back(s, n - 1)
         /\ \A n \in 1 .. Size - 1 : Prv(Back(r, n)) = Back(s, n)
         /\ Prv(Back(r, 0)) = Back(s, 0)
<1>1. Size \in Nat \ {0} /\ s.last \in 0 .. Size - 1 /\ r.last \in Cell
  BY SizeAssumption, Wrap DEF Cell
<1>2. Back(r, 0) = r.last /\ Back(s, 0) = s.last
  BY <1>1, BackGoes
<1>3. Back(s, Size - 1) = r.last
  <2>1. Size - 1 \in 0 .. Size - 1
    BY <1>1
  <2>2. Back(s, Size - 1) = IF Size - 1 <= s.last THEN s.last - (Size - 1) ELSE s.last + Size - (Size - 1)
    BY <1>1, <2>1, BackIs
  <2> QED BY <1>1, <2>2 DEF Nxt
<1>4. \A n \in 1 .. Size - 1 : Back(r, n) = Back(s, n - 1)
  <2> SUFFICES ASSUME NEW n \in 1 .. Size - 1 PROVE Back(r, n) = Back(s, n - 1)
    OBVIOUS
  <2>1. n \in 0 .. Size - 1 /\ n - 1 \in 0 .. Size - 1
    BY <1>1
  <2>2. Back(r, n) = IF n <= r.last THEN r.last - n ELSE r.last + Size - n
    BY <1>1, <2>1, BackIs
  <2>3. Back(s, n - 1) = IF n - 1 <= s.last THEN s.last - (n - 1) ELSE s.last + Size - (n - 1)
    BY <1>1, <2>1, BackIs
  <2> QED BY <1>1, <2>1, <2>2, <2>3 DEF Nxt
<1>5. \A n \in 1 .. Size - 1 : Prv(Back(r, n)) = Back(s, n)
  <2> SUFFICES ASSUME NEW n \in 1 .. Size - 1 PROVE Prv(Back(r, n)) = Back(s, n)
    OBVIOUS
  <2>1. n \in 0 .. Size - 1
    BY <1>1
  <2>2. Back(s, n) \in Cell /\ Nxt(Back(s, n)) = Back(s, n - 1)
    BY <1>1, <2>1, BackGoes
  <2> QED BY <1>4, <2>2, Wrap
<1>6. Prv(Back(r, 0)) = Back(s, 0)
  BY <1>1, <1>2, Wrap
<1> QED BY <1>2, <1>3, <1>4, <1>5, <1>6

(* A slot has data with times. *)
LEMMA SlotTimed ==
  ASSUME NEW s \in Slot
  PROVE  Timed(s) /\ s.last \in Cell /\ s.num \in 0 .. Size
<1>1. s.last \in Cell /\ s.num \in 0 .. Size /\ s.hist \in [Cell -> Datum]
  BY DEF Slot
<1> QED BY <1>1, DatumTime DEF Timed

(* A late datum is moved under the data that are newer. *)
LEMMA LateSteps ==
  ASSUME NEW s \in Slot, NEW p \in Data, InOrder(s), Late(s, p), Fits(s, p), Unwritten(s)
  PROVE  \E m \in 0 .. Size - 1 : Sorted(s, p, PutLate(s, p), m)
<1> DEFINE r == PutLate(s, p)
<1>1. Size \in Nat \ {0} /\ s.last \in Cell /\ Timed(s) /\ p.time \in Nat \ {0} /\ s.num \in 0 .. Size
      /\ s.hist \in [Cell -> Datum]
  BY SizeAssumption, SlotTimed, BoundAssumption DEF Data, Slot
<1>2. r \in Slot /\ r.num = Bump(s.num) /\ r.last = Nxt(s.last)
  BY LateType DEF PutLate
<1>3. /\ \A n \in 0 .. Size - 1 : TimeAt(s, n) \in Nat
      /\ \A m, n \in 0 .. Size - 1 : m <= n => TimeAt(s, n) <= TimeAt(s, m)
  BY <1>1, TimesFall
<1>4. Size - 1 \in 0 .. Size - 1 /\ TimeAt(s, Size - 1) <= p.time
  <2>1. Back(s, Size - 1) = Nxt(s.last)
    BY <1>1, <1>2, LastMoves
  <2>2. Size - 1 \in 0 .. Size - 1
    BY <1>1
  <2>3. p.time > TimeAt(s, Size - 1)
    BY <2>1 DEF Fits, TimeAt
  <2> QED BY <1>1, <1>3, <2>2, <2>3
<1>5. PICK m \in {n \in 0 .. Size - 1 : TimeAt(s, n) <= p.time} :
             \A n \in {n \in 0 .. Size - 1 : TimeAt(s, n) <= p.time} : m <= n
  <2>1. {n \in 0 .. Size - 1 : TimeAt(s, n) <= p.time} \in SUBSET Nat
    BY <1>1
  <2> QED BY <1>4, <2>1, LeastIn
<1>6. \A n \in 0 .. Size - 1 : n < m <=> TimeAt(s, n) > p.time
  BY <1>1, <1>3, <1>5
<1>7. m \in 0 .. s.num
  <2> SUFFICES ASSUME m > s.num PROVE FALSE
    BY <1>1, <1>5
  <2>1. s.num \in 0 .. Size - 1 /\ s.num < m
    BY <1>1, <1>5
  <2>2. s.hist[Back(s, s.num)] = NoData
    BY <1>1, <2>1 DEF Unwritten
  <2>3. TimeAt(s, s.num) = 0
    BY <2>2 DEF TimeAt, NoData
  <2> QED BY <1>1, <1>6, <2>1, <2>3
<1>8. \A i \in Cell : r.hist[i] = IF s.hist[Prv(i)].time > p.time /\ Prv(i) \in Cell THEN s.hist[Prv(i)]
                                  ELSE IF s.hist[i].time > p.time THEN p ELSE s.hist[i]
  BY DEF PutLate
<1>9. \A n \in 0 .. Size - 1 : Back(s, n) \in Cell /\ Back(r, n) \in Cell
  BY <1>1, <1>2, Wrap, BackGoes
<1> HIDE DEF r
<1>10. ASSUME NEW n \in 0 .. Size - 1
       PROVE  r.hist[Back(r, n)] = IF n < m THEN s.hist[Back(s, n)]
                                   ELSE IF n = m THEN p ELSE s.hist[Back(s, n - 1)]
  <2>1. Prv(Back(r, n)) = Back(s, n)
    <3>1. n = 0 \/ n \in 1 .. Size - 1
      BY <1>1
    <3> QED BY <1>1, <1>2, <3>1, LastMoves
  <2>2. s.hist[Prv(Back(r, n))].time = TimeAt(s, n)
    BY <2>1 DEF TimeAt
  <2>3. CASE n < m
    BY <1>6, <1>8, <1>9, <2>1, <2>2, <2>3
  <2>4. CASE ~(n < m)
    <3>1. 0 < m
      <4>1. 0 \in 0 .. Size - 1 /\ TimeAt(s, 0) > p.time
        BY <1>1, BackGoes DEF Late, TimeAt
      <4> QED BY <1>6, <4>1
    <3>2. n \in 1 .. Size - 1 /\ n - 1 \in 0 .. Size - 1
      BY <1>1, <1>5, <2>4, <3>1
    <3>3. Back(r, n) = Back(s, n - 1)
      BY <1>1, <1>2, <3>2, LastMoves
    <3>4. r.hist[Back(r, n)] = IF TimeAt(s, n - 1) > p.time THEN p ELSE s.hist[Back(s, n - 1)]
      <4>1. ~(TimeAt(s, n) > p.time)
        BY <1>6, <2>4
      <4> QED BY <1>8, <1>9, <2>2, <3>3, <4>1 DEF TimeAt
    <3>5. TimeAt(s, n - 1) > p.time <=> n - 1 < m
      BY <1>6, <3>2
    <3>6. n - 1 < m <=> n = m
      BY <1>5, <2>4
    <3> QED BY <2>4, <3>4, <3>5, <3>6
  <2> QED BY <2>3, <2>4
<1>11. m \in 0 .. Size - 1 /\ m < Size
  BY <1>1, <1>5
<1>12. Sorted(s, p, r, m)
  BY <1>2, <1>6, <1>7, <1>10, <1>11 DEF Sorted
<1> QED BY <1>11, <1>12 DEF r

(* A datum that is not late comes on top. *)
LEMMA TopSteps ==
  ASSUME NEW s \in Slot, NEW p \in Data, Top(s), ~Late(s, p)
  PROVE  Sorted(s, p, PutNewest(s, p), 0)
<1> DEFINE r == PutNewest(s, p)
<1>1. Size \in Nat \ {0} /\ s.last \in Cell /\ Timed(s) /\ p.time \in Nat \ {0} /\ s.num \in 0 .. Size
  <2>1. p.time \in Nat \ {0}
    BY BoundAssumption DEF Data
  <2> QED BY <2>1, SizeAssumption, SlotTimed
<1>2. r \in Slot
  BY NewestType
<1>3. /\ r.num = Bump(s.num) /\ r.hist[Back(r, 0)] = p
      /\ \A n \in 1 .. Size - 1 : r.hist[Back(r, n)] = s.hist[Back(s, n - 1)]
  <2>1. s.last \in Cell /\ DOMAIN s.hist = Cell
    BY DEF Slot
  <2> QED BY <2>1, NewestSteps
<1>4. \A n \in 0 .. Size - 1 : ~(TimeAt(s, n) > p.time)
  <2> SUFFICES ASSUME NEW n \in 0 .. Size - 1 PROVE ~(TimeAt(s, n) > p.time)
    OBVIOUS
  <2>1. Back(s, n) \in Cell
    BY <1>1, BackGoes
  <2>2. s.hist[Back(s, n)].time <= s.hist[s.last].time
    BY <2>1 DEF Top, Latest
  <2>3. s.hist[Back(s, n)].time \in Nat /\ s.hist[s.last].time \in Nat
    BY <1>1, <2>1 DEF Timed
  <2> QED BY <1>1, <2>2, <2>3 DEF Late, TimeAt
<1> HIDE DEF r
<1>5. \A n \in 0 .. Size - 1 :
        r.hist[Back(r, n)] = IF n < 0 THEN s.hist[Back(s, n)]
                             ELSE IF n = 0 THEN p ELSE s.hist[Back(s, n - 1)]
  BY <1>1, <1>3
<1>6. \A n \in 0 .. Size - 1 : n < 0 <=> TimeAt(s, n) > p.time
  BY <1>1, <1>4
<1>7. 0 \in 0 .. s.num /\ 0 < Size
  BY <1>1
<1>8. Sorted(s, p, r, 0)
  BY <1>2, <1>3, <1>5, <1>6, <1>7 DEF Sorted
<1> QED BY <1>8 DEF r

(* The data a slot keeps, oldest first. *)
KeptOf(s) == [n \in 1 .. s.num |-> s.hist[Back(s, s.num - n)]]

(* w with p behind its first k data, and without the oldest if too many. *)
InsertedIn(w, k, p) ==
  [n \in 1 .. Len(w) + 1 |-> IF n <= k THEN w[n] ELSE IF n = k + 1 THEN p ELSE w[n - 1]]

(* They are a sequence of data. *)
LEMMA KeptType ==
  ASSUME NEW s \in Slot
  PROVE  KeptOf(s) \in Seq(Datum) /\ Len(KeptOf(s)) = s.num /\ s.num \in Nat
<1>1. Size \in Nat \ {0} /\ s.last \in Cell /\ s.num \in 0 .. Size /\ s.hist \in [Cell -> Datum]
  BY SizeAssumption DEF Slot
<1>2. \A n \in 1 .. s.num : s.num - n \in 0 .. Size - 1
  BY <1>1
<1>3. \A n \in 1 .. s.num : Back(s, s.num - n) \in Cell
  BY <1>1, <1>2, BackGoes
<1>4. KeptOf(s) \in [1 .. s.num -> Datum]
  BY <1>1, <1>3 DEF KeptOf
<1> QED BY <1>1, <1>4, LenProperties

(* So the data kept are those kept before with p among them. *)
LEMMA KeptSorted ==
  ASSUME NEW s \in Slot, NEW p \in Data, NEW r, NEW m, Sorted(s, p, r, m)
  PROVE  LET w == KeptOf(s)
         IN  \E k \in 0 .. Len(w) :
               /\ \A n \in 1 .. Len(w) : n <= k <=> w[n].time <= p.time
               /\ KeptOf(r) = Window!Newest(InsertedIn(w, k, p))
<1> DEFINE w == KeptOf(s)
           k == s.num - m
           v == InsertedIn(w, k, p)
<1>1. /\ Size \in Nat \ {0} /\ s.num \in 0 .. Size /\ r \in Slot /\ r.num = Bump(s.num)
      /\ m \in 0 .. s.num /\ m < Size /\ m \in Int
  BY SizeAssumption DEF Sorted, Slot
<1>2. /\ \A n \in 0 .. Size - 1 : n < m <=> TimeAt(s, n) > p.time
      /\ \A n \in 0 .. Size - 1 :
           r.hist[Back(r, n)] = IF n < m THEN s.hist[Back(s, n)]
                                ELSE IF n = m THEN p ELSE s.hist[Back(s, n - 1)]
  BY DEF Sorted
<1>3. w \in Seq(Datum) /\ Len(w) = s.num /\ \A n \in 1 .. s.num : w[n] = s.hist[Back(s, s.num - n)]
  BY KeptType DEF KeptOf
<1> HIDE DEF w
<1>4. k \in 0 .. Len(w)
  BY <1>1, <1>3
<1>5. \A n \in 1 .. Len(w) : n <= k <=> w[n].time <= p.time
  <2> SUFFICES ASSUME NEW n \in 1 .. s.num PROVE n <= k <=> w[n].time <= p.time
    BY <1>3
  <2>1. s.num - n \in 0 .. Size - 1
    BY <1>1
  <2>2. w[n].time = TimeAt(s, s.num - n)
    BY <1>3 DEF TimeAt
  <2>3. TimeAt(s, s.num - n) \in Nat
    <3>1. Back(s, s.num - n) \in Cell
      BY <2>1, SlotTimed, BackGoes
    <3> QED BY <3>1, SlotTimed DEF Timed, TimeAt
  <2>4. p.time \in Nat
    BY BoundAssumption DEF Data
  <2>5. s.num - n < m <=> TimeAt(s, s.num - n) > p.time
    BY <1>2, <2>1
  <2>6. s.num - n < m <=> ~(n <= k)
    BY <1>1
  <2> QED BY <2>2, <2>3, <2>4, <2>5, <2>6
<1>6. /\ v = [n \in 1 .. s.num + 1 |-> IF n <= k THEN w[n] ELSE IF n = k + 1 THEN p ELSE w[n - 1]]
      /\ v \in Seq(Datum) /\ Len(v) = s.num + 1
  <2>1. v = [n \in 1 .. s.num + 1 |-> IF n <= k THEN w[n] ELSE IF n = k + 1 THEN p ELSE w[n - 1]]
    BY <1>3 DEF InsertedIn
  <2>2. \A n \in 1 .. s.num : w[n] \in Datum
    BY <1>3, ElementOfSeq
  <2>3. p \in Datum
    BY DEF Datum
  <2>4. \A n \in 1 .. s.num + 1 : /\ n <= k => n \in 1 .. s.num
                                  /\ ~(n <= k) /\ n # k + 1 => n - 1 \in 1 .. s.num
    BY <1>1, <1>3, <1>4
  <2>5. v \in [1 .. s.num + 1 -> Datum]
    BY <2>1, <2>2, <2>3, <2>4
  <2>6. s.num + 1 \in Nat
    BY <1>1
  <2> QED BY <2>1, <2>5, <2>6, LenProperties
<1> HIDE DEF v
(* What is n steps back afterwards is in v, counted from its end. *)
<1>7. ASSUME NEW n \in 0 .. Size - 1, n <= s.num PROVE r.hist[Back(r, n)] = v[s.num + 1 - n]
  <2>1. s.num + 1 - n \in 1 .. s.num + 1
    BY <1>1, <1>7
  <2>2. v[s.num + 1 - n] = IF s.num + 1 - n <= k THEN w[s.num + 1 - n]
                           ELSE IF s.num + 1 - n = k + 1 THEN p ELSE w[s.num - n]
    <3>1. s.num + 1 - n - 1 = s.num - n
      BY <1>1
    <3>2. \A j \in 1 .. s.num + 1 : v[j] = IF j <= k THEN w[j] ELSE IF j = k + 1 THEN p ELSE w[j - 1]
      BY <1>6
    <3> DEFINE j == s.num + 1 - n
    <3>3. j \in 1 .. s.num + 1
      BY <2>1
    <3> HIDE DEF j, k
    <3>4. v[j] = IF j <= k THEN w[j] ELSE IF j = k + 1 THEN p ELSE w[j - 1]
      BY <3>2, <3>3
    <3>5. j = s.num + 1 - n /\ j - 1 = s.num - n
      BY <1>1, <3>1 DEF j
    <3> QED BY <3>4, <3>5
  <2>3. CASE n < m
    <3>1. s.num - n \in 1 .. s.num /\ s.num - (s.num - n) = n
      BY <1>1, <2>3
    <3>2. w[s.num - n] = s.hist[Back(s, n)]
      BY <1>3, <3>1
    <3>3. ~(s.num + 1 - n <= k) /\ s.num + 1 - n # k + 1
      BY <1>1, <2>3
    <3> QED BY <1>2, <2>2, <2>3, <3>2, <3>3
  <2>4. CASE n = m
    <3>1. ~(s.num + 1 - n <= k) /\ s.num + 1 - n = k + 1 /\ ~(n < m)
      BY <1>1, <2>4
    <3> QED BY <1>2, <2>2, <2>4, <3>1
  <2>5. CASE n > m
    <3>1. s.num + 1 - n \in 1 .. s.num /\ s.num - (s.num + 1 - n) = n - 1 /\ s.num + 1 - n <= k
          /\ ~(n < m) /\ n # m
      BY <1>1, <1>7, <2>5
    <3>2. w[s.num + 1 - n] = s.hist[Back(s, n - 1)]
      BY <1>3, <3>1
    <3> QED BY <1>2, <2>2, <3>1, <3>2
  <2> QED BY <1>1, <2>3, <2>4, <2>5
<1>8. KeptOf(r) = Window!Newest(v)
  <2>1. CASE s.num < Size
    <3>1. r.num = s.num + 1 /\ ~(Len(v) > Size)
      BY <1>1, <1>6, <2>1 DEF Bump
    <3>2. \A n \in 1 .. s.num + 1 : r.hist[Back(r, (s.num + 1) - n)] = v[n]
      <4> SUFFICES ASSUME NEW n \in 1 .. s.num + 1 PROVE r.hist[Back(r, (s.num + 1) - n)] = v[n]
        OBVIOUS
      <4>1. (s.num + 1) - n \in 0 .. Size - 1 /\ (s.num + 1) - n <= s.num /\ s.num + 1 - ((s.num + 1) - n) = n
        BY <1>1, <2>1
      <4> QED BY <1>7, <4>1
    <3>3. KeptOf(r) = [n \in 1 .. s.num + 1 |-> v[n]]
      BY <3>1, <3>2 DEF KeptOf
    <3>4. v = [n \in 1 .. s.num + 1 |-> v[n]]
      BY <1>6
    <3> QED BY <3>1, <3>3, <3>4 DEF Window!Newest
  <2>2. CASE s.num = Size
    <3>1. r.num = Size /\ Len(v) > Size /\ Len(v) = Size + 1
      BY <1>1, <1>6, <2>2 DEF Bump
    <3>2. \A n \in 1 .. Size : r.hist[Back(r, Size - n)] = v[n + 1]
      <4> SUFFICES ASSUME NEW n \in 1 .. Size PROVE r.hist[Back(r, Size - n)] = v[n + 1]
        OBVIOUS
      <4>1. Size - n \in 0 .. Size - 1 /\ Size - n <= s.num /\ s.num + 1 - (Size - n) = n + 1
        BY <1>1, <2>2
      <4> QED BY <1>7, <4>1
    <3>3. KeptOf(r) = [n \in 1 .. Size |-> v[n + 1]]
      BY <3>1, <3>2 DEF KeptOf
    <3>4. Tail(v) = [n \in 1 .. Size |-> v[n + 1]]
      <4>1. Len(v) - 1 = Size /\ Len(<<>>) = 0
        BY <1>1, <3>1
      <4>2. v # <<>>
        BY <1>1, <3>1, <4>1
      <4>3. /\ Tail(v) \in Seq(Datum) /\ Len(Tail(v)) = Size
            /\ \A n \in 1 .. Size : Tail(v)[n] = v[n + 1]
        <5>1. /\ Tail(v) \in Seq(Datum) /\ Len(Tail(v)) = Len(v) - 1
              /\ \A n \in 1 .. Len(Tail(v)) : Tail(v)[n] = v[n + 1]
          BY <1>6, <4>2, HeadTailProperties
        <5> QED BY <4>1, <5>1
      <4>4. Tail(v) = [n \in 1 .. Size |-> Tail(v)[n]]
        BY <4>3, LenProperties
      <4> QED BY <4>3, <4>4
    <3> QED BY <3>1, <3>3, <3>4 DEF Window!Newest
  <2> QED BY <1>1, <2>1, <2>2
<1> QED BY <1>4, <1>5, <1>8 DEF w, v

(* The cells that nobody wrote are the furthest back. *)
LEMMA StaysUnwritten ==
  ASSUME NEW s \in Slot, Unwritten(s), NEW p, NEW r, NEW m, Sorted(s, p, r, m)
  PROVE  Unwritten(r)
<1>1. Size \in Nat \ {0} /\ s.num \in 0 .. Size /\ m \in 0 .. s.num /\ r.num = Bump(s.num)
  BY SizeAssumption DEF Sorted, Slot
<1>2. ASSUME NEW n \in 0 .. Size - 1, n >= r.num PROVE r.hist[Back(r, n)] = NoData
  <2>1. n >= s.num + 1 /\ ~(n < m) /\ n # m /\ n - 1 \in 0 .. Size - 1 /\ n - 1 >= s.num
    BY <1>1, <1>2 DEF Bump
  <2>2. r.hist[Back(r, n)] = s.hist[Back(s, n - 1)]
    BY <2>1 DEF Sorted
  <2> QED BY <2>1, <2>2 DEF Unwritten
<1> QED BY <1>2 DEF Unwritten

WindowInv == IInv /\ Unwritten(slot)

(* The empty slot is the empty window. *)
LEMMA InitWindow == Init => WindowInv /\ Window!Init
<1> SUFFICES ASSUME Init PROVE WindowInv /\ Window!Init
  OBVIOUS
<1>1. slot = EmptySlot /\ written = 0 /\ Size \in Nat \ {0} /\ slot.last \in Cell
  BY SizeAssumption DEF Init, EmptySlot, Cell
<1>2. \A n \in 0 .. Size - 1 : Back(slot, n) \in Cell
  BY <1>1, BackGoes
<1>3. Unwritten(slot)
  BY <1>1, <1>2 DEF Unwritten, EmptySlot
<1>4. Kept = <<>>
  BY <1>1 DEF Kept, EmptySlot
<1> QED BY <1>1, <1>3, <1>4, InitIInv DEF WindowInv, Window!Init

(* Where the data stand that the window keeps. *)
LEMMA KeptAt ==
  ASSUME NEW s \in Slot
  PROVE  \A n \in 0 .. s.num - 1 : /\ s.num - n \in 1 .. Len(KeptOf(s))
                                    /\ KeptOf(s)[s.num - n].time = TimeAt(s, n)
<1> SUFFICES ASSUME NEW n \in 0 .. s.num - 1
             PROVE  s.num - n \in 1 .. Len(KeptOf(s)) /\ KeptOf(s)[s.num - n].time = TimeAt(s, n)
  OBVIOUS
<1>1. Len(KeptOf(s)) = s.num /\ s.num \in Nat
  BY KeptType
<1>2. s.num - n \in 1 .. s.num /\ s.num - (s.num - n) = n
  BY <1>1
<1>3. KeptOf(s)[s.num - n] = s.hist[Back(s, n)]
  BY <1>2 DEF KeptOf
<1> QED BY <1>1, <1>2, <1>3 DEF TimeAt

(* A late datum is compared with the two cells furthest back. *)
LEMMA FitsAt ==
  ASSUME NEW s \in Slot, NEW p
  PROVE  Fits(s, p) <=> Size >= 3 /\ p.time > TimeAt(s, Size - 1) /\ p.time > TimeAt(s, Size - 2)
<1>1. Size \in Nat \ {0} /\ s.last \in Cell
  BY SizeAssumption DEF Slot
<1>2. CASE Size >= 3
  <2>1. Back(s, Size - 1) = Nxt(s.last)
    <3>1. PutNewest(s, p).last = Nxt(s.last)
      BY DEF PutNewest
    <3> QED BY <1>1, <3>1, LastMoves
  <2>2. Size - 1 \in 1 .. Size - 1 /\ (Size - 1) - 1 = Size - 2
    BY <1>1, <1>2
  <2>3. Nxt(Back(s, Size - 1)) = Back(s, Size - 2)
    BY <1>1, <2>2, BackGoes
  <2> QED BY <1>2, <2>1, <2>3 DEF Fits, TimeAt
<1>3. CASE ~(Size >= 3)
  BY <1>3 DEF Fits
<1> QED BY <1>2, <1>3

(* What is late for the slot is late for the window. *)
LEMMA LateIsLate ==
  ASSUME WindowInv, NEW p \in Data
  PROVE  Late(slot, p) <=> Window!Late(p)
<1>1. /\ slot \in Slot /\ InOrder(slot) /\ Unwritten(slot) /\ Size \in Nat \ {0} /\ p.time \in Nat \ {0}
      /\ slot.last \in Cell /\ Timed(slot) /\ slot.num \in 0 .. Size
  <2>1. p.time \in Nat \ {0} /\ slot \in Slot
    BY BoundAssumption DEF Data, WindowInv, IInv
  <2> QED BY <2>1, SizeAssumption, SlotTimed DEF WindowInv, IInv
<1>2. /\ \A n \in 0 .. Size - 1 : TimeAt(slot, n) \in Nat
      /\ \A m, n \in 0 .. Size - 1 : m <= n => TimeAt(slot, n) <= TimeAt(slot, m)
  BY <1>1, TimesFall
<1>3. Kept = KeptOf(slot) /\ Len(Kept) = slot.num
  BY <1>1, KeptType DEF Kept, KeptOf
<1>4. Late(slot, p) <=> p.time < TimeAt(slot, 0)
  BY <1>1, BackGoes DEF Late, TimeAt
<1>5. ASSUME Late(slot, p) PROVE Window!Late(p)
  <2>1. slot.num # 0
    <3> SUFFICES ASSUME slot.num = 0 PROVE FALSE
      OBVIOUS
    <3>1. TimeAt(slot, 0) = 0
      BY <1>1 DEF Unwritten, TimeAt, NoData
    <3> QED BY <1>1, <1>4, <1>5, <3>1
  <2>2. 0 \in 0 .. slot.num - 1 /\ slot.num - 0 = slot.num /\ 0 \in 0 .. Size - 1
    BY <1>1, <2>1
  <2>3. slot.num \in 1 .. Len(Kept) /\ Kept[slot.num].time = TimeAt(slot, 0)
    BY <1>1, <1>3, <2>2, KeptAt
  <2> QED BY <1>1, <1>2, <1>4, <1>5, <2>2, <2>3 DEF Window!Late
<1>6. ASSUME NEW n \in 1 .. Len(Kept), Kept[n].time > p.time PROVE Late(slot, p)
  <2>1. slot.num - n \in 0 .. slot.num - 1 /\ slot.num - (slot.num - n) = n
    BY <1>1, <1>3
  <2>2. Kept[n].time = TimeAt(slot, slot.num - n)
    BY <1>1, <1>3, <2>1, KeptAt
  <2>3. slot.num - n \in 0 .. Size - 1 /\ 0 \in 0 .. Size - 1 /\ 0 <= slot.num - n
    BY <1>1, <2>1
  <2>4. TimeAt(slot, slot.num - n) <= TimeAt(slot, 0)
    BY <1>2, <2>3
  <2> QED BY <1>1, <1>2, <1>4, <1>6, <2>2, <2>3, <2>4
<1> QED BY <1>5, <1>6 DEF Window!Late

(* The slot drops what is too old for the window, and nothing else. *)
LEMMA TooOldIsDropped ==
  ASSUME WindowInv, NEW p \in Data
  PROVE  Fits(slot, p) <=> ~Window!TooOld(p)
<1>1. /\ slot \in Slot /\ InOrder(slot) /\ Unwritten(slot) /\ Size \in Nat \ {0} /\ p.time \in Nat \ {0}
      /\ slot.last \in Cell /\ Timed(slot) /\ slot.num \in 0 .. Size
  <2>1. p.time \in Nat \ {0} /\ slot \in Slot
    BY BoundAssumption DEF Data, WindowInv, IInv
  <2> QED BY <2>1, SizeAssumption, SlotTimed DEF WindowInv, IInv
<1>2. /\ \A n \in 0 .. Size - 1 : TimeAt(slot, n) \in Nat
      /\ \A m, n \in 0 .. Size - 1 : m <= n => TimeAt(slot, n) <= TimeAt(slot, m)
  BY <1>1, TimesFall
<1>3. Kept = KeptOf(slot) /\ Len(Kept) = slot.num
  BY <1>1, KeptType DEF Kept, KeptOf
<1>4. CASE ~(Size >= 3)
  BY <1>1, <1>4, FitsAt DEF Window!TooOld
<1>5. CASE Size >= 3
  <2>1. Size - 1 \in 0 .. Size - 1 /\ Size - 2 \in 0 .. Size - 1 /\ Size - 2 <= Size - 1
    BY <1>1, <1>5
  <2>2. Fits(slot, p) <=> p.time > TimeAt(slot, Size - 1) /\ p.time > TimeAt(slot, Size - 2)
    BY <1>1, <1>5, FitsAt
  <2>3. ASSUME Fits(slot, p), NEW n \in 1 .. Len(Kept), n <= Len(Kept) + 2 - Size
        PROVE  ~(Kept[n].time >= p.time)
    <3>1. /\ slot.num - n \in 0 .. slot.num - 1 /\ slot.num - (slot.num - n) = n
          /\ slot.num - n = Size - 1 \/ slot.num - n = Size - 2
      BY <1>1, <1>3, <1>5, <2>3
    <3>2. Kept[n].time = TimeAt(slot, slot.num - n)
      BY <1>1, <1>3, <3>1, KeptAt
    <3> QED BY <1>1, <1>2, <2>1, <2>2, <2>3, <3>1, <3>2, SMTT(30)
  <2>4. ASSUME ~Fits(slot, p)
        PROVE  \E n \in 1 .. Len(Kept) : n <= Len(Kept) + 2 - Size /\ Kept[n].time >= p.time
    <3>1. TimeAt(slot, Size - 2) >= p.time
      BY <1>1, <1>2, <2>1, <2>2, <2>4
    <3>2. Size - 2 < slot.num
      <4> SUFFICES ASSUME Size - 2 >= slot.num PROVE FALSE
        BY <1>1
      <4>1. TimeAt(slot, Size - 2) = 0
        BY <1>1, <2>1 DEF Unwritten, TimeAt, NoData
      <4> QED BY <1>1, <3>1, <4>1
    <3>3. Size - 2 \in 0 .. slot.num - 1
      BY <1>1, <1>5, <3>2
    <3>4. /\ slot.num - (Size - 2) \in 1 .. Len(Kept)
          /\ Kept[slot.num - (Size - 2)].time = TimeAt(slot, Size - 2)
      BY <1>1, <1>3, <3>3, KeptAt
    <3>5. slot.num - (Size - 2) <= Len(Kept) + 2 - Size
      BY <1>1, <1>3
    <3> QED BY <3>1, <3>4, <3>5
  <2> QED BY <1>1, <1>5, <2>3, <2>4 DEF Window!TooOld
<1> QED BY <1>4, <1>5

(* A datum that is written is sorted in, or it is too old. *)
LEMMA WriteSorts ==
  ASSUME WindowInv, NEW p \in Data, slot' = RingWrite(slot, p)
  PROVE  Unwritten(slot') /\ Window!Offer(p)
<1>1. slot \in Slot /\ InOrder(slot) /\ Top(slot) /\ Unwritten(slot)
  BY DEF WindowInv, IInv
<1>2. Kept = KeptOf(slot) /\ Kept' = KeptOf(slot')
  BY DEF Kept, KeptOf
<1>3. ASSUME NEW m, Sorted(slot, p, slot', m) PROVE Unwritten(slot') /\ Window!Keep(p)
  <2>1. PICK k \in 0 .. Len(Kept) :
               /\ \A n \in 1 .. Len(Kept) : n <= k <=> Kept[n].time <= p.time
               /\ Kept' = Window!Newest(InsertedIn(Kept, k, p))
    BY <1>1, <1>2, <1>3, KeptSorted
  <2>2. InsertedIn(Kept, k, p) = Window!Inserted(k, p)
    BY DEF InsertedIn, Window!Inserted
  <2>3. Unwritten(slot')
    BY <1>1, <1>3, StaysUnwritten
  <2> QED BY <2>1, <2>2, <2>3 DEF Window!Keep
<1>4. CASE ~Late(slot, p)
  <2>1. Unwritten(slot') /\ Window!Keep(p)
    BY <1>1, <1>3, <1>4, TopSteps DEF RingWrite
  <2> QED BY <1>4, <2>1, LateIsLate DEF Window!Offer
<1>5. CASE Late(slot, p) /\ Fits(slot, p)
  <2>1. Unwritten(slot') /\ Window!Keep(p)
    BY <1>1, <1>3, <1>5, LateSteps DEF RingWrite
  <2> QED BY <1>5, <2>1, TooOldIsDropped DEF Window!Offer
<1>6. CASE Late(slot, p) /\ ~Fits(slot, p)
  <2>1. slot' = slot
    BY <1>6 DEF RingWrite
  <2>2. Kept' = Kept /\ Unwritten(slot')
    BY <1>1, <1>2, <2>1
  <2> QED BY <1>6, <2>2, LateIsLate, TooOldIsDropped DEF Window!Offer
<1> QED BY <1>4, <1>5, <1>6

(* So every write of the slot is a step of the window, and a refused one none. *)
LEMMA StepIsWindow ==
  WindowInv /\ [Next]_vars => WindowInv' /\ [Window!Next]_<<Kept, written>>
<1> SUFFICES ASSUME WindowInv, [Next]_vars PROVE WindowInv' /\ [Window!Next]_<<Kept, written>>
  OBVIOUS
<1>1. IInv'
  BY NextIInv DEF WindowInv
<1>2. ASSUME NEW time \in 1 .. MaxTime, Write(time) PROVE Unwritten(slot') /\ Window!Next
  <2> DEFINE p == [time |-> time, id |-> written']
  <2>1. slot' = RingWrite(slot, p) /\ written' = written + 1
    BY <1>2 DEF Write
  <2>2. p \in Data
    BY <1>2, BoundAssumption DEF Write, Data, WindowInv, IInv
  <2> HIDE DEF p
  <2>3. Unwritten(slot') /\ Window!Offer(p)
    BY <2>1, <2>2, WriteSorts
  <2> QED BY <2>1, <2>3 DEF Window!Next, p
<1>3. CASE WriteRefused \/ UNCHANGED vars
  <2>1. slot' = slot /\ written' = written
    BY <1>3 DEF WriteRefused, vars
  <2>2. Kept' = Kept
    BY <2>1 DEF Kept
  <2> QED BY <1>1, <2>1, <2>2 DEF WindowInv, Unwritten
<1> QED BY <1>1, <1>2, <1>3 DEF Next, WindowInv

(* The circular array is the window, for any size, times and order of      *)
(* writes: a datum is dropped exactly when it is late and not newer than   *)
(* the two oldest of a full window, and any other stands where its time    *)
(* puts it.                                                                *)
THEOREM SlotIsWindow == Spec => WindowSpec
<1> QED BY InitWindow, StepIsWindow, PTL DEF Spec, WindowSpec, Window!Spec
=============================================================================
