------------------------------ MODULE SlotRing ------------------------------
(***************************************************************************)
(* The circular history of a Cure::DataSlot and its two operations, write  *)
(* and read (AddressBank/src/DataSlot.cc), as operators on a slot value.   *)
(*                                                                         *)
(* A slot is a record: hist is the array History, last the index Last of   *)
(* the newest datum, num the counter NumItems.  A datum keeps what write   *)
(* and read look at, its Time, and an id that tells two data apart.  Time  *)
(* 0 is the default Timestamp: a History cell nobody wrote has it, and a   *)
(* reader that asks for time 0 asks for the newest datum.                  *)
(*                                                                         *)
(* Return codes are bit masks in the code and sets of flag names here; the *)
(* empty set is the return value 0.                                        *)
(***************************************************************************)
EXTENDS Integers

CONSTANTS
  Size,        \* length of History; a slot of depth 0 stores nothing
  DoTypeCheck  \* does the slot refuse data of another class?

ASSUME SizeAssumption == Size \in Nat \ {0}

Cell == 0 .. Size - 1

NoData == [time |-> 0, id |-> 0]

EmptySlot == [hist |-> [i \in Cell |-> NoData], last |-> 0, num |-> 0]

(* The array is walked with explicit wrap-around, up and down. *)
Nxt(i) == IF i = Size - 1 THEN 0 ELSE i + 1
Prv(i) == IF i = 0 THEN Size - 1 ELSE i - 1

(* NumItems grows to Size but no more. *)
Bump(n) == IF n < Size THEN n + 1 ELSE n
-----------------------------------------------------------------------------
(* write *)

Late(s, p) == p.time < s.hist[s.last].time

(* Mutant: only the cell that would be overwritten is looked at. *)
FitsOldest(s, p) == Size >= 3 /\ p.time > s.hist[Nxt(s.last)].time

(* A late datum is only kept when it is newer than both cells after Last:  *)
(* the oldest, which it overwrites, and the second oldest.                 *)
Fits(s, p) ==
  /\ Size >= 3
  /\ p.time > s.hist[Nxt(s.last)].time
  /\ p.time > s.hist[Nxt(Nxt(s.last))].time

PutNewest(s, p) ==
  [hist |-> [s.hist EXCEPT ![Nxt(s.last)] = p],
   last |-> Nxt(s.last),
   num  |-> Bump(s.num)]

(* Mutant: p goes on top, where the loop that moves newer data should start.*)
PutLateOnTop(s, p) == PutNewest(s, p)

(* Every datum newer than p moves one cell up and p takes the hole. *)
PutLate(s, p) ==
  LET newer == {i \in Cell : s.hist[i].time > p.time}
  IN  [hist |-> [i \in Cell |->
                   IF Prv(i) \in newer THEN s.hist[Prv(i)]
                   ELSE IF i \in newer THEN p
                   ELSE s.hist[i]],
       last |-> Nxt(s.last),
       num  |-> Bump(s.num)]

RingWrite(s, p) ==
  IF ~Late(s, p) THEN PutNewest(s, p)
  ELSE IF Fits(s, p) THEN PutLate(s, p)
  ELSE s

RingWriteCode(s, p) ==
  IF Late(s, p) THEN {"TIMESTAMP_ERROR", "TIMESTAMP_TOO_OLD"} ELSE {}

(* The type check that comes before everything else in both operations. *)
Refused(sameClass) == DoTypeCheck /\ ~sameClass
-----------------------------------------------------------------------------
(* read *)

(* The cell n steps back in time from Last. *)
Back(s, n) == (s.last + Size - n) % Size

(* The number of steps back to the first datum that satisfies P, and Size  *)
(* when the walk comes round to Last without meeting one.                  *)
Walk(s, from, P(_)) ==
  LET hits == {n \in from .. Size - 1 : P(s.hist[Back(s, n)])}
  IN  IF hits = {} THEN Size ELSE CHOOSE n \in hits : \A m \in hits : n <= m

(* A reply: the flags, the data that result was made from (two when it was *)
(* interpolated, none when result is left as it came), result's time and   *)
(* the value interpolate[0] is left with.                                  *)
Reply(code, ids, time, k) == [code |-> code, ids |-> ids, time |-> time, k |-> k]
Give(code, p, k) == Reply(code, <<p.id>>, p.time, k)

RingOldest(s) == IF s.num < Size THEN 0 ELSE (s.last + 1) % Size

NoMore == {"TIMESTAMP_ERROR", "NO_DATA_AVAILABLE"}
TooOld == {"TIMESTAMP_ERROR", "TIMESTAMP_TOO_OLD"}
Future == {"TIMESTAMP_ERROR", "NO_DATA_AVAILABLE", "TIMESTAMP_IN_FUTURE"}

(* interpolate < 0: |k| data further back than the newest one at or before *)
(* t, which is h steps back.                                               *)
ReadBefore(s, t, k, h) ==
  LET n == h - k
  IN  IF n >= Size
      THEN Reply(TooOld, <<>>, 0, k)
      ELSE LET p == s.hist[Back(s, n)]
           IN  Give({}, p, IF p.time = t THEN k - 1 ELSE -1)

(* Mutants: the walk forward starts at the newest datum before t, and it   *)
(* stops one step before Last.                                             *)
ReadAfterLow(s, t, k, l) ==
  LET n == l - k
  IN  IF n < 0
      THEN Reply(NoMore, <<>>, 0, k)
      ELSE Give({}, s.hist[Back(s, n)], IF s.hist[Back(s, n)].time = t THEN k + 1 ELSE 1)

ReadAfterShort(s, t, k, l) ==
  LET n == l - 1 - k
  IN  IF n <= 0
      THEN Reply(NoMore, <<>>, 0, k)
      ELSE Give({}, s.hist[Back(s, n)], IF s.hist[Back(s, n)].time = t THEN k + 1 ELSE 1)

(* interpolate > 0: k data further on than the oldest one at or after t,   *)
(* which is one step newer than l, the newest one before t.                *)
ReadAfter(s, t, k, l) ==
  LET n == l - 1 - k
  IN  IF n < 0
      THEN Reply(NoMore, <<>>, 0, k)
      ELSE LET p == s.hist[Back(s, n)]
           IN  Give({}, p, IF p.time = t THEN k + 1 ELSE 1)

(* interpolate = 0, and no datum has time t: between the two around it. *)
ReadBetween(s, t, h, l) ==
  IF h = 0
  THEN Reply(NoMore, <<>>, 0, 0)
  ELSE Reply({}, <<s.hist[Back(s, l)].id, s.hist[Back(s, h - 1)].id>>, t, 0)

(* h is the number of steps back to the newest datum at or before t, l to  *)
(* the newest one before t.                                                *)
ReadFrom(s, t, k, h, l) ==
  LET newest == s.hist[s.last]
      oldest == s.hist[RingOldest(s)]
      next   == s.hist[Nxt(s.last)]
  IN  IF s.num = 0 THEN Reply(NoMore, <<>>, 0, k)
      ELSE IF t = 0 THEN Give({}, newest, k)
      ELSE IF t > newest.time THEN Give(Future, newest, k)
      ELSE IF t < oldest.time THEN Give(TooOld, oldest, k)
      ELSE IF next.time = newest.time THEN Give({"TIMESTAMP_ERROR"}, newest, k)
      ELSE IF newest.time = t /\ k < 0 THEN Give(NoMore, newest, k)
      ELSE IF h = Size THEN Give(TooOld, next, k)
      ELSE IF k < 0 THEN ReadBefore(s, t, k, h)
      ELSE IF s.hist[Back(s, h)].time = t /\ k = 0 THEN Give({}, s.hist[Back(s, h)], 0)
      ELSE IF l = Size THEN Give(TooOld, next, k)
      ELSE IF k > 0 THEN ReadAfter(s, t, k, l)
      ELSE ReadBetween(s, t, h, l)

RingRead(s, t, k) ==
  LET h == Walk(s, 0, LAMBDA p : p.time <= t)
      l == IF s.hist[Back(s, h)].time = t THEN Walk(s, h, LAMBDA p : p.time # t) ELSE h
  IN  ReadFrom(s, t, k, h, l)
=============================================================================
