------------------------------ MODULE DataSlot ------------------------------
(***************************************************************************)
(* One DataSlot and the writers that write timestamped data to it, in or   *)
(* out of time order (AddressBank/src/DataSlot.cc).  Reading does not      *)
(* change the slot, so what a read answers is stated over the states.      *)
(***************************************************************************)
EXTENDS SlotRing, Sequences

CONSTANTS
  MaxTime,     \* data have times 1 .. MaxTime
  MaxWrites    \* bound: the number of writes of a behaviour

ASSUME BoundAssumption == MaxTime \in Nat \ {0} /\ MaxWrites \in Nat

VARIABLES
  slot,      \* the DataSlot
  written    \* how many writes were made: the id of the last datum

vars == <<slot, written>>

Data == [time : 1 .. MaxTime, id : 1 .. MaxWrites]

Init ==
  /\ slot = EmptySlot
  /\ written = 0

(* DataSlot::write *)
Write(time) ==
  /\ written < MaxWrites
  /\ written' = written + 1
  /\ slot' = RingWrite(slot, [time |-> time, id |-> written + 1])

(* DataSlot::write of another class than the slot's: nothing is written. *)
WriteRefused ==
  /\ Refused(FALSE)
  /\ UNCHANGED vars

Next ==
  \/ \E time \in 1 .. MaxTime : Write(time)
  \/ WriteRefused

Spec == Init /\ [][Next]_vars
-----------------------------------------------------------------------------
TypeOK ==
  /\ slot \in [hist : [Cell -> Data \cup {NoData}], last : Cell, num : 0 .. Size]
  /\ written \in 0 .. MaxWrites

(* Walking up from the oldest cell to Last, times never go down, whatever  *)
(* the order of the writes and wherever the array wrapped: the walk back   *)
(* from Last that read does finds the newest datum before a time.          *)
RingInTimeOrder ==
  \A i \in Cell \ {slot.last} : slot.hist[i].time <= slot.hist[Nxt(i)].time

(* The data the ring keeps, oldest first. *)
Kept == [n \in 1 .. slot.num |-> slot.hist[Back(slot, slot.num - n)]]

(* The ring implements the window, and counts its data as the window does: *)
(* no datum is dropped but the late ones that the window says are too old, *)
(* and each of the others stands where its time puts it.                   *)
Window == INSTANCE SlotWindow WITH window <- Kept, offered <- written, Times <- 1 .. MaxTime
WindowSpec == Window!Spec

(* "Items should be written in time order but if not the data is sorted    *)
(* into the right position" (DataSlot.hh, write): a datum newer than the   *)
(* oldest one kept, or one for which there is room, is among the data      *)
(* after the write.                                                        *)
LateIsSorted ==
  [][\A time \in 1 .. MaxTime :
       Write(time) /\ (slot.num < Size \/ time > Kept[1].time)
         => \E n \in 1 .. Len(Kept') : Kept'[n].id = written']_vars
-----------------------------------------------------------------------------
(* What DataSlot.hh promises a reader, over the kept data. *)

FirstFrom(t) ==
  CHOOSE i \in 1 .. Len(Kept) + 1 :
    /\ i <= Len(Kept) => Kept[i].time >= t
    /\ \A j \in 1 .. i - 1 : Kept[j].time < t

LastUpTo(t) ==
  CHOOSE i \in 0 .. Len(Kept) :
    /\ i > 0 => Kept[i].time <= t
    /\ \A j \in i + 1 .. Len(Kept) : Kept[j].time > t

(* The position of the datum a read with interpolate = k asks for; 0 when  *)
(* it asks for a time between two data.                                    *)
Wanted(t, k) ==
  IF t = 0 THEN Len(Kept)
  ELSE IF k > 0 THEN FirstFrom(t) + k
  ELSE IF k < 0 THEN LastUpTo(t) + k
  ELSE IF LastUpTo(t) > 0 /\ Kept[LastUpTo(t)].time = t THEN LastUpTo(t)
  ELSE 0

Times == 0 .. MaxTime + 1
Steps == -2 .. 2

Answers == {tk \in Times \X Steps : RingRead(slot, tk[1], tk[2]).code = {}}

(* Once the array is full, a read that reports success gives the datum the *)
(* header describes, or interpolates between the two neighbours of t.      *)
ReadGivesWanted ==
  slot.num = Size =>
    \A tk \in Answers :
      LET t == tk[1]
          k == tk[2]
          w == Wanted(t, k)
          r == RingRead(slot, t, k)
      IN  IF k = 0 /\ w = 0
          THEN r.ids = <<Kept[LastUpTo(t)].id, Kept[FirstFrom(t)].id>> /\ r.time = t
          ELSE w \in 1 .. Len(Kept) /\ r.ids = <<Kept[w].id>> /\ r.time = Kept[w].time
=============================================================================
