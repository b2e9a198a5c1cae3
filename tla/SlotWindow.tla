----------------------------- MODULE SlotWindow -----------------------------
(***************************************************************************)
(* What a DataSlot does for its writers, without the circular array: it    *)
(* remembers data in time order, at most Size of them, the oldest making   *)
(* room.  Every datum it is offered is put behind all that are not newer,  *)
(* with one exception, which DataSlot.hh does not have: a late one that is *)
(* not newer than the two oldest of a full window is dropped.              *)
(***************************************************************************)
EXTENDS Integers, Sequences

CONSTANTS
  Size,
  Times    \* the times of the data that writers may offer

VARIABLES
  window,
  offered    \* how many data were offered: the id of the last one

(* The window with p behind its first k data. *)
Inserted(k, p) ==
  [n \in 1 .. Len(window) + 1 |->
     IF n <= k THEN window[n] ELSE IF n = k + 1 THEN p ELSE window[n - 1]]

Newest(w) == IF Len(w) > Size THEN Tail(w) ELSE w

Late(p) == \E n \in 1 .. Len(window) : window[n].time > p.time

(* What is too old is not newer than the datum that would make room, or    *)
(* the one after it: those are the first two of a full window, and the     *)
(* first alone while one more would fill it.                               *)
TooOld(p) ==
  \/ Size < 3
  \/ \E n \in 1 .. Len(window) : n <= Len(window) + 2 - Size /\ window[n].time >= p.time

Init == window = <<>> /\ offered = 0

(* p goes behind all data that are not newer. *)
Keep(p) ==
  \E k \in 0 .. Len(window) :
    /\ \A n \in 1 .. Len(window) : n <= k <=> window[n].time <= p.time
    /\ window' = Newest(Inserted(k, p))

Offer(p) ==
  \/ ~(Late(p) /\ TooOld(p)) /\ Keep(p)
  \/ Late(p) /\ TooOld(p) /\ UNCHANGED window

Next ==
  /\ offered' = offered + 1
  /\ \E time \in Times : Offer([time |-> time, id |-> offered'])

Spec == Init /\ [][Next]_<<window, offered>>
=============================================================================
