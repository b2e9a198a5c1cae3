-------------------------- MODULE AddressRegistry --------------------------
(***************************************************************************)
(* What an AddressBank promises the holders of indices: an address gets a  *)
(* number no address ever had, the number leads to it until it is removed  *)
(* and to nothing from then on.  So an object may be deleted without       *)
(* tracking down who knows its number (AddressBank.hh, class comment).     *)
(*                                                                         *)
(* The promise ends with the first address that makePermanent has to move: *)
(* AddressBank.hh warns that "others holding that index won't find them".  *)
(***************************************************************************)
EXTENDS Naturals

CONSTANTS
  Addrs, None,
  Indices   \* the numbers an address may get

VARIABLES
  table,   \* index -> address, or None
  used,    \* the indices handed out so far
  moved    \* has an address been given another index?

vars == <<table, used, moved>>

Init ==
  /\ table = [i \in Indices |-> None]
  /\ used = {}
  /\ moved = FALSE

Register(a) ==
  \E i \in Indices \ used :
    /\ ~moved
    /\ \A j \in Indices : table[j] # a
    /\ table' = [table EXCEPT ![i] = a]
    /\ used' = used \cup {i}
    /\ UNCHANGED moved

Unregister(a) ==
  \E i \in used :
    /\ ~moved
    /\ table[i] = a
    /\ table' = [table EXCEPT ![i] = None]
    /\ UNCHANGED <<used, moved>>

Move == moved' = TRUE

Next ==
  \/ Move
  \/ \E a \in Addrs : Register(a) \/ Unregister(a)

Spec == Init /\ [][Next]_vars
=============================================================================
