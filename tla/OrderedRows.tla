---------------------------- MODULE OrderedRows ----------------------------
(***************************************************************************)
(* BinaryMatrix::addOrdered and findRow (Math/src/BinaryMatrix.cc): the    *)
(* rows of a matrix as an ordered list without duplicates.  A row is the   *)
(* number that rowTest takes it for; shorter rows are extended with zeros  *)
(* at the high end, which leaves the number what it is.                    *)
(***************************************************************************)
EXTENDS Integers, Sequences, SequencesExt

CONSTANTS
  Sigs,    \* the rows that are added: numbers
  MaxRows  \* bound: the number of rows

ASSUME RowsAssumption == Sigs \subseteq Nat /\ MaxRows \in Nat

VARIABLE rows \* the rows of the matrix, which count from 0

Row(k) == rows[k + 1]

(* Mutant: the search ends before its last step. *)
HalfLessOne(step) == IF step < 4 THEN 0 ELSE step \div 2

(* A step is half of the one before, as long as it is not 0. *)
Half(step) == step \div 2

(* One round of the search; its state is where it is, the next step and    *)
(* whether it has found s or come to its end.                              *)
Look(at, s) ==
  LET k == IF at.k >= Len(rows) THEN Len(rows) - 1 ELSE at.k
      next == Half(at.step)
  IN  CASE at.step = 0 \/ at.found \/ at.end -> at
        [] ~(at.step = 0 \/ at.found \/ at.end) /\ Row(k) = s ->
             [at EXCEPT !.k = k, !.found = TRUE]
        [] ~(at.step = 0 \/ at.found \/ at.end) /\ Row(k) < s ->
             [at EXCEPT !.k = k + at.step, !.step = next]
        [] ~(at.step = 0 \/ at.found \/ at.end) /\ Row(k) > s ->
             [at EXCEPT !.k = IF k < at.step THEN 0 ELSE k - at.step,
                        !.step = next, !.end = (k = 0)]

(* The search goes from the middle, by half the number of rows, half of    *)
(* that, ...: it takes fewer rounds than there are rows.                   *)
Searched(s) ==
  LET middle == Len(rows) \div 2
      at[i \in 0 .. Len(rows)] ==
        IF i = 0 THEN [k |-> middle, step |-> middle, found |-> FALSE, end |-> FALSE]
        ELSE Look(at[i - 1], s)
  IN  at[Len(rows)]

(* The row that holds s, or else the one to insert it before. *)
FindRow(s) ==
  LET n == Len(rows)
      at == Searched(s)
  IN  IF at.found \/ n = 0 THEN [found |-> at.found, k |-> at.k]
      ELSE IF at.k >= n THEN [found |-> FALSE, k |-> n]
      ELSE [found |-> Row(at.k) = s, k |-> IF Row(at.k) < s THEN at.k + 1 ELSE at.k]
-----------------------------------------------------------------------------
RowsInit == rows = <<>>

AddOrdered(s) ==
  LET place == FindRow(s)
  IN  /\ Len(rows) < MaxRows
      /\ rows' = IF place.found THEN rows ELSE InsertAt(rows, place.k + 1, s)

RowsNext == \E s \in Sigs : AddOrdered(s)

RowsSpec == RowsInit /\ [][RowsNext]_rows
-----------------------------------------------------------------------------
Increasing == \A i, j \in DOMAIN rows : i < j => rows[i] < rows[j]

(* A power of two: no odd number divides it but 1. *)
PowerOfTwo(n) == \A d, e \in 1 .. n : n = d * e /\ d % 2 = 1 => d = 1

(* addOrdered keeps the rows in order, and each of them once, if half of   *)
(* their number is 0 or a power of two.  Only then do the steps of the     *)
(* search, halved and rounded down, leave out no row.                      *)
RowsIncrease ==
  [][Increasing /\ PowerOfTwo(Len(rows) \div 2) => Increasing']_rows

(* "It then puts the first row of sig in as a new row in increasing order  *)
(* with no duplicate rows" (BinaryMatrix.hh, addOrdered).                  *)
NoDuplicates == Increasing
=============================================================================
