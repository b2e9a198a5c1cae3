------------------------------ MODULE MCGrids ------------------------------
(* A behaviour operates on matrices of bits, searches a grid or fills an   *)
(* ordered list; the other two stay as they are.                           *)
(*                                                                         *)
(* The matrices are windows of several shapes on two allocations whose     *)
(* last long is not full, one set up with ones and one with zeros.         *)
EXTENDS BinaryMatrix, GridSearch, OrderedRows

(* An irregular pattern; f shifts it. *)
Draw(x, f) ==
  FoldSet(LAMBDA q, y : SetBit(y, q[1], q[2], (q[1] * 5 + q[2] * 3 + f) % 4 < 2), x,
          (0 .. x.arows - 1) \X (0 .. x.acols - 1))

Ones7 == Draw(Setup(3, 7, TRUE), 0)
Zeros8 == Draw(Setup(3, 8, FALSE), 1)
Same8 == Draw(Setup(3, 8, FALSE), 0)
Full == Setup(2, 7, TRUE)

On(x, dr, dc, r, c) == Offset(x, dr, dc, r, c)

MCStarts ==
  {<<On(Ones7, 0, 0, 3, 7), On(Zeros8, 0, 0, 3, 7)>>,
   <<On(Ones7, 0, 1, 2, 5), On(Zeros8, 1, 1, 2, 5)>>,
   <<On(Ones7, 0, 1, 2, 6), On(Zeros8, 1, 0, 2, 6)>>,
   <<On(Ones7, 1, 2, 2, 4), On(Zeros8, 0, 2, 2, 4)>>,
   <<On(Ones7, 0, 3, 2, 3), On(Zeros8, 0, 0, 2, 3)>>,
   <<On(Ones7, 1, 4, 1, 2), On(Zeros8, 1, 1, 1, 2)>>,
   <<On(Ones7, 0, 1, 3, 3), On(Zeros8, 0, 2, 3, 3)>>,
   <<On(Zeros8, 0, 0, 2, 6), On(Ones7, 0, 0, 2, 6)>>,
   <<On(Zeros8, 0, 0, 2, 7), On(Same8, 0, 0, 2, 7)>>,
   <<On(Ones7, 0, 0, 3, 7), On(Same8, 0, 0, 3, 7)>>,
   <<On(Zeros8, 0, 2, 1, 6), On(Ones7, 0, 0, 2, 3)>>,
   <<On(Full, 0, 0, 2, 7), On(Ones7, 1, 0, 2, 7)>>}

(* Nothing, and a wall across a corner. *)
MCGiven == {{}, {<<0, 1>>, <<1, 0>>, <<2, 2>>}}

VARIABLE part

NoMatrices == m = Full /\ b = Full /\ call = <<"none">> /\ result = 0 /\ calls = 0

GridsInit ==
  /\ SearchInit /\ RowsInit
  /\ \/ part = "matrix" /\ Init /\ grid = {}
     \/ part = "search" /\ NoMatrices
     \/ part = "rows" /\ NoMatrices /\ grid = {}

(* The list is followed as long as it is ordered. *)
GridsNext ==
  /\ \/ part = "matrix" /\ Next /\ UNCHANGED <<searchVars, rows>>
     \/ part = "search" /\ SearchNext /\ UNCHANGED <<vars, rows>>
     \/ part = "rows" /\ Increasing /\ RowsNext /\ UNCHANGED <<vars, searchVars>>
  /\ UNCHANGED part

GridsSpec == GridsInit /\ [][GridsNext]_<<vars, searchVars, rows, part>>
=============================================================================
