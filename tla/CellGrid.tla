------------------------------ MODULE CellGrid ------------------------------
(***************************************************************************)
(* What the operations of a BinaryMatrix promise                           *)
(* (Math/include/BinaryMatrix.hh), told without words and masks: a matrix  *)
(* is a window on an allocation of cells, and an operation changes the     *)
(* cells of the window and no other, or gives the matrix a new allocation. *)
(***************************************************************************)
EXTENDS Integers

VARIABLES
  m,    \* the matrix that operations are called for
  b,    \* the one they are given
  call  \* the last operation

(* A matrix is [rows, cols, ro, co, arows, acols, on]: its size, where its *)
(* window begins, the size of the allocation, and the cells that are true. *)
All(x) == (0 .. x.rows - 1) \X (0 .. x.cols - 1)
View(x) == {p \in All(x) : <<p[1] + x.ro, p[2] + x.co>> \in x.on}
Same(x, y) == x.rows = y.rows /\ x.cols = y.cols

InWindow(x, q) == <<q[1] - x.ro, q[2] - x.co>> \in All(x)

Paint(x, S) ==
  [x EXCEPT !.on = {q \in @ : ~InWindow(x, q)} \cup {<<p[1] + x.ro, p[2] + x.co>> : p \in S}]

Fresh(r, c, S) ==
  [rows |-> r, cols |-> c, ro |-> 0, co |-> 0, arows |-> r, acols |-> c, on |-> S]

(* A matrix of the right size keeps its allocation. *)
Place(x, r, c, S) == IF x.rows = r /\ x.cols = c THEN Paint(x, S) ELSE Fresh(r, c, S)

Xor(S, T) == (S \ T) \cup (T \ S)

(* Row r, or column c, of x holds value v only. *)
RowIs(x, r, v) == \A c \in 0 .. x.cols - 1 : (<<r, c>> \in View(x)) = v
ColIs(x, c, v) == \A r \in 0 .. x.rows - 1 : (<<r, c>> \in View(x)) = v
-----------------------------------------------------------------------------
Window(dr, dc, r, c) ==
  m' = [m EXCEPT !.ro = @ + dr, !.co = @ + dc, !.rows = r, !.cols = c]

Reset == m' = [m EXCEPT !.ro = 0, !.co = 0, !.rows = m.arows, !.cols = m.acols]

(* A cell counts from the window but may lie beyond it. *)
Set(r, c, v) ==
  LET q == <<r + m.ro, c + m.co>>
  IN  m' = IF r < 0 \/ c < 0 \/ q[1] >= m.arows \/ q[2] >= m.acols THEN m
           ELSE [m EXCEPT !.on = IF v THEN @ \cup {q} ELSE @ \ {q}]

Fill(v) == m' = Paint(m, IF v THEN All(m) ELSE {})
Negate == m' = Paint(m, All(m) \ View(m))

Assign == m' = Place(m, b.rows, b.cols, View(b))
AssignNot == m' = Place(m, b.rows, b.cols, All(b) \ View(b))
AssignTransposed == m' = Place(m, b.cols, b.rows, {<<p[2], p[1]>> : p \in View(b)})

And == m' = IF Same(m, b) THEN Paint(m, View(m) \cap View(b)) ELSE m
Or == m' = IF Same(m, b) THEN Paint(m, View(m) \cup View(b)) ELSE m
ExOr == m' = IF Same(m, b) THEN Paint(m, Xor(View(m), View(b))) ELSE m

Turned(x) == {<<x.rows - 1 - p[1], x.cols - 1 - p[2]>> : p \in View(x)}

(* The other operand of these is m, turned round. *)
OrAnd == m' = IF Same(m, b) THEN Paint(m, View(m) \cup (Turned(m) \cap View(b))) ELSE m
OrExor == m' = IF Same(m, b) THEN Paint(m, View(m) \cup Xor(Turned(m), View(b))) ELSE m

DeleteRows(s, n) ==
  m' = IF s < 0 \/ s + n > m.rows THEN m ELSE
       Paint([m EXCEPT !.rows = @ - n],
             {p \in (0 .. m.rows - n - 1) \X (0 .. m.cols - 1) :
                <<IF p[1] < s THEN p[1] ELSE p[1] + n, p[2]>> \in View(m)})

DeleteColumns(s, n) ==
  m' = IF s < 0 \/ s + n > m.cols THEN m ELSE
       Paint([m EXCEPT !.cols = @ - n],
             {p \in (0 .. m.rows - 1) \X (0 .. m.cols - n - 1) :
                <<p[1], IF p[2] < s THEN p[2] ELSE p[2] + n>> \in View(m)})

InsertRows(s, n, v) ==
  m' = IF s < 0 \/ s > m.rows THEN m ELSE
       Fresh(m.rows + n, m.cols,
             {<<IF p[1] < s THEN p[1] ELSE p[1] + n, p[2]>> : p \in View(m)}
             \cup IF v THEN (s .. s + n - 1) \X (0 .. m.cols - 1) ELSE {})

InsertColumns(s, n, v) ==
  m' = IF s < 0 \/ s > m.cols THEN m ELSE
       Fresh(m.rows, m.cols + n,
             {<<p[1], IF p[2] < s THEN p[2] ELSE p[2] + n>> : p \in View(m)}
             \cup IF v THEN (0 .. m.rows - 1) \X (s .. s + n - 1) ELSE {})

Grow(r, c, v) ==
  LET new == (0 .. r - 1) \X (0 .. c - 1)
  IN  m' = Fresh(r, c, (View(m) \cap new) \cup IF v THEN new \ All(m) ELSE {})

Swapped(i, j, k) == IF k = i THEN j ELSE IF k = j THEN i ELSE k

SwapRows(i, j) == m' = Paint(m, {<<Swapped(i, j, p[1]), p[2]>> : p \in View(m)})
SwapColumns(i, j) == m' = Paint(m, {<<p[1], Swapped(i, j, p[2])>> : p \in View(m)})

Transpose == m' = Place(m, m.cols, m.rows, {<<p[2], p[1]>> : p \in View(m)})

(* Turned counter-clockwise. *)
Rotate(angle) ==
  m' = CASE angle = 0 -> Fresh(m.rows, m.cols, View(m))
         [] angle = 90 -> Fresh(m.cols, m.rows, {<<m.cols - 1 - p[2], p[1]>> : p \in View(m)})
         [] angle = 180 -> Fresh(m.rows, m.cols, Turned(m))
         [] angle = -90 -> Fresh(m.cols, m.rows, {<<p[2], m.rows - 1 - p[1]>> : p \in View(m)})

(* The window shrinks to the rows from the first to the last that hold     *)
(* something else than v, and these move up to its beginning; where there  *)
(* is none the window has no rows, and where it begins means nothing.      *)
TrimRows(v) ==
  LET rest == {r \in 0 .. m.rows - 1 : ~RowIs(m, r, v)}
  IN  IF rest = {} THEN m' = [m EXCEPT !.rows = 0, !.ro = m'.ro]
      ELSE \E f, l \in rest :
             /\ \A r \in rest : f <= r /\ r <= l
             /\ m' = [Paint([m EXCEPT !.rows = @ - f],
                            {<<p[1] - f, p[2]>> : p \in {q \in View(m) : q[1] >= f}})
                       EXCEPT !.rows = l - f + 1]

TrimColumns(v) ==
  LET rest == {c \in 0 .. m.cols - 1 : ~ColIs(m, c, v)}
  IN  IF rest = {} THEN m' = [m EXCEPT !.cols = 0, !.co = m'.co]
      ELSE \E f, l \in rest :
             /\ \A c \in rest : f <= c /\ c <= l
             /\ m' = [Paint([m EXCEPT !.cols = @ - f],
                            {<<p[1], p[2] - f>> : p \in {q \in View(m) : q[2] >= f}})
                       EXCEPT !.cols = l - f + 1]
-----------------------------------------------------------------------------
(* The first element of a call is its name, the others are its arguments.  *)
Does(c) ==
  CASE c[1] = "offset" -> Window(c[2], c[3], c[4], c[5])
    [] c[1] = "reset" -> Reset
    [] c[1] = "setBit" -> Set(c[2], c[3], c[4])
    [] c[1] = "=bool" -> Fill(c[2])
    [] c[1] = "~" -> Negate
    [] c[1] = "=" -> Assign
    [] c[1] = "equalsNot" -> AssignNot
    [] c[1] = "transpose_" -> AssignTransposed
    [] c[1] = "&=" -> And
    [] c[1] = "|=" -> Or
    [] c[1] = "^=" -> ExOr
    [] c[1] = "orAnd" -> OrAnd
    [] c[1] = "orExor" -> OrExor
    [] c[1] = "deleteRows" -> DeleteRows(c[2], c[3])
    [] c[1] = "deleteColumns" -> DeleteColumns(c[2], c[3])
    [] c[1] = "insertRows" -> InsertRows(c[2], c[3], c[4])
    [] c[1] = "insertColumns" -> InsertColumns(c[2], c[3], c[4])
    [] c[1] = "grow" -> Grow(c[2], c[3], c[4])
    [] c[1] = "swapRows" -> SwapRows(c[2], c[3])
    [] c[1] = "swapColumns" -> SwapColumns(c[2], c[3])
    [] c[1] = "transpose" -> Transpose
    [] c[1] = "rotate" -> Rotate(c[2])
    [] c[1] = "trimRows" -> TrimRows(c[2])
    [] c[1] = "trimColumns" -> TrimColumns(c[2])
    [] OTHER -> m' = m

GridSpec == [][Does(call') /\ UNCHANGED b]_<<m, b, call>>
=============================================================================
