---------------------------- MODULE BinaryMatrix ----------------------------
(***************************************************************************)
(* Math/src/BinaryMatrix.cc and include/BinaryMatrix.hh: a matrix of bits  *)
(* packed in longs, with a window (offset) that need not begin or end at a *)
(* long.  Operations on the window do the bits before its first whole long *)
(* and after its last one singly, and whole longs at once.                 *)
(*                                                                         *)
(* A long is the set of its bits that are 1.  Of the 32 bits in use only   *)
(* WordBits are kept; a long that is longer has more, of which one stands  *)
(* for all.  Where two matrices share an allocation, cells are copied one  *)
(* after the other as the code does it.                                    *)
(***************************************************************************)
EXTENDS Integers, Sequences, FiniteSets, SequencesExt, FiniteSetsExt

CONSTANTS
  WordBits,  \* the bits of a long that are used
  LongBits,  \* all its bits
  Starts,    \* the matrices to begin with: pairs of what m and b are
  MaxCalls   \* bound: the number of operations

ASSUME MatrixAssumption ==
  WordBits \in Nat \ {0, 1} /\ LongBits \in Nat /\ LongBits >= WordBits /\ MaxCalls \in Nat

VARIABLES
  m,      \* the matrix that operations are called for
  b,      \* the matrix they are given
  call,   \* history: the last operation
  result, \* what it returned
  calls   \* the number of operations so far

vars == <<m, b, call, result, calls>>

Long == 0 .. LongBits - 1

(* The difference of two longs. *)
Differ(u, v) == (u \ v) \cup (v \ u)

(* Unsigned, u is the greater number. *)
Above(u, v) == u # v /\ Max(Differ(u, v)) \in u
-----------------------------------------------------------------------------
(* The allocation *)

RowInc(c) == c \div WordBits + (IF c % WordBits = 0 THEN 0 ELSE 1)

(* setupElement, which sets all cells whether it finds the memory it has   *)
(* large enough or not.                                                    *)
Setup(r, c, v) ==
  [rows |-> r, cols |-> c, ro |-> 0, co |-> 0, arows |-> r, acols |-> c,
   mem |-> [i \in 0 .. r - 1 |-> [k \in 0 .. RowInc(c) - 1 |-> IF v THEN Long ELSE {}]]]

Reallocate(x, r, c, v) == IF x.rows = r /\ x.cols = c THEN x ELSE Setup(r, c, v)

Offset(x, dr, dc, r, c) == [x EXCEPT !.ro = @ + dr, !.co = @ + dc, !.rows = r, !.cols = c]

Reset(x) == [x EXCEPT !.ro = 0, !.co = 0, !.rows = x.arows, !.cols = x.acols]

(* The cell exists; it need not be in the window. *)
Exists(x, r, c) ==
  /\ r >= 0 /\ c >= 0
  /\ r + x.ro \in 0 .. x.arows - 1 /\ c + x.co \in 0 .. x.acols - 1

Bit(x, r, c) ==
  Exists(x, r, c) /\ (c + x.co) % WordBits \in x.mem[r + x.ro][(c + x.co) \div WordBits]

SetBit(x, r, c, v) ==
  IF ~Exists(x, r, c) THEN x
  ELSE [x EXCEPT !.mem[r + x.ro][(c + x.co) \div WordBits] =
          IF v THEN @ \cup {(c + x.co) % WordBits} ELSE @ \ {(c + x.co) % WordBits}]

(* A matrix as it may be between two operations: what an empty window has  *)
(* for its place means nothing.                                            *)
Formed(x) ==
  /\ x = [rows |-> x.rows, cols |-> x.cols, ro |-> x.ro, co |-> x.co,
          arows |-> x.arows, acols |-> x.acols, mem |-> x.mem]
  /\ x.rows \in Nat /\ x.cols \in Nat /\ x.ro \in Int /\ x.co \in Int
  /\ x.arows \in Nat /\ x.acols \in Nat
  /\ x.mem \in [0 .. x.arows - 1 -> [0 .. RowInc(x.acols) - 1 -> SUBSET Long]]
  /\ x.rows > 0 /\ x.cols > 0 =>
       x.ro >= 0 /\ x.co >= 0 /\ x.ro + x.rows <= x.arows /\ x.co + x.cols <= x.acols

ASSUME StartsAssumption == \A s \in Starts : Formed(s[1]) /\ Formed(s[2])
-----------------------------------------------------------------------------
(* The parts of a row *)

(* getIndex: the columns before top are done singly, then come whole       *)
(* longs, and the columns from last on are done singly again.              *)
GetIndex(x) ==
  LET first == WordBits - (x.co % WordBits)
      top == IF first = WordBits /\ x.cols >= WordBits THEN 0 ELSE first
      last == x.cols - ((x.co + x.cols) % WordBits)
  IN  IF x.cols < 1 \/ x.rows < 1 THEN [top |-> 0, last |-> 0, longs |-> 0]
      ELSE IF x.cols < top THEN [top |-> x.cols, last |-> x.cols, longs |-> 0]
      ELSE [top |-> top, last |-> last, longs |-> (last - top) \div WordBits]

GetTop(x) == GetIndex(x).top

Singly(first, end) == [k \in 1 .. end - first |-> [col |-> first + k - 1, long |-> FALSE]]

(* The parts of x's rows, in the order in which loops go through them. *)
Parts(x) ==
  LET ix == GetIndex(x)
  IN  Singly(0, ix.top)
      \o [k \in 1 .. ix.longs |-> [col |-> ix.top + (k - 1) * WordBits, long |-> TRUE]]
      \o Singly(ix.last, x.cols)

(* Mutant: longs are used wherever the matrices lie. *)
CommonPartsAnyhow(x, y) == Parts(x)

(* Of two matrices, longs can be used only where they lie alike. *)
CommonParts(x, y) == IF GetTop(x) = GetTop(y) THEN Parts(x) ELSE Singly(0, x.cols)

(* What part p of row i holds; a single bit is in the place of bit 0. *)
Get(x, i, p) ==
  IF p.long THEN x.mem[i + x.ro][(p.col + x.co) \div WordBits]
  ELSE IF Bit(x, i, p.col) THEN {0} ELSE {}

Put(x, i, p, v) ==
  IF p.long THEN [x EXCEPT !.mem[i + x.ro][(p.col + x.co) \div WordBits] = v]
  ELSE SetBit(x, i, p.col, 0 \in v)

Whole(p) == IF p.long THEN Long ELSE {0}

Combined(op, u, v) ==
  CASE op = "&=" -> u \cap v [] op = "|=" -> u \cup v [] op = "^=" -> Differ(u, v)

(* What part p of row i of z becomes: how says by which operation.         *)
New(z, i, p, how) ==
  CASE how.op = "=" -> Get(how.from, i, p)
    [] how.op = "equalsNot" -> Whole(p) \ Get(how.from, i, p)
    (* The window from lies in the allocation that z has too. *)
    [] how.op = "within" -> Get([how.from EXCEPT !.mem = z.mem], i, p)
    [] how.op = "fill" -> IF how.value THEN Whole(p) ELSE {}
    [] how.op = "~" -> Whole(p) \ Get(z, i, p)
    [] how.op \in {"&=", "|=", "^="} -> Combined(how.op, Get(z, i, p), Get(how.from, i, p))
    (* orAnd and orExor read cells, make longs of them and or these in. *)
    [] how.op \in {"orAnd", "orExor"} ->
         Get(z, i, p)
         \cup {k \in 0 .. (IF p.long THEN WordBits - 1 ELSE 0) :
                 LET u == Bit(how.one, i, p.col + k)
                     v == Bit(how.two, i, p.col + k)
                 IN  IF how.op = "orAnd" THEN u /\ v ELSE u # v}
    [] how.op = "each" -> IF <<i, p.col>> \in how.cells THEN {0} ELSE {}

Renew(z, i, p, how) == Put(z, i, p, New(z, i, p, how))

(* Part after part becomes what it does of the matrix so far. *)
WriteRow(x, i, parts, how) ==
  LET done[k \in 0 .. Len(parts)] == IF k = 0 THEN x ELSE Renew(done[k - 1], i, parts[k], how)
  IN  done[Len(parts)]

Write(x, parts, how) ==
  LET done[i \in 0 .. x.rows] == IF i = 0 THEN x ELSE WriteRow(done[i - 1], i - 1, parts, how)
  IN  done[x.rows]

(* Cell after cell, as where longs cannot be used, becomes 1 if cells has it. *)
Each(x, cells) == Write(x, Singly(0, x.cols), [op |-> "each", cells |-> cells])
-----------------------------------------------------------------------------
(* Operations on a window *)

NoMatrix == Setup(0, 0, FALSE)

SameSize(x, y) == x.rows = y.rows /\ x.cols = y.cols

(* operator = and move *)
Assign(x, y) ==
  LET t == Reallocate(x, y.rows, y.cols, FALSE)
  IN  Write(t, CommonParts(t, y), [op |-> "=", from |-> y])

EqualsNot(x, y) ==
  LET t == Reallocate(x, y.rows, y.cols, FALSE)
  IN  Write(t, CommonParts(t, y), [op |-> "equalsNot", from |-> y])

(* The window from lies in the allocation that x has too. *)
CopyWithin(x, from) ==
  Write(x, CommonParts(x, from), [op |-> "within", from |-> from])

Fill(x, v) == Write(x, Parts(x), [op |-> "fill", value |-> v])

Negate(x) == Write(x, Parts(x), [op |-> "~"])

(* &=, |= and ^= refuse a matrix of another size. *)
Combine(x, y, op) ==
  IF ~SameSize(x, y) THEN x ELSE Write(x, CommonParts(x, y), [op |-> op, from |-> y])

OrIn(x, y1, y2, op) ==
  IF ~SameSize(x, y1) \/ ~SameSize(x, y2) THEN x
  ELSE Write(x, Parts(x), [op |-> op, one |-> y1, two |-> y2])

Places(x) == (0 .. x.rows - 1) \X (0 .. x.cols - 1)

(* transpose_ *)
Transposed(x, y) ==
  LET t == Reallocate(x, y.cols, y.rows, FALSE)
  IN  Each(t, {q \in Places(t) : Bit(y, q[2], q[1])})

Transpose(x) == Transposed(x, Assign(NoMatrix, x))

Rotate(x, angle) ==
  LET t == IF angle = 180 THEN Setup(x.rows, x.cols, FALSE) ELSE Setup(x.cols, x.rows, FALSE)
  IN  CASE angle = 0 -> Assign(NoMatrix, x)
        [] angle = 90 -> Each(t, {q \in Places(t) : Bit(x, q[2], x.cols - q[1] - 1)})
        [] angle = -90 -> Each(t, {q \in Places(t) : Bit(x, x.rows - q[2] - 1, q[1])})
        [] angle = 180 ->
             Each(t, {q \in Places(t) : Bit(x, x.rows - q[1] - 1, x.cols - q[2] - 1)})
-----------------------------------------------------------------------------
(* Rows and columns *)

(* deleteRow is the same with one row. *)
DeleteRows(x, s, n) ==
  IF n = 0 \/ s < 0 \/ s + n > x.rows THEN x
  ELSE LET rest == x.rows - n - s
           w == Offset(x, s, 0, rest, x.cols)
       IN  IF rest = 0 THEN [x EXCEPT !.rows = @ - n]
           ELSE Offset(CopyWithin(w, Offset(w, n, 0, rest, x.cols)),
                       -s, 0, s + rest, x.cols)

DeleteColumns(x, s, n) ==
  IF n = 0 \/ s < 0 \/ s + n > x.cols THEN x
  ELSE LET rest == x.cols - n - s
           w == Offset(x, 0, s, x.rows, rest)
       IN  IF rest = 0 THEN [x EXCEPT !.cols = @ - n]
           ELSE Offset(CopyWithin(w, Offset(w, 0, n, x.rows, rest)),
                       0, -s, x.rows, s + rest)

InsertRows(x, s, n, v) ==
  IF n <= 0 \/ s < 0 \/ s > x.rows THEN x
  ELSE LET above == Assign(Offset(Setup(x.rows + n, x.cols, FALSE), 0, 0, s, x.cols),
                           Offset(x, 0, 0, s, x.cols))
           new == Fill(Offset(above, s, 0, n, x.cols), v)
           below == Assign(Offset(new, n, 0, x.rows - s, x.cols),
                           Offset(x, s, 0, x.rows - s, x.cols))
       IN  Offset(below, -(s + n), 0, x.rows + n, x.cols)

InsertColumns(x, s, n, v) ==
  IF n <= 0 \/ s < 0 \/ s > x.cols THEN x
  ELSE LET left == Assign(Offset(Setup(x.rows, x.cols + n, FALSE), 0, 0, x.rows, s),
                          Offset(x, 0, 0, x.rows, s))
           new == Fill(Offset(left, 0, s, x.rows, n), v)
           right == Assign(Offset(new, 0, n, x.rows, x.cols - s),
                           Offset(x, 0, s, x.rows, x.cols - s))
       IN  Offset(right, 0, -(s + n), x.rows, x.cols + n)

Lesser(i, j) == IF i < j THEN i ELSE j

Grow(x, r, c, v) ==
  LET old == Offset(x, 0, 0, Lesser(r, x.rows), Lesser(c, x.cols))
      t == Assign(Offset(Setup(r, c, v), 0, 0, old.rows, old.cols), old)
  IN  [t EXCEPT !.ro = 0, !.co = 0, !.rows = r, !.cols = c]

SwapRows(x, r1, r2) ==
  LET w == Offset(x, r1, 0, 1, x.cols)
      first == CopyWithin(w, Offset(w, r2 - r1, 0, 1, x.cols))
      both == Assign(Offset(first, r2 - r1, 0, 1, x.cols), Assign(NoMatrix, w))
  IN  Offset(both, -r2, 0, x.rows, x.cols)

SwapColumns(x, c1, c2) ==
  LET w == Offset(x, 0, c1, x.rows, 1)
      first == CopyWithin(w, Offset(w, 0, c2 - c1, x.rows, 1))
      both == Assign(Offset(first, 0, c2 - c1, x.rows, 1), Assign(NoMatrix, w))
  IN  Offset(both, 0, -c2, x.rows, x.cols)
-----------------------------------------------------------------------------
(* Operations that read *)

(* How many bits the given parts of rows, or Differ of two such, have in all. *)
Total(of) == Cardinality(UNION {{q} \X of[q] : q \in DOMAIN of})

Count(x) ==
  Total([q \in (0 .. x.rows - 1) \X ToSet(Parts(x)) |-> Get(x, q[1], q[2])])

Match(x, y) ==
  IF ~SameSize(x, y) THEN -1
  ELSE Total([q \in (0 .. x.rows - 1) \X ToSet(CommonParts(x, y)) |->
                Differ(Get(x, q[1], q[2]), Get(y, q[1], q[2]))])

(* The -1 for another size is TRUE as a bool. *)
LogicAnd(x, y) ==
  ~SameSize(x, y) \/ \E i \in 0 .. x.rows - 1 : \E p \in ToSet(CommonParts(x, y)) :
                       Get(x, i, p) \cap Get(y, i, p) # {}

Equal(x, y) ==
  SameSize(x, y) /\ \A i \in 0 .. x.rows - 1 : \A p \in ToSet(CommonParts(x, y)) :
                      Get(x, i, p) = Get(y, i, p)

(* >=: what a copy of y has in common with x is y. *)
Includes(x, y) == Equal(Combine(Assign(NoMatrix, y), x, "&="), y)

(* The parts that differ in row r of x and row 0 of y. *)
Differing(x, r, y) ==
  {p \in ToSet(CommonParts(x, y)) : Get(x, r, p) # Get(y, 0, p)}

(* Mutant: the lowest part that differs counts. *)
RowTestFromLow(x, r, y) ==
  IF x.cols # y.cols \/ y.rows < 1 \/ x.rows <= r THEN 3
  ELSE IF Differing(x, r, y) = {} THEN 0
  ELSE LET p == CHOOSE q \in Differing(x, r, y) : \A o \in Differing(x, r, y) : o.col >= q.col
       IN  IF Above(Get(x, r, p), Get(y, 0, p)) THEN -1 ELSE 1

(* Which of two rows is the greater number; the highest column counts most. *)
RowTest(x, r, y) ==
  IF x.cols # y.cols \/ y.rows < 1 \/ x.rows <= r THEN 3
  ELSE IF Differing(x, r, y) = {} THEN 0
  ELSE LET p == CHOOSE q \in Differing(x, r, y) : \A o \in Differing(x, r, y) : o.col <= q.col
       IN  IF Above(Get(x, r, p), Get(y, 0, p)) THEN -1 ELSE 1

RowEqualTo(x, r, y) ==
  x.cols = y.cols /\ y.rows >= 1 /\ x.rows > r /\ Differing(x, r, y) = {}

(* rowGreaterThan; rowLessThan is its converse.  The first part that       *)
(* differs counts most, and in a long the highest bit.                     *)
RowGreaterThan(x, r, y) ==
  /\ x.cols = y.cols /\ y.rows >= 1 /\ x.rows > r
  /\ \E p \in Differing(x, r, y) :
       /\ \A o \in Differing(x, r, y) : p.col <= o.col
       /\ Above(Get(x, r, p), Get(y, 0, p))
-----------------------------------------------------------------------------
(* Trimming *)

RowIs(x, i, v) == Count(Offset(x, i, 0, 1, x.cols)) = IF v THEN x.cols ELSE 0
ColumnIs(x, j, v) == Count(Offset(x, 0, j, x.rows, 1)) = IF v THEN x.rows ELSE 0

(* The window ends up one row too high when all its rows go. *)
TrimRows(x, v) ==
  LET rest == {i \in 0 .. x.rows - 1 : ~RowIs(x, i, v)}
  IN  IF rest = {} THEN Offset(x, -1, 0, 0, x.cols)
      ELSE [DeleteRows(x, 0, Min(rest)) EXCEPT !.rows = Max(rest) - Min(rest) + 1]

TrimColumns(x, v) ==
  LET rest == {j \in 0 .. x.cols - 1 : ~ColumnIs(x, j, v)}
  IN  IF rest = {} THEN Offset(x, 0, -1, x.rows, 0)
      ELSE [DeleteColumns(x, 0, Min(rest)) EXCEPT !.cols = Max(rest) - Min(rest) + 1]
-----------------------------------------------------------------------------
(* The calls *)

Init ==
  /\ \E s \in Starts : m = s[1] /\ b = s[2]
  /\ call = <<"none">> /\ result = 0 /\ calls = 0

Does(name, args, x, r) ==
  m' = x /\ call' = <<name>> \o args /\ result' = r

(* The window moves by a cell, and keeps its size or loses a cell. *)
MoveWindow ==
  \E dr, dc \in -1 .. 1, r \in {m.rows - 1, m.rows}, c \in {m.cols - 1, m.cols} :
    /\ m.ro + dr >= 0 /\ m.ro + dr + r <= m.arows /\ r > 0
    /\ m.co + dc >= 0 /\ m.co + dc + c <= m.acols /\ c > 0
    /\ Does("offset", <<dr, dc, r, c>>, Offset(m, dr, dc, r, c), 0)

Restore == Does("reset", <<>>, Reset(m), 0)

(* Cells of the window and beyond it. *)
Poke ==
  \E r \in {-1, 0, m.rows}, c \in {-1, 0, m.cols - 1, m.cols}, v \in BOOLEAN :
    Does("setBit", <<r, c, v>>, SetBit(m, r, c, v), 0)

Paint ==
  \/ \E v \in BOOLEAN : Does("=bool", <<v>>, Fill(m, v), 0)
  \/ Does("~", <<>>, Negate(m), 0)

Give ==
  \/ Does("=", <<>>, Assign(m, b), 0)
  \/ Does("equalsNot", <<>>, EqualsNot(m, b), 0)
  \/ Does("transpose_", <<>>, Transposed(m, b), 0)

Mix ==
  \E op \in {"&=", "|=", "^="} : Does(op, <<>>, Combine(m, b, op), 0)

(* The other operand is m turned round. *)
MixIn ==
  \E op \in {"orAnd", "orExor"} : Does(op, <<>>, OrIn(m, Rotate(m, 180), b, op), 0)

Delete ==
  \E n \in 1 .. 4 :
    \/ \E s \in -1 .. m.rows : Does("deleteRows", <<s, n>>, DeleteRows(m, s, n), 0)
    \/ \E s \in -1 .. m.cols : Does("deleteColumns", <<s, n>>, DeleteColumns(m, s, n), 0)

Insert ==
  \E n \in {1, 3}, v \in BOOLEAN :
    \/ \E s \in -1 .. m.rows + 1 :
         Does("insertRows", <<s, n, v>>, InsertRows(m, s, n, v), 0)
    \/ \E s \in -1 .. m.cols + 1 :
         Does("insertColumns", <<s, n, v>>, InsertColumns(m, s, n, v), 0)

Extend ==
  \E r \in {1, m.rows + 1}, c \in {1, m.cols, m.cols + 2}, v \in BOOLEAN :
    Does("grow", <<r, c, v>>, Grow(m, r, c, v), 0)

Swap ==
  \/ \E i, j \in 0 .. m.rows - 1 : Does("swapRows", <<i, j>>, SwapRows(m, i, j), 0)
  \/ \E i, j \in 0 .. m.cols - 1 : Does("swapColumns", <<i, j>>, SwapColumns(m, i, j), 0)

Turn ==
  \/ Does("transpose", <<>>, Transpose(m), 0)
  \/ \E angle \in {-90, 0, 90, 180} : Does("rotate", <<angle>>, Rotate(m, angle), 0)

Trim ==
  \E v \in BOOLEAN :
    \/ Does("trimRows", <<v>>, TrimRows(m, v),
            Min({i \in 0 .. m.rows : i = m.rows \/ ~RowIs(m, i, v)}))
    \/ Does("trimColumns", <<v>>, TrimColumns(m, v),
            Min({j \in 0 .. m.cols : j = m.cols \/ ~ColumnIs(m, j, v)}))

Ask ==
  \/ Does("==", <<>>, m, Equal(m, b))
  \/ Does(">=", <<>>, m, Includes(m, b))
  \/ Does("count", <<>>, m, Count(m))
  \/ Does("match", <<>>, m, Match(m, b))
  \/ Does("logicAnd", <<>>, m, LogicAnd(m, b))
  \/ \E r \in 0 .. m.rows - 1 :
       \/ Does("rowTest", <<r>>, m, RowTest(m, r, b))
       \/ Does("rowEqualTo", <<r>>, m, RowEqualTo(m, r, b))
       \/ Does("rowGreaterThan", <<r>>, m, RowGreaterThan(m, r, b))

(* An empty matrix is only given other contents or its old window. *)
Next ==
  /\ calls < MaxCalls /\ calls' = calls + 1 /\ UNCHANGED b
  /\ \/ Restore \/ Give
     \/ m.rows > 0 /\ m.cols > 0
        /\ (\/ MoveWindow \/ Poke \/ Paint \/ Mix \/ MixIn \/ Delete \/ Insert \/ Extend
            \/ Swap \/ Turn \/ Trim \/ Ask)

Spec == Init /\ [][Next]_vars
-----------------------------------------------------------------------------
(* Properties *)

TypeOK == Formed(m) /\ Formed(b) /\ calls \in Nat

Ones(x) == {p \in Places(x) : Bit(x, p[1], p[2])}

(* The number that row r is when its columns are taken in some order, the  *)
(* most significant first: from the highest, or from the lowest.           *)
Value(x, r, columns) ==
  LET upto[k \in 0 .. x.cols] ==
        IF k = 0 THEN 0 ELSE 2 * upto[k - 1] + (IF Bit(x, r, columns[k]) THEN 1 ELSE 0)
  IN  upto[x.cols]
Number(x, r) == Value(x, r, [k \in 1 .. x.cols |-> x.cols - k])
NumberLow(x, r) == Value(x, r, [k \in 1 .. x.cols |-> k - 1])

(* What is read of the window in longs is what is read of its cells: the   *)
(* comparisons and counts of BinaryMatrix, asked of matrices of one size,  *)
(* tell of the bits in the window and of nothing else in memory.           *)
AnswersRight ==
  /\ call[1] = "count" => result = Cardinality(Ones(m))
  /\ SameSize(m, b) =>
       /\ call[1] = "==" => result = (Ones(m) = Ones(b))
       /\ call[1] = ">=" => result = (Ones(b) \subseteq Ones(m))
       /\ call[1] = "match" => result = Cardinality(Differ(Ones(m), Ones(b)))
       /\ call[1] = "logicAnd" => result = (Ones(m) \cap Ones(b) # {})
       /\ call[1] = "rowTest" =>
            LET row == Number(m, call[2]) other == Number(b, 0)
            IN  result = IF row > other THEN -1 ELSE IF row < other THEN 1 ELSE 0
       /\ call[1] = "rowEqualTo" => result = (Number(m, call[2]) = Number(b, 0))
       /\ call[1] = "rowGreaterThan" /\ m.cols < WordBits =>
            result = (NumberLow(m, call[2]) > NumberLow(b, 0))

Cells(x) ==
  [rows |-> x.rows, cols |-> x.cols, ro |-> x.ro, co |-> x.co, arows |-> x.arows,
   acols |-> x.acols,
   on |-> {q \in (0 .. x.arows - 1) \X (0 .. x.acols - 1) :
             q[2] % WordBits \in x.mem[q[1]][q[2] \div WordBits]}]

(* Words, masks and copies within one allocation do to the cells what the  *)
(* operations promise: the window changes as told, the cells around it do  *)
(* not.                                                                    *)
Grid == INSTANCE CellGrid WITH m <- Cells(m), b <- Cells(b)
CellsAsPromised == Grid!GridSpec
=============================================================================
