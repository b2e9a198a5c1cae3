----------------------------- MODULE SearchProofs -----------------------------
(***************************************************************************)
(* Theorems about the searches on grids of any size: what a flood fills    *)
(* and how often it looks at a cell, where a boundary lies, and that       *)
(* growing the edge of a region is growing all of it; and about the list   *)
(* of rows.                                                                *)
(***************************************************************************)
EXTENDS GridSearch, OrderedRows, TLAPS, FiniteSetTheorems, WellFoundedInduction, SequenceTheorems

(* Induction over a set of numbers. *)
LEMMA AllNumbers ==
  ASSUME NEW S, 0 \in S, \A n \in Nat : n \in S => n + 1 \in S
  PROVE  Nat \subseteq S
<1> SUFFICES ASSUME Nat \ S # {} PROVE FALSE
  OBVIOUS
<1>1. PICK i \in Nat \ S : \A j \in Nat \ S : ~(<<j, i>> \in OpToRel(<, Nat))
  BY WFMin, NatLessThanWellFounded
<1>2. \A j \in Nat \ S : ~(j < i)
  BY <1>1 DEF OpToRel
<1>3. i # 0 /\ i - 1 \in Nat /\ i - 1 < i
  OBVIOUS
<1>4. i - 1 \in S
  BY <1>2, <1>3
<1> QED BY <1>3, <1>4
-----------------------------------------------------------------------------
(* The neighbours of a cell.                                               *)

(* A step changes a row or a column by one. *)
LEMMA RoundIs ==
  ASSUME NEW i \in 1 .. 8
  PROVE  /\ Round[i][1] \in -1 .. 1 /\ Round[i][2] \in -1 .. 1
         /\ Round[i][1] # 0 \/ Round[i][2] # 0
BY DEF Round

(* No step is taken twice. *)
LEMMA RoundDistinct ==
  ASSUME NEW i \in 1 .. 8, NEW j \in 1 .. 8, i # j
  PROVE  Round[i][1] # Round[j][1] \/ Round[i][2] # Round[j][2]
BY DEF Round

(* Every step can be taken back. *)
LEMMA RoundBack ==
  ASSUME NEW n \in {4, 8}, NEW i \in 1 .. n
  PROVE  \E j \in 1 .. n : Round[i][1] + Round[j][1] = 0 /\ Round[i][2] + Round[j][2] = 0
<1> DEFINE B(j) == Round[i][1] + Round[j][1] = 0 /\ Round[i][2] + Round[j][2] = 0
<1>1. n = 4 \/ n = 8
  OBVIOUS
<1>2. i = 1 => B(2)
  BY DEF Round
<1>3. i = 2 => B(1)
  BY DEF Round
<1>4. i = 3 => B(4)
  BY DEF Round
<1>5. i = 4 => B(3)
  BY DEF Round
<1>6. (i = 5 => B(7)) /\ (i = 7 => B(5))
  BY DEF Round
<1>7. (i = 6 => B(8)) /\ (i = 8 => B(6))
  BY DEF Round
<1> HIDE DEF B
<1>8. \E j \in 1 .. n : B(j)
  BY <1>1, <1>2, <1>3, <1>4, <1>5, <1>6, <1>7
<1> QED BY <1>8 DEF B

(* A cell is its row and its column. *)
LEMMA CellIs ==
  ASSUME NEW p \in All
  PROVE  /\ p[1] \in 0 .. Rows - 1 /\ p[2] \in 0 .. Columns - 1
         /\ p[1] \in Int /\ p[2] \in Int /\ p = <<p[1], p[2]>>
<1>1. p \in (0 .. Rows - 1) \X (0 .. Columns - 1)
  BY DEF All
<1> HIDE DEF All
<1> QED BY <1>1, GridAssumption

(* The neighbours are mutual, and no cell is its own. *)
LEMMA Mutual ==
  ASSUME NEW n \in {4, 8}, NEW p \in All, NEW q \in Neighbours(p, n)
  PROVE  q \in All /\ p \in Neighbours(q, n) /\ q # p
<1>1. PICK i \in 1 .. n : q = Add(p, Round[i])
  BY DEF Neighbours
<1>2. q \in All /\ i \in 1 .. 8
  BY DEF Neighbours
<1>3. PICK j \in 1 .. n : Round[i][1] + Round[j][1] = 0 /\ Round[i][2] + Round[j][2] = 0
  BY RoundBack
<1>4. /\ Round[i][1] \in Int /\ Round[i][2] \in Int
      /\ Round[j][1] \in Int /\ Round[j][2] \in Int
  <2>1. j \in 1 .. 8
    OBVIOUS
  <2> QED BY <1>2, <2>1, RoundIs
<1>5. q[1] = p[1] + Round[i][1] /\ q[2] = p[2] + Round[i][2]
  BY <1>1 DEF Add
<1>6. p[1] \in Int /\ p[2] \in Int /\ p = <<p[1], p[2]>>
  BY CellIs
<1>7. Add(q, Round[j]) = p
  BY <1>3, <1>4, <1>5, <1>6 DEF Add
<1>8. p \in Neighbours(q, n)
  BY <1>7 DEF Neighbours
<1>9. q # p
  BY <1>2, <1>5, <1>6, RoundIs
<1> QED BY <1>2, <1>8, <1>9
-----------------------------------------------------------------------------
(* The open cells round a cell.                                            *)

(* One place of the round is looked at. *)
Gather(v, p, i) == IF Open(Add(p, Round[i])) THEN Append(v, Add(p, Round[i])) ELSE v

(* The cells that are found in it up to the i-th. *)
OpenTo(p, i) == {q \in {Add(p, Round[j]) : j \in 1 .. i} : Open(q)}

(* OpenRound goes round in as many steps as there are neighbours. *)
LEMMA GoesRound ==
  ASSUME NEW p, top \in Nat
  PROVE  \E found : /\ found[0] = <<>>
                    /\ \A i \in 1 .. top : found[i] = Gather(found[i - 1], p, i)
                    /\ OpenRound(p) = found[top]
<1> DEFINE Is(f, n) == f = [i \in 0 .. n |-> IF i = 0 THEN <<>> ELSE Gather(f[i - 1], p, i)]
           S == {n \in Nat : \E f : Is(f, n)}
<1>1. 0 \in S
  <2> DEFINE f == [i \in 0 .. 0 |-> <<>>]
  <2>1. Is(f, 0)
    BY \A i \in 0 .. 0 : i = 0
  <2> QED BY <2>1
<1>2. ASSUME NEW n \in Nat, n \in S PROVE n + 1 \in S
  <2>1. PICK g : Is(g, n)
    BY <1>2
  <2> DEFINE f == [i \in 0 .. n + 1 |-> IF i = n + 1 THEN Gather(g[n], p, i) ELSE g[i]]
  <2>2. \A i \in 0 .. n : g[i] = IF i = 0 THEN <<>> ELSE Gather(g[i - 1], p, i)
    BY <2>1
  <2>3. ASSUME NEW i \in 0 .. n + 1
        PROVE  f[i] = IF i = 0 THEN <<>> ELSE Gather(f[i - 1], p, i)
    <3>1. CASE i = n + 1
      <4>1. i # 0 /\ i - 1 = n /\ n \in 0 .. n + 1 /\ n # n + 1
        BY <3>1
      <4>2. f[i] = Gather(g[n], p, i) /\ f[i - 1] = g[n]
        BY <3>1, <4>1
      <4> QED BY <4>1, <4>2
    <3>2. CASE i # n + 1
      <4>1. i \in 0 .. n
        BY <3>2
      <4>2. i # 0 => i - 1 \in 0 .. n + 1 /\ i - 1 # n + 1
        BY <3>2
      <4>3. f[i] = g[i] /\ (i # 0 => f[i - 1] = g[i - 1])
        BY <3>2, <4>2
      <4> QED BY <2>2, <4>1, <4>3
    <3> QED BY <3>1, <3>2
  <2>4. Is(f, n + 1)
    <3>1. f = [i \in 0 .. n + 1 |-> f[i]]
      OBVIOUS
    <3> HIDE DEF f
    <3> QED BY <2>3, <3>1
  <2>5. n + 1 \in Nat
    OBVIOUS
  <2> QED BY <2>4, <2>5
<1>3. top \in S
  <2> HIDE DEF S
  <2> QED BY <1>1, <1>2, AllNumbers
<1> DEFINE found == CHOOSE f : Is(f, top)
<1>4. Is(found, top)
  BY <1>3
<1>5. OpenRound(p) = found[top]
  BY DEF OpenRound, Gather
<1> HIDE DEF found
<1>6. \A i \in 0 .. top : found[i] = IF i = 0 THEN <<>> ELSE Gather(found[i - 1], p, i)
  BY <1>4
<1> QED BY <1>5, <1>6

(* One more place adds its cell, if that is open, and no cell twice. *)
LEMMA GatherIs ==
  ASSUME NEW p \in All, NEW i \in 1 .. 8, NEW v \in Seq(All),
         ToSet(v) = OpenTo(p, i - 1), Cardinality(ToSet(v)) = Len(v), IsFiniteSet(ToSet(v))
  PROVE  /\ Gather(v, p, i) \in Seq(All)
         /\ ToSet(Gather(v, p, i)) = OpenTo(p, i)
         /\ Cardinality(ToSet(Gather(v, p, i))) = Len(Gather(v, p, i))
         /\ IsFiniteSet(ToSet(Gather(v, p, i)))
<1> DEFINE q == Add(p, Round[i])
<1>1. 1 .. i = (1 .. i - 1) \cup {i}
  OBVIOUS
<1>2. OpenTo(p, i) = IF Open(q) THEN OpenTo(p, i - 1) \cup {q} ELSE OpenTo(p, i - 1)
  BY <1>1 DEF OpenTo
<1>3. CASE ~Open(q)
  BY <1>2, <1>3 DEF Gather
<1>4. CASE Open(q)
  <2>1. q \in All
    BY <1>4 DEF Open
  <2>2. Gather(v, p, i) = Append(v, q)
    BY <1>4 DEF Gather
  <2>3. /\ Append(v, q) \in Seq(All) /\ Len(Append(v, q)) = Len(v) + 1
        /\ \A k \in 1 .. Len(v) : Append(v, q)[k] = v[k]
        /\ Append(v, q)[Len(v) + 1] = q
    <3> HIDE DEF q
    <3> QED BY <2>1, AppendProperties
  <2>4. ToSet(Append(v, q)) = ToSet(v) \cup {q}
    <3>1. Len(v) \in Nat /\ DOMAIN v = 1 .. Len(v) /\ DOMAIN Append(v, q) = 1 .. Len(v) + 1
      <4> HIDE DEF q
      <4> QED BY <2>3, LenProperties
    <3> HIDE DEF q
    <3>2. ToSet(Append(v, q)) = {Append(v, q)[k] : k \in 1 .. Len(v) + 1}
      BY <3>1 DEF ToSet
    <3>3. ToSet(v) = {v[k] : k \in 1 .. Len(v)}
      BY <3>1 DEF ToSet
    <3>4. 1 .. Len(v) + 1 = (1 .. Len(v)) \cup {Len(v) + 1}
      BY <3>1
    <3> QED BY <2>3, <3>1, <3>2, <3>3, <3>4
  <2>5. q \notin OpenTo(p, i - 1)
    <3>1. ASSUME NEW j \in 1 .. i - 1 PROVE Add(p, Round[j]) # q
      <4>1. j \in 1 .. 8 /\ i # j
        OBVIOUS
      <4>2. /\ Round[i][1] \in Int /\ Round[i][2] \in Int
            /\ Round[j][1] \in Int /\ Round[j][2] \in Int
        <5>1. \A m \in 1 .. 8 : Round[m][1] \in -1 .. 1 /\ Round[m][2] \in -1 .. 1
          BY RoundIs
        <5>2. -1 .. 1 \subseteq Int
          OBVIOUS
        <5>3. i \in 1 .. 8 /\ j \in 1 .. 8
          BY <4>1
        <5> QED BY ONLY <5>1, <5>2, <5>3
      <4>3. Round[i][1] # Round[j][1] \/ Round[i][2] # Round[j][2]
        BY <4>1, RoundDistinct
      <4>4. p[1] \in Int /\ p[2] \in Int
        BY CellIs
      <4> QED BY <4>2, <4>3, <4>4, SMTT(30) DEF Add
    <3> HIDE DEF q
    <3> QED BY <3>1 DEF OpenTo
  <2>6. /\ Cardinality(ToSet(v) \cup {q}) = Len(v) + 1
        /\ IsFiniteSet(ToSet(v) \cup {q})
    <3> HIDE DEF q
    <3> QED BY <2>5, FS_AddElement
  <2> QED BY <1>2, <1>4, <2>2, <2>3, <2>4, <2>6
<1> QED BY <1>3, <1>4

(* Just the open neighbours are queued, each once. *)
LEMMA OpenRoundIs ==
  ASSUME NEW p \in All, top \in {4, 8}
  PROVE  /\ OpenRound(p) \in Seq(All)
         /\ ToSet(OpenRound(p)) = {q \in Neighbours(p, top) : Open(q)}
         /\ Cardinality(ToSet(OpenRound(p))) = Len(OpenRound(p))
         /\ IsFiniteSet(ToSet(OpenRound(p)))
<1> DEFINE Good(v, i) == /\ v \in Seq(All) /\ ToSet(v) = OpenTo(p, i)
                         /\ Cardinality(ToSet(v)) = Len(v) /\ IsFiniteSet(ToSet(v))
<1>1. PICK found : /\ found[0] = <<>>
                   /\ \A i \in 1 .. top : found[i] = Gather(found[i - 1], p, i)
                   /\ OpenRound(p) = found[top]
  BY GoesRound
<1> DEFINE S == {i \in Nat : i <= top => Good(found[i], i)}
<1>2. 0 \in S
  <2>1. <<>> \in Seq(All) /\ Len(<<>>) = 0
    OBVIOUS
  <2>2. ToSet(<<>>) = {} /\ OpenTo(p, 0) = {}
    BY DEF ToSet, OpenTo
  <2> QED BY <1>1, <2>1, <2>2, FS_EmptySet
<1>3. ASSUME NEW i \in Nat, i \in S PROVE i + 1 \in S
  <2>1. CASE i + 1 <= top
    <3>1. Good(found[i], i) /\ i + 1 \in 1 .. 8 /\ i + 1 \in 1 .. top /\ (i + 1) - 1 = i
      BY <1>3, <2>1
    <3>2. found[i + 1] = Gather(found[i], p, i + 1)
      BY <1>1, <3>1
    <3>3. Good(Gather(found[i], p, i + 1), i + 1)
      BY <3>1, GatherIs
    <3> QED BY <3>2, <3>3
  <2> QED BY <2>1
<1>4. top \in S
  <2> HIDE DEF S
  <2> QED BY <1>2, <1>3, AllNumbers
<1>5. Good(OpenRound(p), top)
  BY <1>1, <1>4
<1>6. OpenTo(p, top) = {q \in Neighbours(p, top) : Open(q)}
  BY DEF OpenTo, Neighbours, Open
<1> QED BY <1>5, <1>6
-----------------------------------------------------------------------------
(* What can be reached from the seed.                                      *)

(* Rows and columns count from 0; the cells of a grid are finitely many.   *)
LEMMA RowCount ==
  ASSUME NEW n \in Nat
  PROVE  IsFiniteSet(0 .. n - 1) /\ Cardinality(0 .. n - 1) = n
<1>1. n - 1 \in Int /\ 0 \in Int
  OBVIOUS
<1>2. /\ IsFiniteSet(0 .. n - 1)
      /\ Cardinality(0 .. n - 1) = IF 0 > n - 1 THEN 0 ELSE (n - 1) - 0 + 1
  <2> DEFINE b == n - 1
  <2>1. b \in Int
    BY <1>1
  <2> HIDE DEF b
  <2>2. IsFiniteSet(0 .. b) /\ Cardinality(0 .. b) = IF 0 > b THEN 0 ELSE b - 0 + 1
    BY <1>1, <2>1, FS_Interval
  <2> QED BY <2>2 DEF b
<1> QED BY <1>2

LEMMA AllIsFinite == IsFiniteSet(All) /\ Cardinality(All) = Rows * Columns
<1> DEFINE R == 0 .. Rows - 1
           C == 0 .. Columns - 1
<1>1. /\ IsFiniteSet(R) /\ Cardinality(R) = Rows
      /\ IsFiniteSet(C) /\ Cardinality(C) = Columns
  BY GridAssumption, RowCount
<1>2. All = R \X C
  BY DEF All
<1> HIDE DEF R, C
<1>3. /\ IsFiniteSet(R \X C)
      /\ Cardinality(R \X C) = Cardinality(R) * Cardinality(C)
  BY ONLY <1>1, FS_Product
<1> QED BY <1>1, <1>2, <1>3

(* A product of sizes is a size. *)
LEMMA Sized == Rows * Columns \in Nat
BY AllIsFinite, FS_CardinalityType

(* Reached goes further from the seed once for every cell there is. *)
LEMMA GoesFurther ==
  \E reach : /\ reach[0] = {op[2]}
             /\ \A n \in 1 .. Rows * Columns : reach[n] = Further(reach[n - 1])
             /\ Reached = reach[Rows * Columns]
<1> DEFINE Is(f, n) == f = [i \in 0 .. n |-> IF i = 0 THEN {op[2]} ELSE Further(f[i - 1])]
           S == {n \in Nat : \E f : Is(f, n)}
<1>1. 0 \in S
  <2> DEFINE f == [i \in 0 .. 0 |-> {op[2]}]
  <2>1. Is(f, 0)
    BY \A i \in 0 .. 0 : i = 0
  <2> QED BY <2>1
<1>2. ASSUME NEW n \in Nat, n \in S PROVE n + 1 \in S
  <2>1. PICK g : Is(g, n)
    BY <1>2
  <2> DEFINE f == [i \in 0 .. n + 1 |-> IF i = n + 1 THEN Further(g[n]) ELSE g[i]]
  <2>2. \A i \in 0 .. n : g[i] = IF i = 0 THEN {op[2]} ELSE Further(g[i - 1])
    BY <2>1
  <2>3. ASSUME NEW i \in 0 .. n + 1
        PROVE  f[i] = IF i = 0 THEN {op[2]} ELSE Further(f[i - 1])
    <3>1. CASE i = n + 1
      <4>1. i # 0 /\ i - 1 = n /\ n \in 0 .. n + 1 /\ n # n + 1
        BY <3>1
      <4>2. f[i] = Further(g[n]) /\ f[i - 1] = g[n]
        BY <3>1, <4>1
      <4> QED BY <4>1, <4>2
    <3>2. CASE i # n + 1
      <4>1. i \in 0 .. n
        BY <3>2
      <4>2. i # 0 => i - 1 \in 0 .. n + 1 /\ i - 1 # n + 1
        BY <3>2
      <4>3. f[i] = g[i] /\ (i # 0 => f[i - 1] = g[i - 1])
        BY <3>2, <4>2
      <4> QED BY <2>2, <4>1, <4>3
    <3> QED BY <3>1, <3>2
  <2>4. Is(f, n + 1)
    <3>1. f = [i \in 0 .. n + 1 |-> f[i]]
      OBVIOUS
    <3> HIDE DEF f
    <3> QED BY <2>3, <3>1
  <2>5. n + 1 \in Nat
    OBVIOUS
  <2> QED BY <2>4, <2>5
<1> DEFINE N == Rows * Columns
<1>3. N \in S
  <2> HIDE DEF S
  <2> QED BY <1>1, <1>2, AllNumbers, Sized
<1> DEFINE reach == CHOOSE f : Is(f, N)
<1>4. Is(reach, N)
  BY <1>3
<1>5. Reached = reach[N]
  BY DEF Reached
<1> HIDE DEF reach
<1>6. \A i \in 0 .. N : reach[i] = IF i = 0 THEN {op[2]} ELSE Further(reach[i - 1])
  BY <1>4
<1>7. N \in Nat
  BY Sized
<1> HIDE DEF N
<1>8. /\ reach[0] = {op[2]} /\ \A n \in 1 .. N : reach[n] = Further(reach[n - 1])
  BY <1>6, <1>7
<1> QED BY <1>5, <1>8 DEF N

(* A set that has the seed, and with a cell its free neighbours. *)
Closed(S) == op[2] \in S /\ Further(S) \subseteq S

(* That is often enough: what is reached is the least closed set.          *)
LEMMA ReachedIs ==
  ASSUME op[2] \in All
  PROVE  /\ Reached \subseteq All /\ Closed(Reached)
         /\ \A S : Closed(S) => Reached \subseteq S
<1> DEFINE N == Rows * Columns
<1>1. N \in Nat
  BY Sized
<1>2. PICK reach : /\ reach[0] = {op[2]}
                   /\ \A n \in 1 .. N : reach[n] = Further(reach[n - 1])
                   /\ Reached = reach[N]
  BY GoesFurther
<1>3. IsFiniteSet(All) /\ Cardinality(All) = N
  BY AllIsFinite
<1> HIDE DEF N
<1> DEFINE Grows(n) ==
             /\ reach[n] \subseteq All /\ op[2] \in reach[n]
             /\ Further(reach[n]) = reach[n] \/ Cardinality(reach[n]) >= n + 1
           G == {n \in Nat : n <= N => Grows(n)}
<1>4. 0 \in G
  <2>1. Cardinality({op[2]}) = 1
    BY FS_Singleton
  <2> QED BY <1>2, <2>1
<1>5. ASSUME NEW n \in Nat, n \in G PROVE n + 1 \in G
  <2>1. CASE n + 1 <= N
    <3>1. Grows(n) /\ n + 1 \in 1 .. N /\ (n + 1) - 1 = n
      BY <1>1, <1>5, <2>1
    <3>2. reach[n + 1] = Further(reach[n])
      BY <1>2, <3>1
    <3>3. reach[n] \subseteq Further(reach[n]) /\ Further(reach[n]) \subseteq All
      BY <3>1 DEF Further, Free
    <3>4. CASE Further(reach[n]) = reach[n]
      BY <3>1, <3>2, <3>4
    <3>5. CASE Further(reach[n]) # reach[n]
      <4>1. Cardinality(reach[n]) >= n + 1
        BY <3>1, <3>5
      <4>2. IsFiniteSet(Further(reach[n]))
        BY <1>3, <3>3, FS_Subset
      <4>3. /\ Cardinality(reach[n]) <= Cardinality(Further(reach[n]))
            /\ Cardinality(reach[n]) # Cardinality(Further(reach[n]))
            /\ IsFiniteSet(reach[n])
        BY <3>3, <3>5, <4>2, FS_Subset
      <4>4. Cardinality(reach[n]) \in Nat /\ Cardinality(Further(reach[n])) \in Nat
        BY <4>2, <4>3, FS_CardinalityType
      <4>5. Cardinality(Further(reach[n])) >= (n + 1) + 1
        BY <4>1, <4>3, <4>4
      <4> QED BY <3>1, <3>2, <3>3, <4>5
    <3> QED BY <3>4, <3>5
  <2> QED BY <2>1
<1>6. Grows(N)
  <2>1. N \in G
    <3> HIDE DEF G
    <3> QED BY <1>1, <1>4, <1>5, AllNumbers
  <2> QED BY <1>1, <2>1
<1>7. Further(reach[N]) = reach[N]
  <2>1. Cardinality(reach[N]) <= N
    BY <1>3, <1>6, FS_Subset
  <2>2. Cardinality(reach[N]) \in Nat
    <3>1. IsFiniteSet(reach[N])
      BY <1>3, <1>6, FS_Subset
    <3> QED BY <3>1, FS_CardinalityType
  <2> QED BY <1>1, <1>6, <2>1, <2>2
<1>8. ASSUME NEW S, Closed(S) PROVE reach[N] \subseteq S
  <2> DEFINE H == {n \in Nat : n <= N => reach[n] \subseteq S}
  <2>1. 0 \in H
    BY <1>2, <1>8 DEF Closed
  <2>2. ASSUME NEW n \in Nat, n \in H PROVE n + 1 \in H
    <3>1. CASE n + 1 <= N
      <4>1. n + 1 \in 1 .. N /\ (n + 1) - 1 = n /\ reach[n] \subseteq S
        BY <1>1, <2>2, <3>1
      <4>2. reach[n + 1] = Further(reach[n])
        BY <1>2, <4>1
      <4>3. Further(reach[n]) \subseteq Further(S)
        BY <4>1 DEF Further
      <4> QED BY <1>8, <4>2, <4>3 DEF Closed
    <3> QED BY <3>1
  <2>3. N \in H
    <3> HIDE DEF H
    <3> QED BY <1>1, <2>1, <2>2, AllNumbers
  <2> QED BY <1>1, <2>3
<1>9. Closed(reach[N])
  BY <1>6, <1>7 DEF Closed
<1> QED BY <1>2, <1>6, <1>8, <1>9
-----------------------------------------------------------------------------
(* Floods.                                                                 *)

Typed ==
  /\ grid \subseteq All /\ visited \subseteq All
  /\ top \in {4, 8} /\ cells \in Seq(All) /\ count \in Nat /\ own \in BOOLEAN
  /\ ~Flood => cells = <<>>

(* What a flood has done: nothing but cells it may go to, which every set  *)
(* closed under free neighbours has; and a cell it filled either waits in  *)
(* the queue or has had its neighbours filled.                             *)
Flooding ==
  /\ op[2] \in All /\ Start \subseteq visited
  /\ own => grid = visited
  /\ ToSet(cells) \subseteq Filled \cup {op[2]}
  /\ \A q \in (Filled \cup {op[2]}) \ ToSet(cells) :
       Neighbours(q, top) \cap Free \subseteq visited
  /\ Filled # {} => Neighbours(op[2], top) \cap Filled # {}
  /\ \A S \in SUBSET All : Closed(S) => Filled \subseteq S

FloodInv == Typed /\ (Flood => Flooding) /\ QueuedOnce

(* A flood begins with its seed in the queue and nothing filled.           *)
LEMMA BeginsFlood ==
  ASSUME Typed, NEW seed \in All, NEW n \in {4, 8}, Begin(seed, n),
         visited' \subseteq All, op' = <<"flood", seed, visited'>>,
         own' \in BOOLEAN, own' => grid' = visited'
  PROVE  FloodInv'
<1>1. /\ grid' = grid /\ cells' = <<seed>> /\ top' = n /\ count' = 0
  BY DEF Begin
<1>2. <<seed>> \in Seq(All) /\ Len(<<seed>>) = 1 /\ ToSet(<<seed>>) = {seed}
  BY DEF ToSet
<1>3. op'[1] = "flood" /\ op'[2] = seed /\ op'[3] = visited'
  OBVIOUS
<1>4. Filled' = {} /\ Start' = visited'
  BY <1>3 DEF Filled, Start
<1>5. Typed'
  BY <1>1, <1>2, <1>3 DEF Typed, Flood
<1>6. Flooding'
  BY <1>1, <1>2, <1>3, <1>4 DEF Flooding
<1>7. QueuedOnce'
  BY <1>1, <1>2, <1>4, FS_EmptySet DEF QueuedOnce
<1> QED BY <1>5, <1>6, <1>7 DEF FloodInv

LEMMA ClusterGrowthKeeps == FloodInv /\ ClusterGrowth => FloodInv'
<1> SUFFICES ASSUME FloodInv, NEW seed \in All, NEW n \in {4, 8}, NEW w \in Given,
                    Begin(seed, n), visited' = w, own' = FALSE, op' = <<"flood", seed, w>>
             PROVE  FloodInv'
  BY DEF ClusterGrowth
<1>1. w \subseteq All
  BY GridAssumption
<1> QED BY <1>1, BeginsFlood DEF FloodInv

LEMMA ClusterKeeps == FloodInv /\ Cluster => FloodInv'
<1> SUFFICES ASSUME FloodInv, NEW seed \in All,
                    Begin(seed, 4), visited' = grid, own' = TRUE,
                    op' = <<"flood", seed, grid>>
             PROVE  FloodInv'
  BY DEF Cluster
<1>1. grid' = grid /\ grid \subseteq All
  BY DEF Begin, FloodInv, Typed
<1> QED BY <1>1, BeginsFlood DEF FloodInv

(* What does not touch the flood, where there is none. *)
LEMMA OthersKeep ==
  ASSUME FloodInv, op[1] = "none", op'[1] # "flood",
         UNCHANGED <<grid, visited, own, cells, top, count>>
  PROVE  FloodInv'
<1>1. cells = <<>> /\ Typed
  BY DEF FloodInv, Typed, Flood
<1>2. Typed'
  BY <1>1 DEF Typed, Flood
<1> QED BY <1>2 DEF FloodInv, QueuedOnce, Flood

(* The first of the queue and the rest are its cells. *)
LEMMA QueueSplits ==
  ASSUME NEW c \in Seq(All), c # <<>>, NEW d \in Seq(All)
  PROVE  /\ Head(c) \in All /\ ToSet(c) = {Head(c)} \cup ToSet(Tail(c))
         /\ Tail(c) \o d \in Seq(All) /\ Len(Tail(c) \o d) = Len(c) - 1 + Len(d)
         /\ ToSet(Tail(c) \o d) = ToSet(Tail(c)) \cup ToSet(d)
<1>1. /\ Head(c) = c[1] /\ Head(c) \in All
      /\ Tail(c) \in Seq(All) /\ Len(Tail(c)) = Len(c) - 1
      /\ \A i \in 1 .. Len(Tail(c)) : Tail(c)[i] = c[i + 1]
  BY HeadTailProperties
<1>2. Len(c) \in Nat /\ Len(c) # 0 /\ Len(d) \in Nat
  BY EmptySeq, LenProperties
<1>3. ToSet(c) = {c[i] : i \in 1 .. Len(c)}
  BY LenProperties DEF ToSet
<1> DEFINE t == Tail(c)
<1>4. ToSet(t) = {t[i] : i \in 1 .. Len(t)} /\ ToSet(d) = {d[i] : i \in 1 .. Len(d)}
  BY <1>1, LenProperties DEF ToSet
<1>5. /\ t \o d \in Seq(All) /\ Len(t \o d) = Len(t) + Len(d)
      /\ \A i \in 1 .. Len(t) + Len(d) :
           (t \o d)[i] = IF i <= Len(t) THEN t[i] ELSE d[i - Len(t)]
  BY <1>1, ConcatProperties
<1>6. ToSet(t \o d) = {(t \o d)[i] : i \in 1 .. Len(t) + Len(d)}
  BY <1>5, LenProperties DEF ToSet
<1>7. Len(t) \in Nat /\ Len(t) + 1 = Len(c) /\ \A i \in 1 .. Len(t) : t[i] = c[i + 1]
  BY <1>1, <1>2
<1> HIDE DEF t
<1>8. ToSet(c) = {Head(c)} \cup ToSet(t)
  <2>1. ASSUME NEW i \in 1 .. Len(c) PROVE c[i] \in {c[1]} \cup ToSet(t)
    <3>1. i = 1 \/ (i - 1 \in 1 .. Len(t) /\ t[i - 1] = c[i])
      BY <1>2, <1>7
    <3> QED BY <1>4, <3>1
  <2>2. ASSUME NEW i \in 1 .. Len(t) PROVE t[i] \in ToSet(c)
    BY <1>3, <1>7
  <2>3. c[1] \in ToSet(c)
    BY <1>2, <1>3
  <2> QED BY <1>1, <1>3, <1>4, <2>1, <2>2, <2>3
<1>9. ToSet(t \o d) = ToSet(t) \cup ToSet(d)
  <2>1. ASSUME NEW i \in 1 .. Len(t) + Len(d) PROVE (t \o d)[i] \in ToSet(t) \cup ToSet(d)
    <3>1. i \in 1 .. Len(t) \/ (~(i <= Len(t)) /\ i - Len(t) \in 1 .. Len(d))
      BY <1>2, <1>7
    <3> QED BY <1>4, <1>5, <3>1
  <2>2. ASSUME NEW i \in 1 .. Len(t) PROVE t[i] \in ToSet(t \o d)
    <3>1. i \in 1 .. Len(t) + Len(d) /\ i <= Len(t)
      BY <1>2, <1>7
    <3> QED BY <1>5, <1>6, <3>1
  <2>3. ASSUME NEW i \in 1 .. Len(d) PROVE d[i] \in ToSet(t \o d)
    <3>1. /\ i + Len(t) \in 1 .. Len(t) + Len(d) /\ ~(i + Len(t) <= Len(t))
          /\ (i + Len(t)) - Len(t) = i
      BY <1>2, <1>7
    <3> QED BY <1>5, <1>6, <3>1
  <2> QED BY <1>4, <1>6, <2>1, <2>2, <2>3
<1> QED BY <1>1, <1>2, <1>5, <1>7, <1>8, <1>9 DEF t

LEMMA GrowKeeps == FloodInv /\ GrowCluster => FloodInv'
<1> SUFFICES ASSUME FloodInv, GrowCluster PROVE FloodInv'
  OBVIOUS
<1> DEFINE p == Head(cells)
           new == OpenRound(p)
           M == ToSet(new)
<1>1. Typed /\ cells # <<>> /\ Flood /\ Flooding
  BY DEF FloodInv, Typed, GrowCluster
<1>2. /\ cells' = Tail(cells) \o new /\ visited' = visited \cup M
      /\ grid' = IF own THEN grid \cup M ELSE grid
      /\ count' = count + 1
      /\ own' = own /\ top' = top /\ op' = op
  BY DEF GrowCluster, Advance
<1>3. p \in All
  BY <1>1, QueueSplits DEF Typed
<1>4. /\ new \in Seq(All) /\ M = {q \in Neighbours(p, top) : Open(q)}
      /\ Cardinality(M) = Len(new) /\ IsFiniteSet(M)
  BY <1>1, <1>3, OpenRoundIs DEF Typed
<1>5. /\ ToSet(cells) = {p} \cup ToSet(Tail(cells))
      /\ cells' \in Seq(All) /\ Len(cells') = Len(cells) - 1 + Len(new)
      /\ ToSet(cells') = ToSet(Tail(cells)) \cup M
  BY <1>1, <1>2, <1>4, QueueSplits DEF Typed
<1> HIDE DEF p, new, M
<1>6. /\ Start' = Start /\ Flood' /\ Filled' = Filled \cup M
      /\ M \cap Filled = {} /\ M \subseteq All /\ M \cap visited = {} /\ M \cap grid = {}
  BY <1>1, <1>2, <1>4 DEF Start, Flood, Filled, Flooding, Open
<1>7. Free' = Free
  <2>1. grid' \ visited' = grid \ visited
    BY <1>1, <1>2, <1>6 DEF Flooding
  <2> QED BY <1>6, <2>1 DEF Free
<1>8. M = (Neighbours(p, top) \cap Free) \ visited
  <2>1. ASSUME NEW q PROVE Open(q) <=> q \in Free \ visited
    BY <1>1 DEF Open, Free, Flooding
  <2> QED BY <1>4, <2>1
<1>9. Typed'
  <2>1. Len(new) \in Nat
    BY <1>4, LenProperties
  <2> QED BY <1>1, <1>2, <1>5, <1>6 DEF Typed
<1>10. Flooding'
  <2>1. op'[2] \in All /\ Start' \subseteq visited' /\ (own' => grid' = visited')
    BY <1>1, <1>2, <1>6 DEF Flooding
  <2>2. ToSet(cells') \subseteq Filled' \cup {op'[2]}
    BY <1>1, <1>2, <1>5, <1>6 DEF Flooding
  <2>3. ASSUME NEW q \in (Filled' \cup {op'[2]}) \ ToSet(cells')
        PROVE  Neighbours(q, top') \cap Free' \subseteq visited'
    <3>1. q \in Filled \cup {op[2]} /\ (q = p \/ q \notin ToSet(cells))
      BY <1>2, <1>5, <1>6
    <3>2. CASE q = p
      BY <1>2, <1>7, <1>8, <3>2
    <3>3. CASE q \notin ToSet(cells)
      <4>1. Neighbours(q, top) \cap Free \subseteq visited
        BY <1>1, <3>1, <3>3 DEF Flooding
      <4> QED BY <1>2, <1>7, <4>1
    <3> QED BY <3>1, <3>2, <3>3
  <2>4. Filled' # {} => Neighbours(op'[2], top') \cap Filled' # {}
    <3>1. CASE Filled # {}
      BY <1>1, <1>2, <1>6, <3>1 DEF Flooding
    <3>2. CASE Filled = {} /\ M # {}
      <4>1. p = op[2]
        BY <1>1, <1>5, <3>2 DEF Flooding
      <4> QED BY <1>2, <1>6, <1>8, <3>2, <4>1
    <3> QED BY <1>6, <3>1, <3>2
  <2>5. ASSUME NEW S \in SUBSET All, Closed(S)' PROVE Filled' \subseteq S
    <3>1. op[2] \in S /\ S \cup {q \in Free : Neighbours(q, top) \cap S # {}} \subseteq S
      BY <1>2, <1>7, <2>5 DEF Closed, Further
    <3>2. Closed(S)
      BY <3>1 DEF Closed, Further
    <3>3. Filled \subseteq S /\ p \in S
      BY <1>1, <1>5, <3>1, <3>2 DEF Flooding
    <3>4. ASSUME NEW q \in M PROVE q \in S
      <4>1. q \in Free /\ q \in Neighbours(p, top)
        BY <1>8
      <4>2. p \in Neighbours(q, top)
        BY <1>1, <1>3, <4>1, Mutual DEF Typed
      <4> QED BY <3>1, <3>3, <4>1, <4>2
    <3> QED BY <1>6, <3>3, <3>4
  <2> QED BY <2>1, <2>2, <2>3, <2>4, <2>5 DEF Flooding
<1>11. QueuedOnce'
  <2>1. IsFiniteSet(Filled)
    <3>1. Filled \subseteq All
      BY <1>1 DEF Filled, Typed
    <3> QED BY <3>1, AllIsFinite, FS_Subset
  <2>2. Cardinality(Filled \cup M) = Cardinality(Filled) + Cardinality(M)
    <3>1. Cardinality(Filled \cap M) = 0
      <4>1. Filled \cap M = {}
        BY <1>6
      <4> QED BY <4>1, FS_EmptySet
    <3>2. Cardinality(Filled \cup M)
            = Cardinality(Filled) + Cardinality(M) - Cardinality(Filled \cap M)
      BY <1>4, <2>1, FS_Union
    <3>3. Cardinality(Filled) \in Nat /\ Cardinality(M) \in Nat
      BY <1>4, <2>1, FS_CardinalityType
    <3> QED BY <3>1, <3>2, <3>3
  <2>3. count + Len(cells) = Cardinality(Filled) + 1
    BY <1>1 DEF FloodInv, QueuedOnce, Flood
  <2>4. Len(cells) \in Nat /\ Len(new) \in Nat /\ count \in Nat /\ Cardinality(Filled) \in Nat
    BY <1>1, <1>4, <2>1, LenProperties, FS_CardinalityType DEF Typed
  <2>5. count' + Len(cells') = Cardinality(Filled') + 1
    <3>1. /\ count' = count + 1 /\ Len(cells') = Len(cells) - 1 + Len(new)
          /\ Cardinality(Filled') = Cardinality(Filled) + Len(new)
      BY <1>2, <1>4, <1>5, <1>6, <2>2
    <3> QED BY <2>3, <2>4, <3>1
  <2> QED BY <2>5 DEF QueuedOnce
<1> QED BY <1>9, <1>10, <1>11 DEF FloodInv

LEMMA InitFlood == SearchInit => FloodInv
<1> SUFFICES ASSUME SearchInit PROVE FloodInv
  OBVIOUS
<1>1. op[1] = "none" /\ cells = <<>> /\ visited = {}
  BY DEF SearchInit
<1>2. Typed
  <2>1. /\ grid \subseteq All /\ visited \subseteq All /\ top \in {4, 8}
        /\ count \in Nat /\ own \in BOOLEAN
    BY DEF SearchInit
  <2>2. cells \in Seq(All)
    BY <1>1
  <2> QED BY <1>1, <2>1, <2>2 DEF Typed
<1> QED BY <1>1, <1>2 DEF FloodInv, QueuedOnce, Flood

LEMMA StepFloods == FloodInv /\ [SearchNext]_searchVars => FloodInv'
<1> SUFFICES ASSUME FloodInv, [SearchNext]_searchVars PROVE FloodInv'
  OBVIOUS
<1>1. CASE ClusterGrowth
  BY <1>1, ClusterGrowthKeeps
<1>2. CASE Cluster
  BY <1>2, ClusterKeeps
<1>3. CASE op[1] = "none" /\ Boundary
  <2>1. op'[1] = "boundary" /\ UNCHANGED <<grid, visited, own, cells, top, count>>
    BY <1>3 DEF Boundary
  <2> QED BY <1>3, <2>1, OthersKeep
<1>4. CASE op[1] = "none" /\ GrowInto
  <2>1. op'[1] = "growInto" /\ UNCHANGED <<grid, visited, own, cells, top, count>>
    BY <1>4 DEF GrowInto
  <2> QED BY <1>4, <2>1, OthersKeep
<1>5. CASE GrowCluster
  BY <1>5, GrowKeeps
<1>6. CASE UNCHANGED searchVars
  <2>1. /\ UNCHANGED <<grid, visited, own, cells, top, count, op>>
    BY <1>6 DEF searchVars
  <2>2. /\ Filled' = Filled /\ Start' = Start /\ Free' = Free /\ (Flood' <=> Flood)
    BY <2>1 DEF Filled, Start, Free, Flood
  <2>3. ASSUME NEW S \in SUBSET All, Closed(S)' PROVE Closed(S)
    BY <2>1, <2>2, <2>3 DEF Closed, Further
  <2>4. Flooding => Flooding'
    BY <2>1, <2>2, <2>3 DEF Flooding
  <2>5. Typed' /\ QueuedOnce'
    BY <2>1, <2>2 DEF FloodInv, Typed, QueuedOnce, Flood
  <2> QED BY <2>2, <2>4, <2>5 DEF FloodInv
<1> QED BY <1>1, <1>2, <1>3, <1>4, <1>5, <1>6 DEF SearchNext

(* When the queue is empty, the seed and what was filled are closed, and   *)
(* the least set that is.                                                  *)
LEMMA FillsRegion == FloodInv => RegionFilled
<1> DEFINE seed == op[2]
           D == Filled \cup {seed}
<1> SUFFICES ASSUME FloodInv, Flood, cells = <<>>
             PROVE  /\ Filled \ {seed} = (Reached \cap Free) \ {seed}
                    /\ seed \in Filled <=> seed \in Free /\ Neighbours(seed, top) \cap Free # {}
  BY DEF RegionFilled
<1>1. Typed /\ Flooding
  BY DEF FloodInv
<1>2. ToSet(cells) = {}
  BY DEF ToSet
<1>3. seed \in All /\ Filled \subseteq Free /\ Free \subseteq All
  BY <1>1 DEF Flooding, Filled, Free, Typed
<1>4. \A q \in D : Neighbours(q, top) \cap Free \subseteq visited
  BY <1>1, <1>2 DEF Flooding
<1>5. Free \cap visited \subseteq Filled
  BY DEF Free, Filled
<1>6. Closed(D)
  <2>1. ASSUME NEW q \in Free, NEW r \in Neighbours(q, top) \cap D PROVE q \in Filled
    <3>1. q \in All /\ top \in {4, 8}
      BY <1>1, <1>3 DEF Typed
    <3>2. q \in Neighbours(r, top)
      BY <2>1, <3>1, Mutual
    <3> QED BY <1>4, <1>5, <2>1, <3>2
  <2> QED BY <2>1 DEF Closed, Further
<1>7. Reached \subseteq All /\ Closed(Reached) /\ Reached \subseteq D
  BY <1>3, <1>6, ReachedIs
<1>8. Filled \subseteq Reached
  BY <1>1, <1>7 DEF Flooding
<1>9. Filled \ {seed} = (Reached \cap Free) \ {seed}
  BY <1>3, <1>7, <1>8
<1>10. ASSUME seed \in Filled
       PROVE  seed \in Free /\ Neighbours(seed, top) \cap Free # {}
  <2>1. Neighbours(seed, top) \cap Filled # {}
    BY <1>1, <1>10 DEF Flooding
  <2> QED BY <1>3, <1>10, <2>1
<1>11. ASSUME seed \in Free, NEW r \in Neighbours(seed, top) \cap Free
       PROVE  seed \in Filled
  <2>1. r \in Filled
    BY <1>4, <1>5
  <2>2. top \in {4, 8}
    BY <1>1 DEF Typed
  <2>3. seed \in Neighbours(r, top)
    BY <1>3, <2>2, Mutual
  <2> QED BY <1>4, <1>5, <1>11, <2>1, <2>3
<1> QED BY <1>9, <1>10, <1>11

LEMMA FloodsHold == SearchSpec => []FloodInv
BY InitFlood, StepFloods, PTL DEF SearchSpec

(* clusterGrowth and cluster: a flood fills just the region of its seed,   *)
(* on a grid of any size, with any walls and to four neighbours or eight.  *)
THEOREM FloodFillsRegion == SearchSpec => []RegionFilled
BY FloodsHold, FillsRegion, PTL

(* clusterGrowth: no cell goes through the queue twice but the seed, so    *)
(* that a flood takes at most one step more than the grid has cells.       *)
THEOREM CellsQueuedOnce == SearchSpec => []QueuedOnce
<1>1. FloodInv => QueuedOnce
  BY DEF FloodInv
<1> QED BY <1>1, FloodsHold, PTL
-----------------------------------------------------------------------------
(* Boundaries.                                                             *)

(* Where the negated matrix is moved to is round the cell, and with four   *)
(* neighbours all that is.                                                 *)
LEMMA ShiftsAre ==
  /\ \A n \in {4, 8} : \A d \in Shifts(n) : \E i \in 1 .. n : Round[i] = d
  /\ \A i \in 1 .. 4 : Round[i] \in Shifts(4)
<1>1. /\ Round[1] = <<-1, 0>> /\ Round[2] = <<1, 0>>
      /\ Round[3] = <<0, -1>> /\ Round[4] = <<0, 1>>
  BY DEF Round
<1>2. Round[5] = <<1, 1>> /\ Round[6] = <<-1, 1>> /\ Round[8] = <<1, -1>>
  BY DEF Round
<1>3. Shifts(4) = {Round[1], Round[2], Round[3], Round[4]}
  BY <1>1 DEF Shifts
<1>4. Shifts(8) = {Round[1], Round[2], Round[3], Round[4], Round[5], Round[6], Round[8]}
  BY <1>1, <1>2 DEF Shifts
<1>5. \A d \in Shifts(4) : \E i \in 1 .. 4 : Round[i] = d
  BY <1>3
<1>6. \A d \in Shifts(8) : \E i \in 1 .. 8 : Round[i] = d
  BY <1>4
<1>7. \A i \in 1 .. 4 : i \in {1, 2, 3, 4}
  OBVIOUS
<1> QED BY <1>3, <1>5, <1>6, <1>7

LEMMA BoundaryFinds ==
  ASSUME NEW n \in Adjacencies
  PROVE  LET m == {p \in grid : \E d \in Shifts(n) : Add(p, d) \in All \ grid}
         IN  m \subseteq AtZero(n) /\ (n = 4 => m = AtZero(4))
<1> DEFINE m == {p \in grid : \E d \in Shifts(n) : Add(p, d) \in All \ grid}
<1>1. n \in {4, 8}
  BY GridAssumption
<1>2. ASSUME NEW p \in m PROVE p \in AtZero(n)
  <2>1. PICK d \in Shifts(n) : Add(p, d) \in All \ grid
    BY <1>2
  <2>2. PICK i \in 1 .. n : Round[i] = d
    BY <1>1, ShiftsAre
  <2>3. Add(p, d) \in Neighbours(p, n)
    BY <2>1, <2>2 DEF Neighbours
  <2>4. AdjacentBit(p, n, FALSE)
    BY <2>1, <2>3 DEF AdjacentBit
  <2> QED BY <2>4 DEF AtZero
<1>3. ASSUME n = 4, NEW p \in AtZero(4) PROVE p \in m
  <2>1. p \in grid /\ AdjacentBit(p, 4, FALSE)
    BY <1>3 DEF AtZero
  <2>2. PICK q \in Neighbours(p, 4) : q \notin grid
    BY <2>1 DEF AdjacentBit
  <2>3. PICK i \in 1 .. 4 : q = Add(p, Round[i]) /\ q \in All
    BY <2>2 DEF Neighbours
  <2>4. Round[i] \in Shifts(n)
    BY <1>3, ShiftsAre
  <2> QED BY <2>1, <2>2, <2>3, <2>4
<1> QED BY <1>2, <1>3

LEMMA StepAtZero == FloodInv /\ BoundaryAtZero /\ [SearchNext]_searchVars => BoundaryAtZero'
<1> SUFFICES ASSUME FloodInv, BoundaryAtZero, [SearchNext]_searchVars PROVE BoundaryAtZero'
  OBVIOUS
<1>1. CASE ClusterGrowth \/ Cluster
  BY <1>1 DEF ClusterGrowth, Cluster, BoundaryAtZero
<1>2. CASE GrowInto
  BY <1>2 DEF GrowInto, BoundaryAtZero
<1>3. CASE GrowCluster
  <2>1. Flood /\ op' = op
    BY <1>3 DEF GrowCluster, Advance, FloodInv, Typed
  <2> QED BY <2>1 DEF Flood, BoundaryAtZero
<1>4. CASE Boundary
  <2>1. PICK n \in Adjacencies :
          /\ mat' = {p \in grid : \E d \in Shifts(n) : Add(p, d) \in All \ grid}
          /\ op' = <<"boundary", n, {}>> /\ grid' = grid
    BY <1>4 DEF Boundary
  <2>2. mat' \subseteq AtZero(n) /\ (n = 4 => mat' = AtZero(4))
    BY <2>1, BoundaryFinds
  <2>3. op'[2] = n /\ AtZero(n)' = AtZero(n) /\ AtZero(4)' = AtZero(4)
    BY <2>1 DEF AtZero, AdjacentBit
  <2> QED BY <2>1, <2>2, <2>3 DEF BoundaryAtZero
<1>5. CASE UNCHANGED searchVars
  BY <1>5 DEF searchVars, BoundaryAtZero, AtZero, AdjacentBit
<1> QED BY <1>1, <1>2, <1>3, <1>4, <1>5 DEF SearchNext

(* boundary: what it finds lies at zeros, and with four neighbours it is   *)
(* all that does, on a grid of any size.                                   *)
THEOREM BoundaryIsAtZero == SearchSpec => []BoundaryAtZero
<1>1. SearchInit => BoundaryAtZero
  BY DEF SearchInit, BoundaryAtZero
<1> QED BY <1>1, StepAtZero, FloodsHold, PTL DEF SearchSpec
-----------------------------------------------------------------------------
(* Growing.                                                                *)

LEMMA ApartIs ==
  ASSUME NEW i \in Int, NEW j \in Int
  PROVE  /\ Apart(i, j) \in Nat /\ (Apart(i, j) = 0 <=> i = j)
         /\ i < j => Apart(i + 1, j) \in Nat /\ Apart(i + 1, j) + 1 = Apart(i, j)
         /\ i > j => Apart(i - 1, j) \in Nat /\ Apart(i - 1, j) + 1 = Apart(i, j)
BY DEF Apart

(* How far two cells are from each other by rows and columns. *)
Way(p, q) == Apart(p[1], q[1]) + Apart(p[2], q[2])

Nearer(s, p, q) ==
  Apart(s[1], q[1]) <= Apart(p[1], q[1]) /\ Apart(s[2], q[2]) <= Apart(p[2], q[2])

(* From a cell one of its four neighbours leads to another cell. *)
LEMMA StepTowards ==
  ASSUME NEW p \in All, NEW q \in All, p # q
  PROVE  \E s \in Neighbours(p, 4) : s \in All /\ Nearer(s, p, q) /\ Way(s, q) < Way(p, q)
<1>1. /\ p[1] \in 0 .. Rows - 1 /\ p[2] \in 0 .. Columns - 1
      /\ q[1] \in 0 .. Rows - 1 /\ q[2] \in 0 .. Columns - 1
      /\ p = <<p[1], p[2]>> /\ q = <<q[1], q[2]>>
  BY CellIs
<1>2. /\ Round[1] = <<-1, 0>> /\ Round[2] = <<1, 0>>
      /\ Round[3] = <<0, -1>> /\ Round[4] = <<0, 1>>
  BY DEF Round
<1>3. Rows \in Nat /\ Columns \in Nat
  BY GridAssumption
<1>10. p[1] \in Int /\ p[2] \in Int /\ q[1] \in Int /\ q[2] \in Int
  BY <1>1, <1>3
<1>4. /\ Apart(p[1], q[1]) \in Nat /\ Apart(p[2], q[2]) \in Nat
  BY <1>10, ApartIs
<1> DEFINE Good(s) == s \in Neighbours(p, 4) /\ s \in All /\ Nearer(s, p, q) /\ Way(s, q) < Way(p, q)
<1>5. CASE p[1] < q[1]
  <2> DEFINE s == <<p[1] + 1, p[2]>>
  <2>1. s = Add(p, Round[2]) /\ s \in All
    BY <1>1, <1>2, <1>3, <1>5 DEF Add, All
  <2>2. Apart(p[1] + 1, q[1]) + 1 = Apart(p[1], q[1]) /\ Apart(p[1] + 1, q[1]) \in Nat
    BY <1>10, <1>5, ApartIs
  <2>3. Good(s)
    BY <1>4, <2>1, <2>2 DEF Nearer, Way, Neighbours
  <2> QED BY <2>3
<1>6. CASE p[1] > q[1]
  <2> DEFINE s == <<p[1] - 1, p[2]>>
  <2>1. s = Add(p, Round[1]) /\ s \in All
    BY <1>1, <1>2, <1>3, <1>6 DEF Add, All
  <2>2. Apart(p[1] - 1, q[1]) + 1 = Apart(p[1], q[1]) /\ Apart(p[1] - 1, q[1]) \in Nat
    BY <1>10, <1>6, ApartIs
  <2>3. Good(s)
    BY <1>4, <2>1, <2>2 DEF Nearer, Way, Neighbours
  <2> QED BY <2>3
<1>7. CASE p[2] < q[2]
  <2> DEFINE s == <<p[1], p[2] + 1>>
  <2>1. s = Add(p, Round[4]) /\ s \in All
    BY <1>1, <1>2, <1>3, <1>7 DEF Add, All
  <2>2. Apart(p[2] + 1, q[2]) + 1 = Apart(p[2], q[2]) /\ Apart(p[2] + 1, q[2]) \in Nat
    BY <1>10, <1>7, ApartIs
  <2>3. Good(s)
    BY <1>4, <2>1, <2>2 DEF Nearer, Way, Neighbours
  <2> QED BY <2>3
<1>8. CASE p[2] > q[2]
  <2> DEFINE s == <<p[1], p[2] - 1>>
  <2>1. s = Add(p, Round[3]) /\ s \in All
    BY <1>1, <1>2, <1>3, <1>8 DEF Add, All
  <2>2. Apart(p[2] - 1, q[2]) + 1 = Apart(p[2], q[2]) /\ Apart(p[2] - 1, q[2]) \in Nat
    BY <1>10, <1>8, ApartIs
  <2>3. Good(s)
    BY <1>4, <2>1, <2>2 DEF Nearer, Way, Neighbours
  <2> QED BY <2>3
<1>9. p[1] # q[1] \/ p[2] # q[2]
  BY <1>1
<1> QED
  <2>1. p[1] < q[1] \/ p[1] > q[1] \/ p[2] < q[2] \/ p[2] > q[2]
    BY <1>1, <1>3, <1>9
  <2> QED BY <1>5, <1>6, <1>7, <1>8, <2>1

(* On the way from a cell of one value to a cell of the other there is one *)
(* at the edge, and it is not further away.                                *)
LEMMA EdgeOnTheWay ==
  ASSUME NEW v \in BOOLEAN, NEW q \in All, ~(q \in grid <=> v),
         NEW p \in All, p \in grid <=> v
  PROVE  \E e \in All : (e \in grid <=> v) /\ AdjacentBit(e, 4, ~v) /\ Nearer(e, p, q)
<1> DEFINE Edge(e, c) == (e \in grid <=> v) /\ AdjacentBit(e, 4, ~v) /\ Nearer(e, c, q)
           S == {n \in Nat : \A c \in All :
                   (c \in grid <=> v) /\ Way(c, q) <= n => \E e \in All : Edge(e, c)}
<1>1. ASSUME NEW c \in All
      PROVE  /\ Apart(c[1], q[1]) \in Nat /\ Apart(c[2], q[2]) \in Nat
             /\ Way(c, q) \in Nat /\ Nearer(c, c, q)
  <2>1. c[1] \in Int /\ c[2] \in Int /\ q[1] \in Int /\ q[2] \in Int
    BY CellIs
  <2>2. Apart(c[1], q[1]) \in Nat /\ Apart(c[2], q[2]) \in Nat
    BY <2>1, ApartIs
  <2> QED BY <2>2 DEF Way, Nearer
<1>2. ASSUME NEW c \in All, c \in grid <=> v
      PROVE  \/ \E e \in All : Edge(e, c)
             \/ \E s \in All : (s \in grid <=> v) /\ Nearer(s, c, q) /\ Way(s, q) < Way(c, q)
  <2>1. PICK s \in Neighbours(c, 4) : s \in All /\ Nearer(s, c, q) /\ Way(s, q) < Way(c, q)
    BY <1>2, StepTowards
  <2>2. CASE s \in grid <=> v
    BY <2>1, <2>2
  <2>3. CASE ~(s \in grid <=> v)
    <3>1. AdjacentBit(c, 4, ~v)
      BY <2>3 DEF AdjacentBit
    <3> QED BY <1>1, <1>2, <3>1
  <2> QED BY <2>2, <2>3
<1>3. 0 \in S
  <2>1. ASSUME NEW c \in All, c \in grid <=> v, Way(c, q) <= 0 PROVE \E e \in All : Edge(e, c)
    <3>1. ASSUME NEW s \in All PROVE ~(Way(s, q) < Way(c, q))
      BY <1>1, <2>1
    <3> QED BY <1>2, <2>1, <3>1
  <2> QED BY <2>1
<1>4. ASSUME NEW n \in Nat, n \in S PROVE n + 1 \in S
  <2>1. ASSUME NEW c \in All, c \in grid <=> v, Way(c, q) <= n + 1
        PROVE  \E e \in All : Edge(e, c)
    <3>1. ASSUME NEW s \in All, s \in grid <=> v, Nearer(s, c, q), Way(s, q) < Way(c, q)
          PROVE  \E e \in All : Edge(e, c)
      <4>1. Way(s, q) <= n
        BY <1>1, <2>1, <3>1
      <4>2. PICK e \in All : Edge(e, s)
        BY <1>4, <3>1, <4>1
      <4>3. Nearer(e, c, q)
        BY <1>1, <3>1, <4>2 DEF Nearer
      <4> QED BY <4>2, <4>3
    <3> QED BY <1>2, <2>1, <3>1
  <2> QED BY <2>1
<1>5. Way(p, q) \in S
  <2>1. Way(p, q) \in Nat
    BY <1>1
  <2> HIDE DEF S
  <2> QED BY <1>3, <1>4, <2>1, AllNumbers
<1>6. Way(p, q) <= Way(p, q)
  BY <1>1
<1> QED BY <1>5, <1>6

(* Squares grow with what is squared. *)
LEMMA Squares ==
  ASSUME NEW i \in Nat, NEW j \in Nat, i <= j
  PROVE  i * i \in Nat /\ j * j \in Nat /\ i * i <= j * j
<1>1. PICK d \in Nat : j = i + d
  <2>1. j - i \in Nat /\ j = i + (j - i)
    OBVIOUS
  <2> QED BY <2>1
<1>2. j * j = i * i + (i * d + d * i + d * d)
  BY <1>1
<1>3. i * i \in Nat /\ i * d \in Nat /\ d * i \in Nat /\ d * d \in Nat
  BY <1>1
<1> QED BY <1>2, <1>3

(* A disk round a cell that is nearer has what one further away has. *)
LEMMA NearerDisk ==
  ASSUME NEW radius \in Nat, NEW p \in All, NEW q \in Disk(p, radius), NEW e \in All,
         Nearer(e, p, q)
  PROVE  q \in Disk(e, radius)
<1>1. q \in All
  BY DEF Disk
<1> DEFINE i == Apart(p[1], q[1]) j == Apart(p[2], q[2])
           k == Apart(e[1], q[1]) l == Apart(e[2], q[2])
<1>2. /\ i < radius
      /\ (2 * j + 1) * (2 * j + 1) <= 4 * (radius * radius - i * i)
  BY DEF Disk
<1>3. i \in Nat /\ j \in Nat /\ k \in Nat /\ l \in Nat
  <2>1. /\ p[1] \in Int /\ p[2] \in Int /\ q[1] \in Int /\ q[2] \in Int
        /\ e[1] \in Int /\ e[2] \in Int
    BY <1>1, CellIs
  <2> QED BY <2>1, ApartIs
<1>4. k <= i /\ l <= j
  BY DEF Nearer
<1> HIDE DEF i, j, k, l
<1>5. k * k \in Nat /\ i * i \in Nat /\ k * k <= i * i
  BY <1>3, <1>4, Squares
<1>6. /\ (2 * l + 1) * (2 * l + 1) \in Nat /\ (2 * j + 1) * (2 * j + 1) \in Nat
      /\ (2 * l + 1) * (2 * l + 1) <= (2 * j + 1) * (2 * j + 1)
  <2> DEFINE x == 2 * l + 1 y == 2 * j + 1
  <2>1. x \in Nat /\ y \in Nat /\ x <= y
    BY <1>3, <1>4
  <2> HIDE DEF x, y
  <2>2. x * x \in Nat /\ y * y \in Nat /\ x * x <= y * y
    BY <2>1, Squares
  <2> QED BY <2>2 DEF x, y
<1>7. radius * radius \in Nat
  BY Squares
<1>8. /\ k < radius
      /\ (2 * l + 1) * (2 * l + 1) <= 4 * (radius * radius - k * k)
  <2> DEFINE a == (2 * l + 1) * (2 * l + 1) b == (2 * j + 1) * (2 * j + 1)
             r == radius * radius x == k * k y == i * i
  <2>1. /\ a \in Nat /\ b \in Nat /\ r \in Nat /\ x \in Nat /\ y \in Nat
        /\ a <= b /\ x <= y /\ b <= 4 * (r - y)
    BY <1>2, <1>5, <1>6, <1>7
  <2> HIDE DEF a, b, r, x, y
  <2>2. a <= 4 * (r - x)
    BY <2>1
  <2>3. k < radius
    BY <1>2, <1>3, <1>4
  <2> QED BY <2>2, <2>3 DEF a, r, x
<1> QED BY <1>1, <1>8 DEF Disk, k, l

(* Growing what is at the edge grows all. *)
LEMMA EdgesGrowAll ==
  ASSUME NEW v \in BOOLEAN, NEW radius \in Nat \ {0}
  PROVE  Grown(v, radius) = UNION {Disk(p, radius) : p \in {q \in All : q \in grid <=> v}}
<1> DEFINE Valued == {q \in All : q \in grid <=> v}
           Spread(p) == IF AdjacentBit(p, 4, ~v) THEN Disk(p, radius) ELSE {p}
<1>1. Grown(v, radius) = UNION {Spread(p) : p \in Valued}
  BY DEF Grown
<1>2. ASSUME NEW q \in All PROVE q \in Disk(q, radius)
  <2>1. q[1] \in Int /\ q[2] \in Int
    BY CellIs
  <2>2. Apart(q[1], q[1]) = 0 /\ Apart(q[2], q[2]) = 0
    BY <2>1, ApartIs
  <2>3. radius * radius \in Nat \ {0}
    <3>1. radius * radius \in Nat /\ 1 * 1 <= radius * radius
      BY Squares
    <3> QED BY <3>1
  <2>4. (2 * 0 + 1) * (2 * 0 + 1) <= 4 * (radius * radius - 0 * 0)
    BY <2>3
  <2> QED BY <2>2, <2>4 DEF Disk
<1>3. ASSUME NEW p \in Valued PROVE Spread(p) \subseteq Disk(p, radius)
  BY <1>2
<1>4. ASSUME NEW p \in Valued, NEW q \in Disk(p, radius)
      PROVE  \E e \in Valued : q \in Spread(e)
  <2>1. q \in All
    BY DEF Disk
  <2>2. CASE q \in Valued
    BY <1>2, <2>1, <2>2
  <2>3. CASE q \notin Valued
    <3>1. PICK e \in All : (e \in grid <=> v) /\ AdjacentBit(e, 4, ~v) /\ Nearer(e, p, q)
      BY <2>1, <2>3, EdgeOnTheWay
    <3>2. q \in Disk(e, radius)
      BY <3>1, NearerDisk
    <3> QED BY <3>1, <3>2
  <2> QED BY <2>2, <2>3
<1> HIDE DEF Spread, Valued
<1>5. UNION {Spread(p) : p \in Valued} = UNION {Disk(p, radius) : p \in Valued}
  BY <1>3, <1>4
<1> QED BY <1>1, <1>5 DEF Valued

LEMMA StepDisks ==
  ASSUME 0 \notin Radii
  PROVE  FloodInv /\ DisksFilled /\ [SearchNext]_searchVars => DisksFilled'
<1> SUFFICES ASSUME FloodInv, DisksFilled, [SearchNext]_searchVars PROVE DisksFilled'
  OBVIOUS
<1>1. CASE ClusterGrowth \/ Cluster
  BY <1>1 DEF ClusterGrowth, Cluster, DisksFilled
<1>2. CASE Boundary
  BY <1>2 DEF Boundary, DisksFilled
<1>3. CASE GrowCluster
  <2>1. Flood /\ op' = op
    BY <1>3 DEF GrowCluster, Advance, FloodInv, Typed
  <2> QED BY <2>1 DEF Flood, DisksFilled
<1>4. CASE GrowInto
  <2>1. PICK radius \in Radii, v \in BOOLEAN, w \in Given :
          /\ mat' = IF v THEN w \cup Grown(v, radius) ELSE w \ Grown(v, radius)
          /\ op' = <<"growInto", <<radius, v>>, w>> /\ grid' = grid
    BY <1>4 DEF GrowInto
  <2> DEFINE disks == UNION {Disk(p, radius) : p \in {q \in All : q \in grid <=> v}}
  <2>2. radius \in Nat \ {0}
    BY GridAssumption
  <2>3. Grown(v, radius) = disks
    BY <2>2, EdgesGrowAll
  <2>4. /\ op'[1] = "growInto" /\ op'[2][1] = radius /\ op'[2][2] = v
        /\ Start' = w
    BY <2>1 DEF Start
  <2>5. mat' = IF v THEN w \cup disks ELSE w \ disks
    BY <2>1, <2>3
  <2>6. CASE v = TRUE
    <3>1. op'[2][2] = TRUE
      BY <2>4, <2>6
    <3>2. mat' = w \cup UNION {Disk(p, radius) : p \in {q \in All : q \in grid}}
      BY <2>5, <2>6
    <3>3. {q \in All : q \in grid' <=> op'[2][2]} = {q \in All : q \in grid}
      BY <2>1, <3>1
    <3> QED BY <2>4, <3>1, <3>2, <3>3 DEF DisksFilled
  <2>7. CASE v = FALSE
    <3>1. op'[2][2] = FALSE
      BY <2>4, <2>7
    <3>2. mat' = w \ UNION {Disk(p, radius) : p \in {q \in All : q \notin grid}}
      BY <2>5, <2>7
    <3>3. {q \in All : q \in grid' <=> op'[2][2]} = {q \in All : q \notin grid}
      BY <2>1, <3>1
    <3> QED BY <2>4, <3>1, <3>2, <3>3 DEF DisksFilled
  <2> QED BY <2>6, <2>7
<1>5. CASE UNCHANGED searchVars
  BY <1>5 DEF searchVars, DisksFilled, Start
<1> QED BY <1>1, <1>2, <1>3, <1>4, <1>5 DEF SearchNext

(* growInto fills a disk round every cell that has the value, although it  *)
(* grows only those at an edge, on a grid of any size and for any radius   *)
(* but 0, with which fillDisk fills nothing.                               *)
THEOREM DisksAreFilled == ASSUME 0 \notin Radii PROVE SearchSpec => []DisksFilled
<1>1. SearchInit => DisksFilled
  BY DEF SearchInit, DisksFilled
<1> QED BY <1>1, StepDisks, FloodsHold, PTL DEF SearchSpec
-----------------------------------------------------------------------------
(* The rows of a matrix as an ordered list.                                *)

State(k, step, found, end) == [k |-> k, step |-> step, found |-> found, end |-> end]

(* The search goes round as often as there are rows. *)
LEMMA SearchGoesOn ==
  ASSUME NEW s, NEW n \in Nat, Len(rows) = n
  PROVE  \E at : /\ at[0] = State(n \div 2, n \div 2, FALSE, FALSE)
                 /\ \A i \in 1 .. n : at[i] = Look(at[i - 1], s)
                 /\ Searched(s) = at[n]
<1> DEFINE first == State(n \div 2, n \div 2, FALSE, FALSE)
           Is(f, m) == f = [i \in 0 .. m |-> IF i = 0 THEN first ELSE Look(f[i - 1], s)]
           S == {m \in Nat : \E f : Is(f, m)}
<1>1. Searched(s) = (CHOOSE f : Is(f, n))[n]
  BY DEF Searched, State
<1> HIDE DEF first
<1>2. 0 \in S
  <2> DEFINE f == [i \in 0 .. 0 |-> first]
  <2>1. Is(f, 0)
    BY \A i \in 0 .. 0 : i = 0
  <2> QED BY <2>1
<1>3. ASSUME NEW m \in Nat, m \in S PROVE m + 1 \in S
  <2>1. PICK g : Is(g, m)
    BY <1>3
  <2> DEFINE f == [i \in 0 .. m + 1 |-> IF i = m + 1 THEN Look(g[m], s) ELSE g[i]]
  <2>2. \A i \in 0 .. m : g[i] = IF i = 0 THEN first ELSE Look(g[i - 1], s)
    BY <2>1
  <2>3. ASSUME NEW i \in 0 .. m + 1
        PROVE  f[i] = IF i = 0 THEN first ELSE Look(f[i - 1], s)
    <3>1. CASE i = m + 1
      <4>1. i # 0 /\ i - 1 = m /\ m \in 0 .. m + 1 /\ m # m + 1
        BY <3>1
      <4>2. f[i] = Look(g[m], s) /\ f[i - 1] = g[m]
        BY <3>1, <4>1
      <4> QED BY <4>1, <4>2
    <3>2. CASE i # m + 1
      <4>1. i \in 0 .. m
        BY <3>2
      <4>2. i # 0 => i - 1 \in 0 .. m + 1 /\ i - 1 # m + 1
        BY <3>2
      <4>3. f[i] = g[i] /\ (i # 0 => f[i - 1] = g[i - 1])
        BY <3>2, <4>2
      <4> QED BY <2>2, <4>1, <4>3
    <3> QED BY <3>1, <3>2
  <2>4. Is(f, m + 1)
    <3>1. f = [i \in 0 .. m + 1 |-> f[i]]
      OBVIOUS
    <3> HIDE DEF f
    <3> QED BY <2>3, <3>1
  <2>5. m + 1 \in Nat
    OBVIOUS
  <2> QED BY <2>4, <2>5
<1>4. n \in S
  <2> HIDE DEF S
  <2> QED BY <1>2, <1>3, AllNumbers
<1> DEFINE at == CHOOSE f : Is(f, n)
<1>5. Is(at, n) /\ Searched(s) = at[n]
  BY <1>1, <1>4
<1> HIDE DEF at
<1>6. \A i \in 0 .. n : at[i] = IF i = 0 THEN first ELSE Look(at[i - 1], s)
  BY <1>5
<1>7. at[0] = first /\ \A i \in 1 .. n : at[i] = Look(at[i - 1], s)
  BY <1>6
<1> QED BY <1>5, <1>7 DEF first

(* It stays where it has come to an end. *)
LEMMA LookStays ==
  ASSUME NEW s, NEW at, at.step = 0 \/ at.found \/ at.end
  PROVE  Look(at, s) = at
BY DEF Look

(* Where a round looks. *)
At(k, n) == IF k >= n THEN n - 1 ELSE k

(* Half of the step on or back, or the row is found. *)
Moved(x, c, step, s) ==
  \/ /\ Row(c) = s
     /\ x = State(c, step, TRUE, FALSE)
  \/ /\ Row(c) < s
     /\ x = State(c + step, step \div 2, FALSE, FALSE)
  \/ /\ Row(c) > s
     /\ x = State(IF c < step THEN 0 ELSE c - step, step \div 2, FALSE, c = 0)

LEMMA LookMoves ==
  ASSUME NEW s \in Nat, NEW n \in Nat \ {0}, NEW k \in Nat, NEW step \in Nat \ {0},
         NEW c \in 0 .. n - 1, c = At(k, n), rows \in Seq(Nat), n = Len(rows)
  PROVE  Moved(Look(State(k, step, FALSE, FALSE), s), c, step, s)
<1>1. Row(c) \in Nat
  BY DEF Row
<1> DEFINE x == Look(State(k, step, FALSE, FALSE), s)
<1>2. CASE Row(c) = s
  <2>1. x = [State(k, step, FALSE, FALSE) EXCEPT !.k = c, !.found = TRUE]
    BY <1>1, <1>2 DEF Look, State, At
  <2> QED BY <1>1, <1>2, <2>1 DEF State, Moved
<1>3. CASE Row(c) < s
  <2>1. x = [State(k, step, FALSE, FALSE) EXCEPT !.k = c + step, !.step = step \div 2]
    BY <1>1, <1>3 DEF Look, State, Half, At
  <2> QED BY <1>1, <1>3, <2>1 DEF State, Moved
<1>4. CASE Row(c) > s
  <2>1. x = [State(k, step, FALSE, FALSE) EXCEPT
               !.k = IF c < step THEN 0 ELSE c - step, !.step = step \div 2, !.end = (c = 0)]
    BY <1>1, <1>4 DEF Look, State, Half, At
  <2> QED BY <1>1, <1>4, <2>1 DEF State, Moved
<1>5. Row(c) = s \/ Row(c) < s \/ Row(c) > s
  BY <1>1
<1> QED BY <1>2, <1>3, <1>4, <1>5

(* Row k is the only one that still has to be looked at. *)
Near(k, s, n) ==
  \A j \in 0 .. n - 1 : (j < k => Row(j) < s) /\ (j > k => Row(j) > s)

(* The search has come to an end, with s or next to where it belongs. *)
Done(x, s, n) ==
  \E k \in Nat, step \in Nat, found \in BOOLEAN, end \in BOOLEAN :
    /\ x = State(k, step, found, end) /\ (step = 0 \/ found \/ end)
    /\ found \/ Near(k, s, n)

LEMMA FoundIsDone ==
  ASSUME NEW s, NEW n, NEW c \in Nat, NEW step \in Nat
  PROVE  Done(State(c, step, TRUE, FALSE), s, n)
BY DEF Done

LEMMA NearIsDone ==
  ASSUME NEW s, NEW n, NEW k \in Nat, NEW end \in BOOLEAN, Near(k, s, n)
  PROVE  Done(State(k, 0, FALSE, end), s, n)
BY DEF Done

LEMMA DoneStays ==
  ASSUME NEW s, NEW n, NEW x, Done(x, s, n)
  PROVE  Look(x, s) = x
<1>1. PICK k \in Nat, step \in Nat, found \in BOOLEAN, end \in BOOLEAN :
        x = State(k, step, found, end) /\ (step = 0 \/ found \/ end)
  BY DEF Done
<1>2. x.step = 0 \/ x.found \/ x.end
  BY <1>1 DEF State
<1> QED BY <1>2, LookStays

(* Rows in order. *)
LEMMA InOrder ==
  ASSUME rows \in Seq(Nat), NEW n \in Nat, n = Len(rows), Increasing
  PROVE  /\ \A j \in 0 .. n - 1 : Row(j) \in Nat
         /\ \A i, j \in 0 .. n - 1 : i < j => Row(i) < Row(j)
<1>1. \A j \in 0 .. n - 1 : j + 1 \in 1 .. n /\ j + 1 \in DOMAIN rows
  OBVIOUS
<1>2. \A j \in 0 .. n - 1 : Row(j) \in Nat
  BY <1>1 DEF Row
<1>3. ASSUME NEW i \in 0 .. n - 1, NEW j \in 0 .. n - 1, i < j PROVE Row(i) < Row(j)
  BY <1>1, <1>3 DEF Row, Increasing
<1> QED BY <1>2, <1>3

(* Next to a place. *)
LEMMA OnBothSides ==
  ASSUME NEW c \in Nat, NEW j \in Nat
  PROVE  /\ j < c + 1 => j = c \/ j < c
         /\ j + 1 > c => j = c \/ c < j
         /\ (c >= 1 /\ j < c - 1) => j + 1 < c
         /\ (c >= 1 /\ j > c - 1) => j + 1 > c
         /\ c < 1 => c = 0 /\ j + 1 > c /\ ~(j < c)
         /\ c >= 1 => c - 1 \in Nat
OBVIOUS

(* A power of two is 1 or twice one: so are the steps of the search, which *)
(* are halved.                                                             *)
Reach(step) == IF step = 0 THEN 1 ELSE 2 * step

LEMMA HalfOfPower ==
  ASSUME NEW p \in Nat \ {0}, PowerOfTwo(p)
  PROVE  p \div 2 \in Nat /\ p \div 2 < p /\ PowerOfTwo(p \div 2) /\ Reach(p \div 2) = p
<1>1. CASE p = 1
  <2>1. p \div 2 = 0
    BY <1>1
  <2>2. PowerOfTwo(0)
    BY DEF PowerOfTwo
  <2> QED BY <1>1, <2>1, <2>2 DEF Reach
<1>2. CASE p # 1
  <2> DEFINE q == p \div 2
  <2>1. p % 2 # 1
    <3>1. p \in 1 .. p /\ 1 \in 1 .. p /\ p = p * 1
      OBVIOUS
    <3> QED BY <1>2, <3>1 DEF PowerOfTwo
  <2>2. q \in Nat \ {0} /\ p = 2 * q /\ q < p
    BY <1>2, <2>1
  <2> HIDE DEF q
  <2>3. ASSUME NEW d \in 1 .. q, NEW e \in 1 .. q, q = d * e, d % 2 = 1 PROVE d = 1
    <3>1. 2 * e \in 1 .. p /\ d \in 1 .. p
      BY <2>2
    <3>2. d * (2 * e) = 2 * (d * e)
      OBVIOUS
    <3>3. p = d * (2 * e)
      BY <2>2, <2>3, <3>2
    <3> QED BY <2>3, <3>1, <3>3 DEF PowerOfTwo
  <2>4. PowerOfTwo(q)
    BY <2>3 DEF PowerOfTwo
  <2>5. q \in Nat /\ q < p /\ Reach(q) = p
    BY <2>2 DEF Reach
  <2> QED BY <2>4, <2>5 DEF q
<1> QED BY <1>1, <1>2

(* Only rows close to k still have to be looked at. *)
Around(k, w, s, n) ==
  \A j \in 0 .. n - 1 : (j + w <= k => Row(j) < s) /\ (j >= k + w => Row(j) > s)

(* The search goes on after i rounds, with few left. *)
Going(x, s, n, i) ==
  \E k \in Nat, step \in Nat :
    /\ x = State(k, step, FALSE, FALSE) /\ step + i <= n
    /\ PowerOfTwo(step) /\ Around(k, Reach(step), s, n)

LEMMA OutOfSteps ==
  ASSUME NEW s \in Nat, NEW n \in Nat, NEW k \in Nat, Around(k, Reach(0), s, n)
  PROVE  Done(State(k, 0, FALSE, FALSE), s, n)
<1>1. ASSUME NEW j \in 0 .. n - 1 PROVE (j < k => j + 1 <= k) /\ (j > k => j >= k + 1)
  OBVIOUS
<1>2. Near(k, s, n)
  BY <1>1 DEF Around, Near, Reach
<1> QED BY <1>2, NearIsDone

(* A round halves what is left. *)
LEMMA LookNarrows ==
  ASSUME NEW s \in Nat, NEW n \in Nat \ {0}, NEW k \in Nat, NEW step \in Nat \ {0},
         NEW i \in Nat, step + i <= n, PowerOfTwo(step), Around(k, Reach(step), s, n),
         rows \in Seq(Nat), n = Len(rows), Increasing
  PROVE  LET x == Look(State(k, step, FALSE, FALSE), s)
         IN  Done(x, s, n) \/ Going(x, s, n, i + 1)
<1> DEFINE x == Look(State(k, step, FALSE, FALSE), s)
           c == At(k, n)
           h == step \div 2
           d == IF c < step THEN 0 ELSE c - step
<1>1. /\ \A j \in 0 .. n - 1 : Row(j) \in Nat
      /\ \A a, b \in 0 .. n - 1 : a < b => Row(a) < Row(b)
  BY InOrder
<1>2. c \in 0 .. n - 1 /\ c \in Nat /\ c <= k /\ (c = k \/ c = n - 1)
  BY DEF At
<1>3. /\ h \in Nat /\ h < step /\ PowerOfTwo(h) /\ Reach(h) = step
      /\ Reach(step) = 2 * step /\ h + (i + 1) <= n
  <2>1. h \in Nat /\ h < step /\ PowerOfTwo(h) /\ Reach(h) = step
    BY HalfOfPower
  <2> HIDE DEF h
  <2> QED BY <2>1 DEF Reach
<1>4. \/ Row(c) = s /\ x = State(c, step, TRUE, FALSE)
      \/ Row(c) < s /\ x = State(c + step, h, FALSE, FALSE)
      \/ Row(c) > s /\ x = State(d, h, FALSE, c = 0)
  <2>1. Moved(x, c, step, s)
    <3>1. c \in 0 .. n - 1 /\ c = At(k, n)
      BY <1>2
    <3> HIDE DEF c
    <3> QED BY <3>1, LookMoves
  <2> HIDE DEF x, c
  <2> QED BY <2>1 DEF Moved
<1> HIDE DEF x, c, h
<1>5. ASSUME NEW j \in 0 .. n - 1
      PROVE  (j + 2 * step <= k => Row(j) < s) /\ (j >= k + 2 * step => Row(j) > s)
  BY <1>3 DEF Around
<1>6. ASSUME Row(c) = s, x = State(c, step, TRUE, FALSE) PROVE Done(x, s, n)
  BY <1>2, <1>6, FoundIsDone
<1>7. ASSUME Row(c) < s, x = State(c + step, h, FALSE, FALSE) PROVE Going(x, s, n, i + 1)
  <2>1. ASSUME NEW j \in 0 .. n - 1, j + step <= c + step PROVE Row(j) < s
    <3>1. j = c \/ j < c
      BY <1>2, <2>1
    <3>2. j < c => Row(j) < Row(c) /\ Row(j) \in Nat /\ Row(c) \in Nat
      BY <1>1, <1>2
    <3> QED BY <1>7, <3>1, <3>2
  <2>2. ASSUME NEW j \in 0 .. n - 1, j >= (c + step) + step PROVE Row(j) > s
    <3>1. j >= k + 2 * step
      BY <1>2, <2>2
    <3> QED BY <1>5, <3>1
  <2>3. Around(c + step, step, s, n)
    BY <2>1, <2>2 DEF Around
  <2>4. c + step \in Nat
    BY <1>2
  <2> QED BY <1>3, <1>7, <2>3, <2>4 DEF Going
<1>8. ASSUME Row(c) > s, NEW j \in 0 .. n - 1, j >= c PROVE Row(j) > s
  <2>1. j = c \/ c < j
    BY <1>2, <1>8
  <2>2. c < j => Row(c) < Row(j) /\ Row(j) \in Nat /\ Row(c) \in Nat
    BY <1>1, <1>2
  <2> QED BY <1>8, <2>1, <2>2
<1>9. ASSUME Row(c) > s, x = State(d, h, FALSE, TRUE), c = 0 PROVE Done(x, s, n)
  <2>1. d = 0
    BY <1>9
  <2>2. ASSUME NEW j \in 0 .. n - 1 PROVE ~(j < 0) /\ j >= c
    BY <1>9
  <2>3. Near(0, s, n)
    BY <1>8, <1>9, <2>2 DEF Near
  <2>4. x = State(0, h, FALSE, TRUE)
    BY <1>9, <2>1
  <2> HIDE DEF d
  <2> QED BY <1>3, <2>3, <2>4 DEF Done
<1>10. ASSUME Row(c) > s, x = State(d, h, FALSE, FALSE) PROVE Going(x, s, n, i + 1)
  <2>1. d \in Nat
    BY <1>2
  <2>2. ASSUME NEW j \in 0 .. n - 1, j + step <= d PROVE Row(j) < s
    <3>1. j + 2 * step <= k
      BY <1>2, <2>2
    <3> QED BY <1>5, <3>1
  <2>3. ASSUME NEW j \in 0 .. n - 1, j >= d + step PROVE Row(j) > s
    <3>1. j >= c
      BY <1>2, <2>3
    <3> QED BY <1>8, <1>10, <3>1
  <2> HIDE DEF d
  <2>4. Around(d, step, s, n)
    BY <2>2, <2>3 DEF Around
  <2> QED BY <1>3, <1>10, <2>1, <2>4 DEF Going
<1>11. (c = 0) = TRUE \/ (c = 0) = FALSE
  OBVIOUS
<1>12. Done(x, s, n) \/ Going(x, s, n, i + 1)
  <2> HIDE DEF d
  <2> QED BY <1>4, <1>6, <1>7, <1>9, <1>10, <1>11
<1> QED BY <1>12 DEF x

(* In a list with half as many rows as a power of two the search ends next *)
(* to where s belongs.                                                     *)
LEMMA SearchEnds ==
  ASSUME NEW s \in Nat, NEW n \in Nat \ {0}, rows \in Seq(Nat), n = Len(rows),
         Increasing, PowerOfTwo(n \div 2)
  PROVE  Done(Searched(s), s, n)
<1>1. PICK at : /\ at[0] = State(n \div 2, n \div 2, FALSE, FALSE)
                /\ \A i \in 1 .. n : at[i] = Look(at[i - 1], s)
                /\ Searched(s) = at[n]
  BY SearchGoesOn
<1> DEFINE S == {i \in Nat : i <= n => Done(at[i], s, n) \/ Going(at[i], s, n, i)}
<1>2. 0 \in S
  <2> DEFINE m == n \div 2
  <2>1. m \in Nat /\ m + 0 <= n /\ n <= 2 * m + 1
    OBVIOUS
  <2>2. at[0] = State(m, m, FALSE, FALSE) /\ PowerOfTwo(m)
    BY <1>1
  <2> HIDE DEF m
  <2>3. ASSUME NEW j \in 0 .. n - 1 PROVE ~(j + Reach(m) <= m) /\ ~(j >= m + Reach(m))
    BY <2>1 DEF Reach
  <2>4. Around(m, Reach(m), s, n)
    BY <2>3 DEF Around
  <2> QED BY <2>1, <2>2, <2>4 DEF Going
<1>3. ASSUME NEW i \in Nat, i \in S PROVE i + 1 \in S
  <2> SUFFICES ASSUME i + 1 <= n
               PROVE  Done(at[i + 1], s, n) \/ Going(at[i + 1], s, n, i + 1)
    OBVIOUS
  <2>1. i <= n /\ i + 1 \in 1 .. n /\ (i + 1) - 1 = i
    OBVIOUS
  <2>2. at[i + 1] = Look(at[i], s)
    BY <1>1, <2>1
  <2>3. CASE Done(at[i], s, n)
    BY <2>2, <2>3, DoneStays
  <2>4. CASE Going(at[i], s, n, i)
    <3>1. PICK k \in Nat, step \in Nat :
            /\ at[i] = State(k, step, FALSE, FALSE) /\ step + i <= n
            /\ PowerOfTwo(step) /\ Around(k, Reach(step), s, n)
      BY <2>4 DEF Going
    <3>2. CASE step = 0
      <4>1. Done(at[i], s, n)
        BY <3>1, <3>2, OutOfSteps
      <4> QED BY <2>3, <4>1
    <3>3. CASE step # 0
      <4> QED BY <2>2, <3>1, <3>3, LookNarrows
    <3> QED BY <3>2, <3>3
  <2> QED BY <1>3, <2>1, <2>3, <2>4
<1>4. n \in S
  <2> HIDE DEF S
  <2> QED BY <1>2, <1>3, AllNumbers
<1>5. CASE Done(at[n], s, n)
  BY <1>1, <1>5
<1>6. CASE Going(at[n], s, n, n)
  <2>1. PICK k \in Nat, step \in Nat :
          /\ at[n] = State(k, step, FALSE, FALSE) /\ step + n <= n
          /\ Around(k, Reach(step), s, n)
    BY <1>6 DEF Going
  <2>2. step = 0
    BY <2>1
  <2> QED BY <1>1, <2>1, <2>2, OutOfSteps
<1> QED BY <1>4, <1>5, <1>6

(* Place k is where s belongs: what is before it is less than s and the    *)
(* rest is greater.                                                        *)
Fits(k, s, n) == \A j \in 0 .. n - 1 : (j < k => Row(j) < s) /\ (j >= k => Row(j) > s)

LEMMA FindRowIsRight ==
  ASSUME NEW s \in Nat, NEW n \in Nat, rows \in Seq(Nat), n = Len(rows), Increasing,
         PowerOfTwo(n \div 2)
  PROVE  \/ FindRow(s).found = TRUE
         \/ FindRow(s).found = FALSE /\ FindRow(s).k \in 0 .. n /\ Fits(FindRow(s).k, s, n)
<1>1. CASE n = 0
  <2>1. PICK at : /\ at[0] = State(n \div 2, n \div 2, FALSE, FALSE)
                  /\ \A i \in 1 .. n : at[i] = Look(at[i - 1], s)
                  /\ Searched(s) = at[n]
    <3>1. n \in Nat /\ Len(rows) = n
      OBVIOUS
    <3> QED BY ONLY <3>1, SearchGoesOn
  <2>2. Searched(s) = State(0, 0, FALSE, FALSE)
    <3>1. n \div 2 = 0
      BY <1>1
    <3> QED BY <1>1, <2>1, <3>1
  <2>3. FindRow(s).found = FALSE /\ FindRow(s).k = 0
    BY <1>1, <2>2 DEF FindRow, State
  <2>4. Fits(0, s, n)
    BY <1>1 DEF Fits
  <2> QED BY <1>1, <2>3, <2>4
<1>2. CASE n \in Nat \ {0}
  <2>1. Done(Searched(s), s, n)
    BY <1>2, SearchEnds
  <2>2. PICK k \in Nat, step \in Nat, found \in BOOLEAN, end \in BOOLEAN :
          Searched(s) = State(k, step, found, end) /\ (found \/ Near(k, s, n))
    BY <2>1 DEF Done
  <2>3. Searched(s).k = k /\ Searched(s).found = found
    BY <2>2 DEF State
  <2>4. CASE found
    <3>1. FindRow(s) = [found |-> found, k |-> k]
      BY <2>3, <2>4 DEF FindRow
    <3> QED BY <2>4, <3>1
  <2>5. CASE ~found
    <3>1. FindRow(s) = IF k >= n THEN [found |-> FALSE, k |-> n]
                       ELSE [found |-> Row(k) = s, k |-> IF Row(k) < s THEN k + 1 ELSE k]
      BY <1>2, <2>3, <2>5 DEF FindRow
    <3>2. CASE k >= n
      <4>1. FindRow(s).found = FALSE /\ FindRow(s).k = n
        BY <3>1, <3>2
      <4>2. ASSUME NEW j \in 0 .. n - 1 PROVE j < k /\ j < n /\ ~(j >= n)
        BY ONLY <1>2, <3>2, k \in Nat, j \in 0 .. n - 1
      <4>3. Fits(n, s, n)
        BY <2>2, <2>5, <4>2 DEF Fits, Near
      <4>4. n \in 0 .. n
        BY <1>2
      <4> QED BY <4>1, <4>3, <4>4
    <3>3. CASE ~(k >= n)
      <4>1. k \in 0 .. n - 1 /\ k \in 0 .. n /\ k + 1 \in 0 .. n
        BY <1>2, <3>3
      <4>2. Row(k) \in Nat
        <5>1. k + 1 \in 1 .. n
          BY <4>1
        <5> QED BY <5>1 DEF Row
      <4>3. CASE Row(k) = s
        <5>1. FindRow(s).found = (Row(k) = s)
          BY <3>1, <3>3
        <5> QED BY ONLY <4>3, <5>1
      <4>4. CASE Row(k) < s
        <5>1. FindRow(s).found = (Row(k) = s) /\ FindRow(s).k = k + 1
          BY <3>1, <3>3, <4>4
        <5>2. Row(k) # s
          BY <4>2, <4>4
        <5>3. ASSUME NEW j \in 0 .. n - 1
              PROVE  (j < k + 1 => j = k \/ j < k) /\ (j >= k + 1 => j > k)
          BY ONLY k \in Nat, j \in 0 .. n - 1, <1>2
        <5>4. Fits(k + 1, s, n)
          BY <2>2, <2>5, <4>4, <5>3 DEF Fits, Near
        <5>5. FindRow(s).found = FALSE
          BY ONLY <5>1, <5>2
        <5>6. Fits(FindRow(s).k, s, n) /\ FindRow(s).k \in 0 .. n
          BY ONLY <4>1, <5>1, <5>4
        <5> QED BY ONLY <5>5, <5>6
      <4>5. CASE Row(k) > s
        <5>1. FindRow(s).found = (Row(k) = s) /\ FindRow(s).k = k
          BY <3>1, <3>3, <4>2, <4>5
        <5>2. Row(k) # s
          BY <4>2, <4>5
        <5>3. ASSUME NEW j \in 0 .. n - 1 PROVE j >= k => j = k \/ j > k
          BY ONLY k \in Nat, j \in 0 .. n - 1, <1>2
        <5>4. Fits(k, s, n)
          BY <2>2, <2>5, <4>5, <5>3 DEF Fits, Near
        <5>5. FindRow(s).found = FALSE
          BY ONLY <5>1, <5>2
        <5>6. Fits(FindRow(s).k, s, n) /\ FindRow(s).k \in 0 .. n
          BY ONLY <4>1, <5>1, <5>4
        <5> QED BY ONLY <5>5, <5>6
      <4>6. Row(k) = s \/ Row(k) < s \/ Row(k) > s
        BY ONLY <4>2, s \in Nat
      <4> QED BY <4>3, <4>4, <4>5, <4>6
    <3> QED BY <3>2, <3>3
  <2> QED BY <2>4, <2>5
<1>3. n = 0 \/ n \in Nat \ {0}
  OBVIOUS
<1> QED BY <1>1, <1>2, <1>3

(* What is inserted, and what it moves up. *)
WithRow(r, k, s, n) ==
  /\ r \in Seq(Nat) /\ Len(r) = n + 1
  /\ \A i \in 1 .. n + 1 :
       r[i] = IF i <= k THEN rows[i] ELSE IF i = k + 1 THEN s ELSE rows[i - 1]

LEMMA Inserted ==
  ASSUME NEW s \in Nat, NEW n \in Nat, rows \in Seq(Nat), n = Len(rows), NEW k \in 0 .. n
  PROVE  WithRow(InsertAt(rows, k + 1, s), k, s, n)
<1> DEFINE a == SubSeq(rows, 1, k)
           b == SubSeq(rows, k + 1, n)
<1>1. /\ a \in Seq(Nat) /\ Len(a) = k
      /\ \A i \in 1 .. k : a[i] = rows[i]
  OBVIOUS
<1>2. /\ b \in Seq(Nat) /\ Len(b) = n - k
      /\ \A i \in 1 .. n - k : b[i] = rows[k + i]
  OBVIOUS
<1>3. InsertAt(rows, k + 1, s) = a \o <<s>> \o b
  <2>1. (k + 1) - 1 = k
    OBVIOUS
  <2> QED BY <2>1 DEF InsertAt
<1> HIDE DEF a, b
<1>4. /\ a \o <<s>> \in Seq(Nat) /\ Len(a \o <<s>>) = k + 1
      /\ \A i \in 1 .. k + 1 : (a \o <<s>>)[i] = IF i <= k THEN rows[i] ELSE s
  BY <1>1
<1> DEFINE c == a \o <<s>>
<1> HIDE DEF c
<1>5. /\ c \in Seq(Nat) /\ Len(c) = k + 1
      /\ \A i \in 1 .. k + 1 : c[i] = IF i <= k THEN rows[i] ELSE s
  BY <1>4 DEF c
<1>6. /\ c \o b \in Seq(Nat) /\ Len(c \o b) = n + 1
      /\ \A i \in 1 .. n + 1 : (c \o b)[i] = IF i <= k + 1 THEN c[i] ELSE b[i - (k + 1)]
  <2>1. k \in Nat /\ n - k \in Nat /\ (k + 1) + (n - k) = n + 1
    OBVIOUS
  <2>2. c \o b \in Seq(Nat) /\ Len(c \o b) = Len(c) + Len(b)
    BY ONLY <1>2, <1>5
  <2>3. /\ \A i \in 1 .. Len(c) + Len(b) :
             (c \o b)[i] = IF i <= Len(c) THEN c[i] ELSE b[i - Len(c)]
    BY ONLY <1>2, <1>5
  <2> QED BY ONLY <1>2, <1>5, <2>1, <2>2, <2>3
<1>7. ASSUME NEW i \in 1 .. n + 1
      PROVE  (c \o b)[i] = IF i <= k THEN rows[i] ELSE IF i = k + 1 THEN s ELSE rows[i - 1]
  <2>1. CASE i <= k + 1
    <3>1. i \in 1 .. k + 1 /\ (~(i <= k) => i = k + 1)
      BY <2>1
    <3>2. (c \o b)[i] = c[i]
      BY <1>6, <2>1
    <3> QED BY <1>5, <3>1, <3>2
  <2>2. CASE i > k + 1
    <3>1. i - (k + 1) \in 1 .. n - k /\ k + (i - (k + 1)) = i - 1 /\ ~(i <= k) /\ i # k + 1
      BY <2>2
    <3>2. (c \o b)[i] = b[i - (k + 1)]
      <4>1. ~(i <= k + 1)
        BY <2>2
      <4> QED BY <1>6, <4>1
    <3>3. b[i - (k + 1)] = rows[i - 1]
      BY <1>2, <3>1
    <3>4. ~(i <= k) /\ i # k + 1
      BY <3>1
    <3>5. (c \o b)[i] = rows[i - 1]
      BY ONLY <3>2, <3>3
    <3> QED BY ONLY <3>4, <3>5
  <2>3. i <= k + 1 \/ i > k + 1
    OBVIOUS
  <2> QED BY <2>1, <2>2, <2>3
<1> QED BY <1>3, <1>6, <1>7 DEF c, WithRow

(* What fits keeps the rows in order. *)
LEMMA FitsInOrder ==
  ASSUME NEW s \in Nat, NEW n \in Nat, rows \in Seq(Nat), n = Len(rows), Increasing,
         NEW k \in 0 .. n, Fits(k, s, n), rows' = InsertAt(rows, k + 1, s)
  PROVE  rows' \in Seq(Nat) /\ Increasing'
<1>1. /\ rows' \in Seq(Nat) /\ Len(rows') = n + 1
      /\ \A i \in 1 .. n + 1 :
           rows'[i] = IF i <= k THEN rows[i] ELSE IF i = k + 1 THEN s ELSE rows[i - 1]
  <2>1. /\ s \in Nat /\ n \in Nat /\ rows \in Seq(Nat) /\ n = Len(rows) /\ k \in 0 .. n
        /\ rows' = InsertAt(rows, k + 1, s)
    OBVIOUS
  <2>2. WithRow(InsertAt(rows, k + 1, s), k, s, n)
    BY ONLY <2>1, Inserted
  <2>3. WithRow(rows', k, s, n)
    BY <2>1, <2>2
  <2> QED BY ONLY <2>3 DEF WithRow
<1>2. ASSUME NEW i \in 1 .. n
      PROVE  rows[i] \in Nat /\ (i <= k => rows[i] < s) /\ (i > k => rows[i] > s)
  <2>1. i - 1 \in 0 .. n - 1 /\ (i - 1) + 1 = i /\ (i <= k <=> i - 1 < k) /\ (i > k <=> i - 1 >= k)
    OBVIOUS
  <2>2. Row(i - 1) = rows[i]
    BY <2>1 DEF Row
  <2> QED BY <2>1, <2>2 DEF Fits
<1>3. ASSUME NEW i \in 1 .. n, NEW j \in 1 .. n, i < j PROVE rows[i] < rows[j]
  BY <1>3 DEF Increasing
<1>4. ASSUME NEW i \in 1 .. n + 1, NEW j \in 1 .. n + 1, i < j PROVE rows'[i] < rows'[j]
  <2>1. CASE i <= k /\ j <= k
    <3>1. i \in 1 .. n /\ j \in 1 .. n
      BY <2>1
    <3> QED BY <1>1, <1>3, <1>4, <2>1, <3>1
  <2>2. CASE i <= k /\ j = k + 1
    <3>1. i \in 1 .. n /\ ~(j <= k)
      BY <2>2
    <3> QED BY <1>1, <1>2, <2>2, <3>1
  <2>3. CASE i <= k /\ j > k + 1
    <3>1. i \in 1 .. n /\ j - 1 \in 1 .. n /\ i < j - 1 /\ ~(j <= k) /\ j # k + 1
      BY <2>3
    <3>2. rows[i] < rows[j - 1]
      BY <1>3, <3>1
    <3> QED BY <1>1, <2>3, <3>1, <3>2
  <2>4. CASE i = k + 1
    <3>1. j - 1 \in 1 .. n /\ j - 1 > k /\ ~(j <= k) /\ j # k + 1 /\ ~(i <= k)
      BY <1>4, <2>4
    <3>2. rows[j - 1] > s /\ rows[j - 1] \in Nat
      BY <1>2, <3>1
    <3> QED BY <1>1, <2>4, <3>1, <3>2
  <2>5. CASE i > k + 1
    <3>1. /\ i - 1 \in 1 .. n /\ j - 1 \in 1 .. n /\ i - 1 < j - 1
          /\ ~(j <= k) /\ j # k + 1 /\ ~(i <= k) /\ i # k + 1
      BY <1>4, <2>5
    <3>2. rows[i - 1] < rows[j - 1]
      BY <1>3, <3>1
    <3> QED BY <1>1, <3>1, <3>2
  <2>6. (i <= k \/ i = k + 1 \/ i > k + 1) /\ (j <= k \/ j = k + 1 \/ j > k + 1)
    OBVIOUS
  <2> QED BY <2>1, <2>2, <2>3, <2>4, <2>5, <2>6
<1>5. DOMAIN rows' = 1 .. n + 1
  BY <1>1
<1> QED BY <1>1, <1>4, <1>5 DEF Increasing

(* A state of the search. *)
Searching(x) ==
  \E k \in Nat, step \in Nat, found \in BOOLEAN, end \in BOOLEAN : x = State(k, step, found, end)

LEMMA LookSearches ==
  ASSUME NEW s \in Nat, NEW n \in Nat \ {0}, rows \in Seq(Nat), n = Len(rows),
         NEW x, Searching(x)
  PROVE  Searching(Look(x, s))
<1>1. PICK k \in Nat, step \in Nat, found \in BOOLEAN, end \in BOOLEAN :
        x = State(k, step, found, end)
  BY DEF Searching
<1>2. CASE step = 0 \/ found \/ end
  <2>1. x.step = 0 \/ x.found \/ x.end
    BY <1>1, <1>2 DEF State
  <2> QED BY <2>1, LookStays
<1>3. CASE step # 0 /\ ~found /\ ~end
  <2> DEFINE c == At(k, n)
             h == step \div 2
             y == Look(x, s)
             d == IF c < step THEN 0 ELSE c - step
  <2>1. c \in 0 .. n - 1 /\ step \in Nat \ {0} /\ x = State(k, step, FALSE, FALSE)
    <3>1. c \in 0 .. n - 1 /\ step \in Nat \ {0}
      BY <1>3 DEF At
    <3>2. found = FALSE /\ end = FALSE
      BY <1>3
    <3> QED BY <1>1, <3>1, <3>2
  <2>2. h \in Nat /\ c \in Nat /\ c + step \in Nat /\ d \in Nat
    BY <2>1
  <2>3. Moved(y, c, step, s)
    <3>1. c = At(k, n)
      OBVIOUS
    <3> HIDE DEF c
    <3> QED BY <2>1, <3>1, LookMoves
  <2>4. \/ y = State(c, step, TRUE, FALSE)
        \/ y = State(c + step, h, FALSE, FALSE)
        \/ y = State(d, h, FALSE, c = 0)
    <3> HIDE DEF c, y
    <3> QED BY <2>3 DEF Moved
  <2>5. (c = 0) \in BOOLEAN
    OBVIOUS
  <2> HIDE DEF c, h, y, d
  <2>6. Searching(y)
    BY <2>2, <2>4, <2>5 DEF Searching
  <2> QED BY <2>6 DEF y
<1> QED BY <1>2, <1>3

(* Whatever the rows, the place that the search returns is one of the list *)
(* or the end of it.                                                       *)
LEMMA FindRowInList ==
  ASSUME NEW s \in Nat, rows \in Seq(Nat), ~FindRow(s).found
  PROVE  FindRow(s).k \in 0 .. Len(rows)
<1> DEFINE n == Len(rows)
<1>1. n \in Nat /\ n = Len(rows)
  OBVIOUS
<1> HIDE DEF n
<1>2. PICK at : /\ at[0] = State(n \div 2, n \div 2, FALSE, FALSE)
                /\ \A i \in 1 .. n : at[i] = Look(at[i - 1], s)
                /\ Searched(s) = at[n]
  BY <1>1, SearchGoesOn
<1> DEFINE S == {i \in Nat : i <= n => Searching(at[i])}
<1>3. 0 \in S
  <2>1. n \div 2 \in Nat
    BY <1>1
  <2> QED BY <1>2, <2>1 DEF Searching
<1>4. ASSUME NEW i \in Nat, i \in S PROVE i + 1 \in S
  <2> SUFFICES ASSUME i + 1 <= n PROVE Searching(at[i + 1])
    OBVIOUS
  <2>1. n # 0 /\ i <= n /\ i + 1 \in 1 .. n /\ (i + 1) - 1 = i
    BY <1>1
  <2>2. Searching(at[i]) /\ at[i + 1] = Look(at[i], s)
    BY <1>2, <1>4, <2>1
  <2> QED BY <1>1, <2>1, <2>2, LookSearches
<1>5. n \in S
  <2> HIDE DEF S
  <2> QED BY <1>1, <1>3, <1>4, AllNumbers
<1>6. PICK k \in Nat, step \in Nat, found \in BOOLEAN, end \in BOOLEAN :
        Searched(s) = State(k, step, found, end)
  BY <1>1, <1>2, <1>5 DEF Searching
<1>7. Searched(s).k = k /\ Searched(s).found = found
  BY <1>6 DEF State
<1>8. CASE n = 0
  <2>1. Searched(s) = State(0, 0, FALSE, FALSE)
    <3>1. n \div 2 = 0
      BY <1>8
    <3> QED BY <1>2, <1>8, <3>1
  <2>2. FindRow(s).k = 0
    BY <1>1, <1>8, <2>1 DEF FindRow, State
  <2> QED BY <1>1, <1>8, <2>2
<1>9. CASE n # 0 /\ ~found
  <2>1. FindRow(s) = IF k >= n THEN [found |-> FALSE, k |-> n]
                     ELSE [found |-> Row(k) = s, k |-> IF Row(k) < s THEN k + 1 ELSE k]
    BY <1>1, <1>7, <1>9 DEF FindRow
  <2>2. CASE k >= n
    BY <1>1, <2>1, <2>2
  <2>3. CASE ~(k >= n)
    <3>1. FindRow(s).k = k \/ FindRow(s).k = k + 1
      BY <2>1, <2>3
    <3> QED BY <1>1, <2>3, <3>1
  <2> QED BY <2>2, <2>3
<1>10. CASE found
  BY <1>7, <1>10 DEF FindRow
<1> QED BY <1>8, <1>9, <1>10

(* addOrdered keeps the rows in increasing order and without duplicates,   *)
(* whatever is added and however long the list is, as long as half of its  *)
(* length is 0 or a power of two.                                          *)
THEOREM RowsStayOrdered == RowsSpec => RowsIncrease
<1> DEFINE RowsTyped == rows \in Seq(Nat)
           Kept == Increasing /\ PowerOfTwo(Len(rows) \div 2) => Increasing'
<1>1. RowsInit => RowsTyped
  BY DEF RowsInit
<1>2. ASSUME RowsTyped, NEW s \in Sigs, AddOrdered(s),
             Increasing, PowerOfTwo(Len(rows) \div 2)
      PROVE  Increasing'
  <2> DEFINE n == Len(rows)
  <2>1. s \in Nat /\ n \in Nat
    BY <1>2, RowsAssumption
  <2>2. rows \in Seq(Nat) /\ n = Len(rows) /\ Increasing /\ PowerOfTwo(n \div 2)
    BY <1>2
  <2> HIDE DEF n
  <2>3. rows' = IF FindRow(s).found THEN rows ELSE InsertAt(rows, FindRow(s).k + 1, s)
    BY <1>2 DEF AddOrdered
  <2>4. \/ FindRow(s).found = TRUE
        \/ FindRow(s).found = FALSE /\ FindRow(s).k \in 0 .. n /\ Fits(FindRow(s).k, s, n)
    BY ONLY <2>1, <2>2, FindRowIsRight
  <2>5. CASE FindRow(s).found = TRUE
    <3>1. rows' = rows
      BY <2>3, <2>5
    <3> QED BY <2>2, <3>1 DEF Increasing
  <2>6. CASE /\ FindRow(s).found = FALSE
             /\ FindRow(s).k \in 0 .. n
             /\ Fits(FindRow(s).k, s, n)
    <3> DEFINE k == FindRow(s).k
    <3>1. k \in 0 .. n /\ Fits(k, s, n) /\ rows' = InsertAt(rows, k + 1, s)
      BY <2>3, <2>6
    <3> HIDE DEF k
    <3> QED BY <2>1, <2>2, <3>1, FitsInOrder
  <2> QED BY <2>4, <2>5, <2>6
<1>3. RowsTyped /\ [RowsNext]_rows => RowsTyped'
  <2> SUFFICES ASSUME RowsTyped, NEW s \in Sigs, AddOrdered(s) PROVE RowsTyped'
    BY DEF RowsNext
  <2>1. rows' = IF FindRow(s).found THEN rows ELSE InsertAt(rows, FindRow(s).k + 1, s)
    BY DEF AddOrdered
  <2>2. CASE ~FindRow(s).found
    <3> DEFINE n == Len(rows)
               k == FindRow(s).k
    <3>1. n \in Nat /\ n = Len(rows) /\ s \in Nat /\ rows \in Seq(Nat)
      BY RowsAssumption
    <3>2. k \in 0 .. n /\ rows' = InsertAt(rows, k + 1, s)
      BY <2>1, <2>2, <3>1, FindRowInList
    <3> HIDE DEF n, k
    <3>3. WithRow(InsertAt(rows, k + 1, s), k, s, n)
      BY <3>1, <3>2, Inserted
    <3> QED BY <3>2, <3>3 DEF WithRow
  <2> QED BY <2>1, <2>2
<1>4. RowsTyped /\ [RowsNext]_rows => [Kept]_rows
  BY <1>2 DEF RowsNext
<1> HIDE DEF RowsTyped
<1> QED BY <1>1, <1>3, <1>4, PTL DEF RowsSpec, RowsIncrease
=============================================================================
