----------------------------- MODULE MatrixProofs -----------------------------
(***************************************************************************)
(* Theorems about windows of any shape on allocations of any size, with    *)
(* words of any length: which columns the parts of a row are, what         *)
(* comparing words says about cells, that every operation does to the      *)
(* cells what CellGrid promises, and that what is read of a window in      *)
(* longs is what is read of its cells.                                     *)
(***************************************************************************)
EXTENDS BinaryMatrix, TLAPS, SequenceTheorems, WellFoundedInduction, FiniteSetTheorems

(* Division with a remainder. *)
LEMMA DivMod ==
  ASSUME NEW a \in Nat, NEW w \in Nat \ {0}
  PROVE  /\ a % w \in 0 .. w - 1 /\ a \div w \in Nat
         /\ a = w * (a \div w) + (a % w)
OBVIOUS

(* A number that is put together of words and a rest.                      *)
LEMMA DivModIs ==
  ASSUME NEW q \in Nat, NEW w \in Nat \ {0}, NEW r \in 0 .. w - 1
  PROVE  (w * q + r) \div w = q /\ (w * q + r) % w = r
OBVIOUS

(* It can be put together in one way only.                                 *)
LEMMA QuotientIsOne ==
  ASSUME NEW w \in Nat \ {0}, NEW q \in Int, NEW r \in 0 .. w - 1,
         NEW u \in Int, NEW s \in 0 .. w - 1, w * q + r = w * u + s
  PROVE  q = u /\ r = s
<1>1. w * (q - u) = s - r
  OBVIOUS
<1>2. q - u >= 1 => w * (q - u) >= w
  OBVIOUS
<1>3. u - q >= 1 => w * (u - q) >= w
  OBVIOUS
<1> QED BY <1>1, <1>2, <1>3

(* A long has bits.                                                        *)
LEMMA Words == WordBits \in Nat \ {0, 1} /\ WordBits \in Nat \ {0}
BY MatrixAssumption
-----------------------------------------------------------------------------
(* A window that is not empty and lies in its allocation. *)
Window(x) ==
  /\ x.rows \in Nat \ {0} /\ x.cols \in Nat \ {0} /\ x.ro \in Nat /\ x.co \in Nat
  /\ x.arows \in Nat /\ x.acols \in Nat
  /\ x.ro + x.rows <= x.arows /\ x.co + x.cols <= x.acols
  /\ \A i \in 0 .. x.arows - 1, k \in 0 .. RowInc(x.acols) - 1 : x.mem[i][k] \subseteq Long

(* Whole words begin where a word begins and end where one ends. *)
LEMMA IndexIs ==
  ASSUME NEW x, Window(x)
  PROVE  \E top, longs \in Nat :
           /\ GetIndex(x) = [top |-> top, last |-> top + WordBits * longs, longs |-> longs]
           /\ top + WordBits * longs <= x.cols
           /\ top < x.cols => \E q \in Nat : x.co + top = WordBits * q
<1> DEFINE W == WordBits co == x.co cols == x.cols
           first == W - (co % W)
           t == IF first = W /\ cols >= W THEN 0 ELSE first
           last == cols - ((co + cols) % W)
<1>1. /\ W \in Nat \ {0} /\ co \in Nat /\ cols \in Nat \ {0} /\ co + cols \in Nat
  BY Words DEF Window
<1>2. GetIndex(x) = IF cols < t THEN [top |-> cols, last |-> cols, longs |-> 0]
                    ELSE [top |-> t, last |-> last, longs |-> (last - t) \div W]
  <2>1. ~(x.cols < 1 \/ x.rows < 1)
    BY DEF Window
  <2> QED BY <2>1 DEF GetIndex
<1>3. PICK q \in Nat, r \in 0 .. W - 1 : co = W * q + r /\ co % W = r
  BY <1>1, DivMod
<1>4. PICK u \in Nat, s \in 0 .. W - 1 : co + cols = W * u + s /\ (co + cols) % W = s
  BY <1>1, DivMod
<1> HIDE DEF W, co, cols
<1>5. CASE cols < t
  <2>1. GetIndex(x) = [top |-> cols, last |-> cols + W * 0, longs |-> 0]
    BY <1>1, <1>2, <1>5
  <2>2. cols + W * 0 <= cols /\ ~(cols < cols) /\ cols \in Nat /\ 0 \in Nat
    BY <1>1
  <2> QED BY <2>1, <2>2 DEF cols, W
<1>6. CASE ~(cols < t)
  <2>1. t \in Nat /\ t <= cols /\ \E v \in Nat : co + t = W * v
    <3>1. CASE r = 0 /\ cols >= W
      <4>1. first = W
        BY <1>1, <1>3, <3>1
      <4>2. t = 0
        BY <3>1, <4>1
      <4>3. co + t = W * q
        BY <1>1, <1>3, <3>1, <4>2
      <4> QED BY <1>1, <4>2, <4>3
    <3>2. CASE ~(r = 0 /\ cols >= W)
      <4>1. t = W - r
        BY <1>1, <1>3, <3>2
      <4>2. co + t = W * (q + 1) /\ q + 1 \in Nat
        BY <1>1, <1>3, <4>1
      <4>3. t \in Nat
        BY <1>1, <4>1
      <4>4. t <= cols
        BY <1>1, <1>6, <4>3
      <4> QED BY <4>2, <4>3, <4>4
    <3> QED BY <3>1, <3>2
  <2> HIDE DEF t
  <2>2. PICK v \in Nat : co + t = W * v
    BY <2>1
  <2>3. u >= v
    <3>1. W * u + s >= W * v
      BY <1>1, <1>4, <2>1, <2>2
    <3>2. u + 1 <= v => W * (u + 1) <= W * v
      BY <1>1
    <3>3. W * (u + 1) = W * u + W
      BY <1>1
    <3>4. W * u \in Nat /\ W * v \in Nat
      BY <1>1
    <3> QED BY <1>1, <3>1, <3>2, <3>3, <3>4
  <2> DEFINE n == u - v
  <2>4. n \in Nat /\ last = t + W * n
    <3>1. W * n = W * u - W * v /\ W * u \in Nat /\ W * v \in Nat
      BY <1>1
    <3>2. last = cols - s
      BY <1>4
    <3> QED BY <1>1, <1>4, <2>1, <2>2, <2>3, <3>1, <3>2
  <2> HIDE DEF n, last
  <2>5. (last - t) \div W = n
    <3>1. last - t = W * n + 0 /\ 0 \in 0 .. W - 1
      BY <1>1, <2>1, <2>4
    <3> QED BY <1>1, <2>4, <3>1, DivModIs
  <2>6. last <= cols
    BY <1>1, <1>4 DEF last
  <2> QED BY <1>2, <1>6, <2>1, <2>2, <2>4, <2>5, <2>6 DEF W, co, cols
<1> QED BY <1>5, <1>6

(* A part's columns. *)
Columns(p) == IF p.long THEN p.col .. p.col + WordBits - 1 ELSE {p.col}

Joined(s, u, v) ==
  /\ Len(s) = Len(u) + Len(v)
  /\ \A i \in 1 .. Len(u) : s[i] = u[i]
  /\ \A k \in 1 .. Len(v) : s[Len(u) + k] = v[k]

(* Two sequences one after the other.                                      *)
LEMMA Concat ==
  ASSUME NEW P, NEW u \in Seq(P), NEW v \in Seq(P)
  PROVE  u \o v \in Seq(P) /\ Joined(u \o v, u, v)
BY DEF Joined

PartSet == [col : Nat, long : BOOLEAN]

(* The parts that are single columns.                                      *)
LEMMA SinglyIs ==
  ASSUME NEW first \in Nat, NEW end \in Nat, first <= end
  PROVE  /\ Singly(first, end) \in Seq(PartSet) /\ Len(Singly(first, end)) = end - first
         /\ \A k \in 1 .. end - first :
              Singly(first, end)[k] = [col |-> first + k - 1, long |-> FALSE]
<1>1. Singly(first, end) = [k \in 1 .. end - first |-> [col |-> first + k - 1, long |-> FALSE]]
  BY DEF Singly
<1>2. \A k \in 1 .. end - first : [col |-> first + k - 1, long |-> FALSE] \in PartSet
  BY DEF PartSet
<1> DEFINE size == end - first
           part(k) == [col |-> first + k - 1, long |-> FALSE]
           s == [k \in 1 .. size |-> part(k)]
<1>3. size \in Nat
  OBVIOUS
<1> HIDE DEF size, part
<1>4. DOMAIN s = 1 .. size /\ \A k \in 1 .. size : s[k] = part(k)
  OBVIOUS
<1>5. Len(s) = size
  BY <1>3
<1>6. s \in Seq(PartSet)
  <2>1. \A k \in 1 .. size : part(k) \in PartSet
    BY <1>2 DEF size, part
  <2> QED BY <1>3, <2>1
<1> QED BY <1>1, <1>4, <1>5, <1>6 DEF size, part

(* The parts before the first whole word, the words, and the parts behind. *)
Composed(parts, t, n, l, c) ==
  /\ parts \in Seq(PartSet) /\ Len(parts) = (t + n) + (c - l)
  /\ \A i \in 1 .. t : parts[i] = [col |-> i - 1, long |-> FALSE]
  /\ \A k \in 1 .. n : parts[t + k] = [col |-> t + (k - 1) * WordBits, long |-> TRUE]
  /\ \A k \in 1 .. c - l : parts[(t + n) + k] = [col |-> l + k - 1, long |-> FALSE]

(* The parts of a row are columns, whole longs, and columns again.         *)
LEMMA PartsAre ==
  ASSUME NEW x, NEW t \in Nat, NEW n \in Nat, NEW l \in Nat, l = t + WordBits * n,
         l <= x.cols, x.cols \in Nat,
         GetIndex(x) = [top |-> t, last |-> l, longs |-> n]
  PROVE  Composed(Parts(x), t, n, l, x.cols)
<1> DEFINE W == WordBits c == x.cols
           P == PartSet
           a == Singly(0, t)
           w == [k \in 1 .. n |-> [col |-> t + (k - 1) * W, long |-> TRUE]]
           z == Singly(l, c)
<1>1. W \in Nat /\ c \in Nat /\ l \in Nat /\ l <= c /\ c - l \in Nat
  BY Words
<1>2. Parts(x) = (a \o w) \o z
  BY DEF Parts
<1>3. /\ a \in Seq(P) /\ Len(a) = t
      /\ \A i \in 1 .. t : a[i] = [col |-> i - 1, long |-> FALSE]
  <2>1. t - 0 = t /\ 0 <= t /\ 0 \in Nat /\ \A i \in 1 .. t : 0 + i - 1 = i - 1
    OBVIOUS
  <2>2. /\ a \in Seq(P) /\ Len(a) = t - 0
        /\ \A i \in 1 .. t - 0 : a[i] = [col |-> 0 + i - 1, long |-> FALSE]
    BY <2>1, SinglyIs
  <2> HIDE DEF a
  <2> QED BY <2>1, <2>2
<1>4. /\ w \in Seq(P) /\ Len(w) = n
      /\ \A k \in 1 .. n : w[k] = [col |-> t + (k - 1) * W, long |-> TRUE]
  <2>1. \A k \in 1 .. n : (k - 1) * W \in Nat
    BY <1>1
  <2>2. \A k \in 1 .. n : [col |-> t + (k - 1) * W, long |-> TRUE] \in P
    BY <2>1 DEF PartSet
  <2> HIDE DEF P
  <2> QED BY <2>2
<1>5. /\ z \in Seq(P) /\ Len(z) = c - l
      /\ \A k \in 1 .. c - l : z[k] = [col |-> l + k - 1, long |-> FALSE]
  BY <1>1, SinglyIs
<1> HIDE DEF P, a, w, z, c
<1> DEFINE aw == a \o w
<1>6. /\ aw \in Seq(P) /\ Len(aw) = t + n
      /\ \A i \in 1 .. t : aw[i] = a[i]
      /\ \A k \in 1 .. n : aw[t + k] = w[k]
  <2>1. a \in Seq(P) /\ w \in Seq(P) /\ Len(a) = t /\ Len(w) = n
    BY <1>3, <1>4
  <2>2. aw \in Seq(P) /\ Joined(aw, a, w)
    BY ONLY <2>1, Concat DEF aw
  <2> QED BY ONLY <2>1, <2>2 DEF Joined
<1> HIDE DEF aw
<1>7. /\ aw \o z \in Seq(P) /\ Len(aw \o z) = (t + n) + (c - l)
      /\ \A i \in 1 .. t + n : (aw \o z)[i] = aw[i]
      /\ \A k \in 1 .. c - l : (aw \o z)[t + n + k] = z[k]
  <2>1. aw \in Seq(P) /\ z \in Seq(P) /\ Len(aw) = t + n /\ Len(z) = c - l
    BY <1>5, <1>6
  <2>2. aw \o z \in Seq(P) /\ Joined(aw \o z, aw, z)
    BY ONLY <2>1, Concat
  <2> QED BY ONLY <2>1, <2>2 DEF Joined
<1>8. \A i \in 1 .. t : i \in 1 .. t + n
  OBVIOUS
<1>9. \A k \in 1 .. n : t + k \in 1 .. t + n
  OBVIOUS
<1>10. Parts(x) = aw \o z
  BY <1>2 DEF aw
<1>11. ASSUME NEW i \in 1 .. t PROVE Parts(x)[i] = [col |-> i - 1, long |-> FALSE]
  <2>1. Parts(x)[i] = aw[i]
    BY ONLY <1>7, <1>8, <1>10, i \in 1 .. t
  <2>2. aw[i] = a[i]
    BY ONLY <1>6, i \in 1 .. t
  <2> QED BY <1>3, <2>1, <2>2
<1>12. ASSUME NEW k \in 1 .. n
       PROVE  Parts(x)[t + k] = [col |-> t + (k - 1) * W, long |-> TRUE]
  <2>1. Parts(x)[t + k] = aw[t + k]
    BY <1>7, <1>9, <1>10
  <2>2. aw[t + k] = w[k]
    BY <1>6
  <2> QED BY <1>4, <2>1, <2>2
<1>13. \A k \in 1 .. c - l : Parts(x)[t + n + k] = [col |-> l + k - 1, long |-> FALSE]
  BY <1>5, <1>7, <1>10
<1> QED BY <1>7, <1>10, <1>11, <1>12, <1>13 DEF P, c, Composed

(* A word of x that is a part of its rows is a word there. *)
Aligned(x, p) == p.long => \E q \in Nat : x.co + p.col = WordBits * q

(* getIndex splits the rows of a window of any shape, with words of any    *)
(* length, so that each column is in exactly one part, and that the parts  *)
(* that are words hold no column outside of the window.                    *)
THEOREM PartsTile ==
  ASSUME NEW x, Window(x)
  PROVE  /\ \A i \in DOMAIN Parts(x) :
              Columns(Parts(x)[i]) \subseteq 0 .. x.cols - 1 /\ Aligned(x, Parts(x)[i])
         /\ \A j \in 0 .. x.cols - 1 : \E i \in DOMAIN Parts(x) :
              /\ j \in Columns(Parts(x)[i])
              /\ \A k \in DOMAIN Parts(x) : j \in Columns(Parts(x)[k]) => k = i
<1> DEFINE W == WordBits c == x.cols
<1>1. PICK t \in Nat, n \in Nat :
        /\ GetIndex(x) = [top |-> t, last |-> t + W * n, longs |-> n]
        /\ t + W * n <= c
        /\ t < c => \E q \in Nat : x.co + t = W * q
  BY IndexIs
<1> DEFINE l == t + W * n
<1>2. W \in Nat \ {0} /\ c \in Nat \ {0} /\ W * n \in Nat /\ l \in Nat /\ l <= c /\ x.co \in Nat
  BY <1>1, Words DEF Window
<1>3. /\ Parts(x) \in Seq(PartSet)
      /\ Len(Parts(x)) = (t + n) + (c - l)
      /\ \A i \in 1 .. t : Parts(x)[i] = [col |-> i - 1, long |-> FALSE]
      /\ \A k \in 1 .. n : Parts(x)[t + k] = [col |-> t + (k - 1) * W, long |-> TRUE]
      /\ \A k \in 1 .. c - l : Parts(x)[(t + n) + k] = [col |-> l + k - 1, long |-> FALSE]
  <2> HIDE DEF l
  <2>1. /\ l = t + WordBits * n /\ l <= x.cols /\ x.cols \in Nat /\ l \in Nat
        /\ GetIndex(x) = [top |-> t, last |-> l, longs |-> n]
    BY <1>1, <1>2 DEF l
  <2>2. Composed(Parts(x), t, n, l, x.cols)
    BY ONLY <2>1, PartsAre, t \in Nat, n \in Nat
  <2> QED BY ONLY <2>2 DEF Composed, W, c
<1> DEFINE D == 1 .. (t + n) + (c - l)
           p(i) == Parts(x)[i]
<1>4. DOMAIN Parts(x) = D
  BY <1>2, <1>3
<1> HIDE DEF W, c, l
<1>5. l = t + W * n
  BY DEF l
<1>6. ASSUME NEW i \in D
      PROVE  \/ i \in 1 .. t
             \/ \E k \in 1 .. n : i = t + k
             \/ \E k \in 1 .. c - l : i = t + n + k
  <2>1. \/ i \in 1 .. t
        \/ i - t \in 1 .. n /\ i = t + (i - t)
        \/ i - (t + n) \in 1 .. c - l /\ i = t + n + (i - (t + n))
    BY <1>2
  <2> QED BY <2>1
<1>7. ASSUME NEW i \in 1 .. t
      PROVE  i \in D /\ Columns(p(i)) = {i - 1} /\ Aligned(x, p(i)) /\ i - 1 < t
  <2>1. p(i) = [col |-> i - 1, long |-> FALSE]
    BY <1>3
  <2>2. Columns(p(i)) = {i - 1} /\ Aligned(x, p(i))
    BY ONLY <2>1 DEF Columns, Aligned
  <2>3. i \in D /\ i - 1 < t
    BY <1>2
  <2> QED BY <2>2, <2>3
<1>8. ASSUME NEW k \in 1 .. n
      PROVE  /\ t + k \in D
             /\ Columns(p(t + k)) = t + W * (k - 1) .. t + W * (k - 1) + W - 1
             /\ Aligned(x, p(t + k))
             /\ W * (k - 1) \in Nat /\ t + W * (k - 1) + W <= l
  <2>1. p(t + k) = [col |-> t + W * (k - 1), long |-> TRUE]
    <3>1. (k - 1) * W = W * (k - 1)
      BY <1>2
    <3> QED BY <1>3, <3>1
  <2>2. W * (k - 1) \in Nat /\ W * k = W * (k - 1) + W /\ W * k \in Nat
    BY <1>2
  <2>3. W * k <= W * n
    <3>1. W * n = W * k + W * (n - k) /\ W * (n - k) \in Nat
      BY <1>2
    <3> QED BY <1>2, <2>2, <3>1
  <2>4. t < c
    BY <1>2, <1>5, <2>2, <2>3
  <2>5. PICK q \in Nat : x.co + t = W * q
    BY <1>1, <2>4 DEF W, c
  <2>6. x.co + (t + W * (k - 1)) = W * (q + (k - 1)) /\ q + (k - 1) \in Nat
    <3>1. W * (q + (k - 1)) = W * q + W * (k - 1)
      BY <1>2
    <3> DEFINE y == W * (k - 1)
               u == W * q
    <3>2. y \in Nat /\ u \in Nat /\ W * (q + (k - 1)) = u + y /\ x.co + t = u
      BY <1>2, <2>2, <2>5, <3>1
    <3> HIDE DEF y, u
    <3>3. x.co + (t + y) = u + y
      BY <1>2, <3>2
    <3>4. q + (k - 1) \in Nat
      OBVIOUS
    <3> QED BY <3>2, <3>3, <3>4 DEF y
  <2>7. Aligned(x, p(t + k))
    BY <2>1, <2>6 DEF Aligned, W
  <2>8. Columns(p(t + k)) = t + W * (k - 1) .. t + W * (k - 1) + W - 1
    BY <2>1 DEF Columns, W
  <2>9. t + k \in D
    BY <1>2
  <2> QED BY <1>2, <1>5, <2>2, <2>3, <2>7, <2>8, <2>9
<1>9. ASSUME NEW k \in 1 .. c - l
      PROVE  /\ t + n + k \in D /\ Columns(p(t + n + k)) = {l + k - 1}
             /\ Aligned(x, p(t + n + k)) /\ l <= l + k - 1 /\ l + k - 1 < c
  <2>1. p(t + n + k) = [col |-> l + k - 1, long |-> FALSE]
    BY <1>3
  <2>2. Columns(p(t + n + k)) = {l + k - 1} /\ Aligned(x, p(t + n + k))
    BY ONLY <2>1 DEF Columns, Aligned
  <2>3. t + n + k \in D /\ l <= l + k - 1 /\ l + k - 1 < c
    BY <1>2
  <2> QED BY <2>2, <2>3
<1>10. ASSUME NEW i \in D
       PROVE  Columns(p(i)) \subseteq 0 .. c - 1 /\ Aligned(x, p(i))
  <2>1. CASE i \in 1 .. t
    <3>1. i - 1 \in 0 .. c - 1
      BY <1>2, <1>5, <2>1
    <3> QED BY <1>7, <2>1, <3>1
  <2>2. ASSUME NEW k \in 1 .. n, i = t + k
        PROVE  Columns(p(i)) \subseteq 0 .. c - 1 /\ Aligned(x, p(i))
    <3>1. /\ W * (k - 1) \in Nat /\ t + W * (k - 1) + W <= l
          /\ Columns(p(i)) = t + W * (k - 1) .. t + W * (k - 1) + W - 1
          /\ Aligned(x, p(i))
      BY <1>8, <2>2
    <3> DEFINE y == W * (k - 1)
    <3> HIDE DEF y
    <3>2. t + y .. t + y + W - 1 \subseteq 0 .. c - 1
      BY <1>2, <3>1 DEF y
    <3> QED BY <3>1, <3>2 DEF y
  <2>3. ASSUME NEW k \in 1 .. c - l, i = t + n + k
        PROVE  Columns(p(i)) \subseteq 0 .. c - 1 /\ Aligned(x, p(i))
    <3>1. l + k - 1 \in 0 .. c - 1
      BY <1>2
    <3> QED BY <1>9, <2>3, <3>1
  <2> QED BY <1>6, <2>1, <2>2, <2>3
(* Where a part lies tells which one it is. *)
<1>11. ASSUME NEW j \in 0 .. c - 1, NEW i \in D, j \in Columns(p(i))
       PROVE  \/ j < t /\ i = j + 1
              \/ /\ t <= j /\ j < l
                 /\ \E k \in 1 .. n, r \in 0 .. W - 1 : i = t + k /\ j - t = W * (k - 1) + r
              \/ l <= j /\ i = t + n + (j - l) + 1
  <2>1. CASE i \in 1 .. t
    <3>1. j = i - 1 /\ i - 1 < t
      BY <1>7, <1>11, <2>1
    <3> QED BY <2>1, <3>1
  <2>2. ASSUME NEW k \in 1 .. n, i = t + k
        PROVE  /\ t <= j /\ j < l
               /\ \E r \in 0 .. W - 1 : j - t = W * (k - 1) + r
    <3> DEFINE y == W * (k - 1)
    <3>1. y \in Nat /\ t + y + W <= l /\ j \in t + y .. t + y + W - 1
      BY <1>8, <1>11, <2>2
    <3> HIDE DEF y
    <3>2. /\ t <= j /\ j < l /\ (j - t) - y \in 0 .. W - 1
          /\ j - t = y + ((j - t) - y)
      BY <1>2, <3>1
    <3> QED BY <3>2 DEF y
  <2>3. ASSUME NEW k \in 1 .. c - l, i = t + n + k
        PROVE  l <= j /\ i = t + n + (j - l) + 1
    <3>1. j = l + k - 1
      BY <1>9, <1>11, <2>3
    <3> QED BY <1>2, <2>3, <3>1
  <2> QED BY <1>6, <2>1, <2>2, <2>3
<1>12. ASSUME NEW j \in 0 .. c - 1
       PROVE  \E i \in D : /\ j \in Columns(p(i))
                           /\ \A k \in D : j \in Columns(p(k)) => k = i
  <2>1. CASE j < t
    <3>1. j + 1 \in 1 .. t /\ (j + 1) - 1 = j /\ ~(t <= j)
      BY <2>1
    <3>2. j + 1 \in D /\ j \in Columns(p(j + 1))
      BY <1>7, <3>1
    <3>3. ~(l <= j)
      BY <1>2, <1>5, <2>1
    <3> QED BY <1>11, <3>1, <3>2, <3>3
  <2>2. CASE t <= j /\ j < l
    <3>1. j - t \in Nat
      BY <2>2
    <3>2. PICK q \in Nat, r \in 0 .. W - 1 : j - t = W * q + r
      <4>1. /\ (j - t) % W \in 0 .. W - 1 /\ (j - t) \div W \in Nat
            /\ j - t = W * ((j - t) \div W) + ((j - t) % W)
        BY <1>2, <3>1, DivMod
      <4> QED BY ONLY <4>1
    <3>3. q < n
      <4>1. n <= q => W * n <= W * q
        <5>1. W * q = W * n + W * (q - n)
          BY <1>2
        <5>2. q - n \in Nat => W * (q - n) \in Nat
          BY <1>2
        <5> QED BY <1>2, <5>1, <5>2
      <4>2. W * q <= j - t /\ j - t < W * n
        <5>1. W * q \in Nat
          BY <1>2
        <5> QED BY <1>2, <1>5, <2>2, <3>2, <5>1
      <4>3. W * q \in Nat
        BY <1>2
      <4> QED BY <1>2, <4>1, <4>2, <4>3
    <3>4. q + 1 \in 1 .. n /\ (q + 1) - 1 = q
      BY <3>3
    <3>5. t + (q + 1) \in D /\ j \in Columns(p(t + (q + 1)))
      <4>1. /\ t + (q + 1) \in D
            /\ Columns(p(t + (q + 1))) = t + W * q .. t + W * q + W - 1
        BY <1>8, <3>4
      <4> DEFINE y == W * q
      <4>2. y \in Nat /\ j - t = y + r
        BY <1>2, <3>2
      <4> HIDE DEF y
      <4>3. j \in t + y .. t + y + W - 1
        BY <1>2, <4>2
      <4> QED BY <4>1, <4>3 DEF y
    <3>6. ASSUME NEW i \in D, j \in Columns(p(i)) PROVE i = t + (q + 1)
      <4>1. PICK k \in 1 .. n, s \in 0 .. W - 1 : i = t + k /\ j - t = W * (k - 1) + s
        <5>1. ~(j < t) /\ ~(l <= j)
          BY <1>2, <2>2
        <5> QED BY <1>11, <3>6, <5>1
      <4>2. W * q + r = W * (k - 1) + s /\ k - 1 \in Int /\ q \in Int
        BY <3>2, <4>1
      <4>3. q = k - 1
        BY <1>2, <4>2, QuotientIsOne
      <4> QED BY <4>1, <4>3
    <3> QED BY <3>5, <3>6
  <2>3. CASE l <= j
    <3> DEFINE k == (j - l) + 1
    <3>1. /\ k \in 1 .. c - l /\ l + k - 1 = j /\ t + n + k = t + n + (j - l) + 1
          /\ ~(j < t) /\ ~(j < l)
      BY <1>2, <1>5, <2>3
    <3>2. t + n + k \in D /\ j \in Columns(p(t + n + k))
      BY <1>9, <3>1
    <3> HIDE DEF k
    <3> QED BY <1>11, <3>1, <3>2
  <2>4. j < t \/ (t <= j /\ j < l) \/ l <= j
    BY <1>2
  <2> QED BY <2>1, <2>2, <2>3, <2>4
<1>13. /\ \A i \in D : Columns(p(i)) \subseteq 0 .. c - 1 /\ Aligned(x, p(i))
       /\ \A j \in 0 .. c - 1 : \E i \in D :
            /\ j \in Columns(p(i))
            /\ \A k \in D : j \in Columns(p(k)) => k = i
  BY <1>10, <1>12
<1> HIDE DEF D
<1> QED BY <1>4, <1>13 DEF c
-----------------------------------------------------------------------------
(* Words and cells.                                                        *)

(* A part of the rows of x. *)
Lies(x, p) == p \in PartSet /\ Columns(p) \subseteq 0 .. x.cols - 1 /\ Aligned(x, p)

Size(p) == IF p.long THEN WordBits ELSE 1

(* The columns of a part.                                                  *)
LEMMA ColumnsAre ==
  ASSUME NEW p \in PartSet
  PROVE  /\ p.col \in Nat /\ Size(p) \in Nat \ {0}
         /\ \A j \in Int : j \in Columns(p) <=> j - p.col \in 0 .. Size(p) - 1
BY Words DEF Columns, Size, PartSet

(* A cell of the window is in its allocation.                              *)
LEMMA BitIs ==
  ASSUME NEW x, Window(x), NEW i \in 0 .. x.rows - 1, NEW j \in 0 .. x.cols - 1
  PROVE  Bit(x, i, j) <=> (j + x.co) % WordBits \in x.mem[i + x.ro][(j + x.co) \div WordBits]
<1>1. Exists(x, i, j)
  BY DEF Window, Exists
<1> QED BY <1>1 DEF Bit

(* The word that holds a column is one of the row. *)
LEMMA InRow ==
  ASSUME NEW q \in Nat, NEW a \in Nat, WordBits * q < a
  PROVE  q \in 0 .. RowInc(a) - 1
<1> DEFINE W == WordBits
<1>1. W \in Nat \ {0}
  BY Words
<1>2. a % W \in 0 .. W - 1 /\ a \div W \in Nat /\ a = W * (a \div W) + (a % W)
  BY <1>1, DivMod
<1> DEFINE d == a \div W e == a % W
<1>3. RowInc(a) = d + IF e = 0 THEN 0 ELSE 1
  BY DEF RowInc
<1> HIDE DEF d, e, W
<1>4. d \in Nat /\ e \in 0 .. W - 1 /\ a = W * d + e
  BY <1>2 DEF d, e
<1>5. W * q < W * d + e
  BY <1>4 DEF W
<1>6. W * q = W * d + W * (q - d)
  BY <1>1, <1>4
<1>7. q - d >= 1 => W * (q - d) >= W
  BY <1>1, <1>4
<1>8. W * d \in Nat /\ W * (q - d) \in Int
  BY <1>1, <1>4
<1>9. ~(q - d >= 1)
  BY <1>1, <1>4, <1>5, <1>6, <1>7, <1>8
<1>10. e = 0 => q # d
  BY <1>1, <1>4, <1>5, <1>8
<1> QED BY <1>3, <1>4, <1>9, <1>10

(* What is read of a part are its cells, if a long has no more bits than   *)
(* are used.                                                               *)
LEMMA GetHas ==
  ASSUME LongBits = WordBits, NEW x, Window(x), NEW i \in 0 .. x.rows - 1,
         NEW p, Lies(x, p), NEW k \in Nat
  PROVE  /\ k \in Get(x, i, p) <=> (k < Size(p) /\ Bit(x, i, p.col + k))
         /\ Get(x, i, p) \subseteq Nat
<1> DEFINE W == WordBits
<1>1. W \in Nat \ {0} /\ x.co \in Nat /\ p.col \in Nat /\ x.acols \in Nat /\ x.cols \in Nat
      /\ x.co + x.cols <= x.acols
  BY Words DEF Window, Lies, PartSet
<1>2. CASE p.long
  <2>1. Get(x, i, p) = x.mem[i + x.ro][(p.col + x.co) \div W] /\ Size(p) = W
    BY <1>2 DEF Get, Size
  <2>2. PICK q \in Nat : x.co + p.col = W * q
    BY <1>2 DEF Lies, Aligned
  <2> HIDE DEF W
  <2>3. 0 \in 0 .. W - 1 /\ p.col + x.co = W * q + 0
    BY <1>1, <2>2
  <2>4. (p.col + x.co) \div W = q
    BY <1>1, <2>3, DivModIs
  <2>5. p.col \in Columns(p)
    BY <1>1, <1>2 DEF Columns, W
  <2>6. W * q < x.acols
    <3>1. p.col \in 0 .. x.cols - 1
      BY <2>5 DEF Lies
    <3> QED BY <1>1, <2>2, <3>1
  <2>7. x.mem[i + x.ro][q] \subseteq 0 .. W - 1
    <3>1. q \in 0 .. RowInc(x.acols) - 1
      BY <1>1, <2>6, InRow DEF W
    <3>2. i + x.ro \in 0 .. x.arows - 1
      BY DEF Window
    <3> QED BY <3>1, <3>2 DEF Window, Long, W
  <2>8. k \in Get(x, i, p) => k < W
    BY <1>1, <2>1, <2>4, <2>7
  <2>9. ASSUME k < W PROVE k \in Get(x, i, p) <=> Bit(x, i, p.col + k)
    <3>1. k \in 0 .. W - 1 /\ p.col + k + x.co = W * q + k
      BY <1>1, <2>2, <2>9
    <3>2. (p.col + k + x.co) \div W = q /\ (p.col + k + x.co) % W = k
      BY <1>1, <3>1, DivModIs
    <3>3. p.col + k \in Columns(p)
      BY <1>1, <1>2, <3>1 DEF Columns, W
    <3>4. p.col + k \in 0 .. x.cols - 1
      BY <3>3 DEF Lies
    <3> QED BY <2>1, <2>4, <3>2, <3>4, BitIs DEF W
  <2>10. Get(x, i, p) \subseteq Nat
    BY <1>1, <2>1, <2>4, <2>7
  <2> QED BY <2>1, <2>8, <2>9, <2>10
<1>3. CASE ~p.long
  <2>1. Get(x, i, p) = (IF Bit(x, i, p.col) THEN {0} ELSE {}) /\ Size(p) = 1
    BY <1>3 DEF Get, Size
  <2>2. (k < 1 <=> k = 0) /\ p.col + 0 = p.col
    BY <1>1
  <2> QED BY <2>1, <2>2
<1> QED BY <1>2, <1>3

(* What a part holds, as a set of bits.                                    *)
LEMMA GetIs ==
  ASSUME LongBits = WordBits, NEW x, Window(x), NEW i \in 0 .. x.rows - 1,
         NEW p, Lies(x, p)
  PROVE  Get(x, i, p) = {k \in Nat : k < Size(p) /\ Bit(x, i, p.col + k)}
<1>1. Get(x, i, p) \subseteq Nat
  <2>1. 0 \in Nat
    OBVIOUS
  <2> QED BY <2>1, GetHas
<1>2. \A k \in Nat : k \in Get(x, i, p) <=> (k < Size(p) /\ Bit(x, i, p.col + k))
  BY GetHas
<1> QED BY <1>1, <1>2

(* What lies on a part lies there. *)
LEMMA InWindow ==
  ASSUME NEW x, NEW p, Lies(x, p), NEW k \in Nat, k < Size(p)
  PROVE  p.col + k \in 0 .. x.cols - 1
<1>1. p.col \in Nat /\ p.col + k \in Int /\ (p.col + k) - p.col \in 0 .. Size(p) - 1
  BY ColumnsAre DEF Lies
<1>2. p.col + k \in Columns(p)
  BY <1>1, ColumnsAre DEF Lies
<1> QED BY <1>2 DEF Lies

(* The parts of two matrices of as many columns cover these, and are parts *)
(* of both.                                                                *)
LEMMA CommonPartsLie ==
  ASSUME NEW x, NEW y, Window(x), Window(y), x.cols = y.cols
  PROVE  /\ \A p \in ToSet(CommonParts(x, y)) : Lies(x, p) /\ Lies(y, p)
         /\ \A j \in 0 .. x.cols - 1 : \E p \in ToSet(CommonParts(x, y)) : j \in Columns(p)
         /\ \A p, o \in ToSet(CommonParts(x, y)) :
              (\E j \in 0 .. x.cols - 1 : j \in Columns(p) /\ j \in Columns(o)) => p = o
<1> DEFINE c == x.cols
<1>1. c \in Nat \ {0}
  BY DEF Window
<1>2. CASE GetTop(x) # GetTop(y)
  <2> DEFINE s == Singly(0, c)
  <2>1. CommonParts(x, y) = s
    BY <1>2 DEF CommonParts
  <2>2. /\ s \in Seq(PartSet) /\ Len(s) = c
        /\ \A k \in 1 .. c : s[k] = [col |-> k - 1, long |-> FALSE]
    <3>1. c - 0 = c /\ 0 <= c /\ 0 \in Nat /\ \A i \in 1 .. c : 0 + i - 1 = i - 1
      BY <1>1
    <3>2. /\ s \in Seq(PartSet) /\ Len(s) = c - 0
          /\ \A i \in 1 .. c - 0 : s[i] = [col |-> 0 + i - 1, long |-> FALSE]
      BY <1>1, <3>1, SinglyIs
    <3> HIDE DEF s, c
    <3> QED BY <3>1, <3>2
  <2> HIDE DEF s, c
  <2>3. DOMAIN s = 1 .. c
    BY <1>1, <2>2
  <2>4. ASSUME NEW k \in 1 .. c
        PROVE  /\ s[k] \in PartSet /\ Columns(s[k]) = {k - 1} /\ ~s[k].long
               /\ k - 1 \in 0 .. c - 1
    BY <1>1, <2>2 DEF Columns, PartSet
  <2>5. ASSUME NEW p \in ToSet(s) PROVE Lies(x, p) /\ Lies(y, p)
    <3>1. PICK k \in 1 .. c : p = s[k]
      BY <2>3 DEF ToSet
    <3>2. x.cols = c /\ y.cols = c
      BY DEF c
    <3> QED BY <2>4, <3>1, <3>2 DEF Lies, Aligned
  <2>6. ASSUME NEW j \in 0 .. c - 1 PROVE \E p \in ToSet(s) : j \in Columns(p)
    <3>1. j + 1 \in 1 .. c /\ (j + 1) - 1 = j
      BY <1>1
    <3>2. s[j + 1] \in ToSet(s)
      BY <2>3, <3>1 DEF ToSet
    <3> QED BY <2>4, <3>1, <3>2
  <2>7. ASSUME NEW p \in ToSet(s), NEW o \in ToSet(s),
               NEW j \in 0 .. c - 1, j \in Columns(p), j \in Columns(o)
        PROVE  p = o
    <3>1. PICK k \in 1 .. c : p = s[k]
      BY <2>3 DEF ToSet
    <3>2. PICK h \in 1 .. c : o = s[h]
      BY <2>3 DEF ToSet
    <3>3. j = k - 1 /\ j = h - 1
      BY <2>4, <2>7, <3>1, <3>2
    <3> QED BY <3>1, <3>2, <3>3
  <2> QED BY <2>1, <2>5, <2>6, <2>7 DEF c
<1>3. CASE GetTop(x) = GetTop(y)
  <2> DEFINE s == Parts(x)
  <2>1. CommonParts(x, y) = s
    BY <1>3 DEF CommonParts
  <2>2. PICK t \in Nat, n \in Nat :
          /\ GetIndex(x) = [top |-> t, last |-> t + WordBits * n, longs |-> n]
          /\ t + WordBits * n <= c
          /\ t < c => \E q \in Nat : x.co + t = WordBits * q
    BY IndexIs
  <2>3. PICK u \in Nat, v \in Nat :
          /\ GetIndex(y) = [top |-> u, last |-> u + WordBits * v, longs |-> v]
          /\ u < c => \E q \in Nat : y.co + u = WordBits * q
    BY IndexIs
  <2>4. t = u
    BY <1>3, <2>2, <2>3 DEF GetTop
  <2>5. s \in Seq(PartSet) /\ \A i \in DOMAIN s : s[i].long => n >= 1
    <3> DEFINE l == t + WordBits * n
    <3>1. /\ l = t + WordBits * n /\ l <= x.cols /\ x.cols \in Nat /\ l \in Nat
          /\ GetIndex(x) = [top |-> t, last |-> l, longs |-> n]
      BY <1>1, <2>2, Words
    <3> HIDE DEF l
    <3>2. Composed(Parts(x), t, n, l, x.cols)
      BY ONLY <3>1, PartsAre, t \in Nat, n \in Nat
    <3>3. ASSUME NEW i \in DOMAIN s, s[i].long, n = 0 PROVE FALSE
      <4>1. i \in 1 .. t + (c - l) /\ c - l \in Nat
        BY <1>1, <3>1, <3>2, <3>3 DEF Composed
      <4>2. i \in 1 .. t \/ (i - t \in 1 .. c - l /\ i = (t + n) + (i - t))
        BY <3>3, <4>1
      <4>3. CASE i \in 1 .. t
        <5>1. s[i] = [col |-> i - 1, long |-> FALSE]
          BY <3>2, <4>3 DEF Composed
        <5> QED BY <3>3, <5>1
      <4>4. CASE i - t \in 1 .. c - l /\ i = (t + n) + (i - t)
        <5>1. s[i] = [col |-> l + (i - t) - 1, long |-> FALSE]
          BY <3>2, <4>4 DEF Composed
        <5> QED BY <3>3, <5>1
      <4> QED BY <4>2, <4>3, <4>4
    <3> QED BY <3>2, <3>3 DEF Composed
  <2>6. /\ \A i \in DOMAIN s : Columns(s[i]) \subseteq 0 .. c - 1 /\ Aligned(x, s[i])
        /\ \A j \in 0 .. c - 1 : \E i \in DOMAIN s :
             /\ j \in Columns(s[i])
             /\ \A k \in DOMAIN s : j \in Columns(s[k]) => k = i
    BY PartsTile
  <2>7. ASSUME NEW i \in DOMAIN s PROVE Lies(x, s[i])
    BY <2>5, <2>6 DEF Lies
  <2>8. ASSUME NEW i \in DOMAIN s PROVE Aligned(y, s[i])
    <3>1. SUFFICES ASSUME s[i].long PROVE \E q \in Nat : y.co + s[i].col = WordBits * q
      BY DEF Aligned
    <3>2. t < c
      <4>1. n >= 1 => WordBits * n >= 1
        BY Words
      <4> QED BY <1>1, <2>2, <2>5, <3>1, <4>1, Words
    <3>3. PICK q \in Nat : x.co + t = WordBits * q
      BY <2>2, <3>2
    <3>4. PICK r \in Nat : y.co + t = WordBits * r
      BY <2>3, <2>4, <3>2
    <3>5. PICK o \in Nat : x.co + s[i].col = WordBits * o
      BY <2>6, <3>1 DEF Aligned
    <3>6. s[i].col \in Nat /\ x.co \in Nat /\ y.co \in Nat
      BY <2>7 DEF Lies, PartSet, Window
    <3> DEFINE d == r + (o - q)
    <3>7. y.co + s[i].col = WordBits * d
      <4>1. WordBits * d = WordBits * r + (WordBits * o - WordBits * q)
        BY Words
      <4>2. WordBits * r \in Nat /\ WordBits * o \in Nat /\ WordBits * q \in Nat
        BY Words
      <4> QED BY <3>3, <3>4, <3>5, <3>6, <4>1, <4>2
    <3>8. d \in Nat
      <4>1. d \in Int
        OBVIOUS
      <4> HIDE DEF d
      <4>2. -d >= 1 => WordBits * (-d) >= 1
        BY <4>1, Words
      <4>3. WordBits * (-d) = -(WordBits * d)
        BY <4>1, Words
      <4> QED BY <3>6, <3>7, <4>1, <4>2, <4>3
    <3> QED BY <3>7, <3>8
  <2> HIDE DEF s
  <2>9. \A i \in DOMAIN s : Lies(y, s[i])
    BY <2>7, <2>8 DEF Lies
  <2>10. ASSUME NEW p \in ToSet(s), NEW o \in ToSet(s),
                NEW j \in 0 .. c - 1, j \in Columns(p), j \in Columns(o)
         PROVE  p = o
    <3>1. PICK k \in DOMAIN s : p = s[k]
      BY DEF ToSet
    <3>2. PICK h \in DOMAIN s : o = s[h]
      BY DEF ToSet
    <3>3. k = h
      BY <2>6, <2>10, <3>1, <3>2
    <3> QED BY <3>1, <3>2, <3>3
  <2> QED BY <2>1, <2>6, <2>7, <2>9, <2>10 DEF ToSet, c
<1> QED BY <1>2, <1>3

(* A column on a part is one of its bits. *)
LEMMA OnPart ==
  ASSUME NEW x, NEW p, Lies(x, p), NEW j \in 0 .. x.cols - 1, x.cols \in Nat, j \in Columns(p)
  PROVE  \E k \in Nat : k < Size(p) /\ j = p.col + k
<1>1. p.col \in Nat /\ j - p.col \in 0 .. Size(p) - 1 /\ Size(p) \in Nat /\ j \in Nat
  BY ColumnsAre DEF Lies
<1>2. j - p.col \in Nat /\ j - p.col < Size(p) /\ j = p.col + (j - p.col)
  BY <1>1
<1> QED BY <1>2

(* A bit of a part is one of its columns.                                  *)
LEMMA OfPart ==
  ASSUME NEW x, NEW p, Lies(x, p), NEW k \in Nat, k < Size(p)
  PROVE  p.col + k \in Columns(p)
<1>1. p.col \in Nat /\ p.col + k \in Int /\ (p.col + k) - p.col \in 0 .. Size(p) - 1
  BY ColumnsAre DEF Lies
<1> QED BY <1>1, ColumnsAre DEF Lies

(* Two rows, of two matrices, that are read in parts. *)
Alike(x, i, y, h) == \A j \in 0 .. x.cols - 1 : Bit(x, i, j) <=> Bit(y, h, j)

(* Two rows are alike if their parts are.                                  *)
LEMMA RowsAlike ==
  ASSUME LongBits = WordBits, NEW x, NEW y, Window(x), Window(y), x.cols = y.cols,
         NEW i \in 0 .. x.rows - 1, NEW h \in 0 .. y.rows - 1
  PROVE  (\A p \in ToSet(CommonParts(x, y)) : Get(x, i, p) = Get(y, h, p)) <=> Alike(x, i, y, h)
<1> DEFINE C == ToSet(CommonParts(x, y))
<1>1. /\ \A p \in C : Lies(x, p) /\ Lies(y, p)
      /\ \A j \in 0 .. x.cols - 1 : \E p \in C : j \in Columns(p)
  BY CommonPartsLie
<1>2. x.cols \in Nat
  BY DEF Window
<1> HIDE DEF C
<1>3. ASSUME NEW p \in C
      PROVE  /\ Get(x, i, p) = {k \in Nat : k < Size(p) /\ Bit(x, i, p.col + k)}
             /\ Get(y, h, p) = {k \in Nat : k < Size(p) /\ Bit(y, h, p.col + k)}
  BY <1>1, GetIs
<1>4. ASSUME \A p \in C : Get(x, i, p) = Get(y, h, p) PROVE Alike(x, i, y, h)
  <2>1. ASSUME NEW j \in 0 .. x.cols - 1 PROVE Bit(x, i, j) <=> Bit(y, h, j)
    <3>1. PICK p \in C : j \in Columns(p)
      BY <1>1
    <3>2. PICK k \in Nat : k < Size(p) /\ j = p.col + k
      BY <1>1, <1>2, <3>1, OnPart
    <3>3. Get(x, i, p) = Get(y, h, p)
      BY <1>4
    <3> QED BY <1>3, <3>2, <3>3
  <2> QED BY <2>1 DEF Alike
<1>5. ASSUME Alike(x, i, y, h), NEW p \in C PROVE Get(x, i, p) = Get(y, h, p)
  <2>1. \A k \in Nat : k < Size(p) => (Bit(x, i, p.col + k) <=> Bit(y, h, p.col + k))
    BY <1>1, <1>5, InWindow DEF Alike
  <2> QED BY <1>3, <2>1
<1> QED BY <1>4, <1>5 DEF C

(* The cells that are 1.                                                   *)
LEMMA OnesAre ==
  ASSUME NEW x, NEW i \in 0 .. x.rows - 1, NEW j \in 0 .. x.cols - 1
  PROVE  <<i, j>> \in Ones(x) <=> Bit(x, i, j)
BY DEF Ones, Places

(* Word by word, == says that the windows have the same cells, wherever    *)
(* these lie in their allocations.                                         *)
THEOREM EqualTellsCells ==
  ASSUME LongBits = WordBits, NEW x, NEW y, Window(x), Window(y), SameSize(x, y)
  PROVE  Equal(x, y) <=> Ones(x) = Ones(y)
<1>1. x.rows = y.rows /\ x.cols = y.cols
  BY DEF SameSize
<1>2. Equal(x, y) <=> \A i \in 0 .. x.rows - 1 : Alike(x, i, y, i)
  <2>1. Equal(x, y) <=> \A i \in 0 .. x.rows - 1 :
          \A p \in ToSet(CommonParts(x, y)) : Get(x, i, p) = Get(y, i, p)
    BY DEF Equal
  <2>2. ASSUME NEW i \in 0 .. x.rows - 1
        PROVE  (\A p \in ToSet(CommonParts(x, y)) : Get(x, i, p) = Get(y, i, p))
                 <=> Alike(x, i, y, i)
    BY <1>1, RowsAlike
  <2> QED BY <2>1, <2>2
<1>3. ASSUME \A i \in 0 .. x.rows - 1 : Alike(x, i, y, i) PROVE Ones(x) = Ones(y)
  BY <1>1, <1>3 DEF Alike, Ones, Places
<1>4. ASSUME Ones(x) = Ones(y), NEW i \in 0 .. x.rows - 1 PROVE Alike(x, i, y, i)
  BY <1>1, <1>4, OnesAre DEF Alike
<1> QED BY <1>2, <1>3, <1>4

(* logicAnd says whether the windows have a common cell. *)
THEOREM LogicAndTellsCells ==
  ASSUME LongBits = WordBits, NEW x, NEW y, Window(x), Window(y), SameSize(x, y)
  PROVE  LogicAnd(x, y) <=> Ones(x) \cap Ones(y) # {}
<1> DEFINE C == ToSet(CommonParts(x, y))
<1>1. x.rows = y.rows /\ x.cols = y.cols /\ x.cols \in Nat
  BY DEF SameSize, Window
<1>2. /\ \A p \in C : Lies(x, p) /\ Lies(y, p)
      /\ \A j \in 0 .. x.cols - 1 : \E p \in C : j \in Columns(p)
  BY <1>1, CommonPartsLie
<1>3. LogicAnd(x, y) <=> \E i \in 0 .. x.rows - 1 : \E p \in C : Get(x, i, p) \cap Get(y, i, p) # {}
  BY DEF LogicAnd
<1> HIDE DEF C
<1>4. ASSUME NEW i \in 0 .. x.rows - 1, NEW p \in C
      PROVE  /\ Get(x, i, p) = {k \in Nat : k < Size(p) /\ Bit(x, i, p.col + k)}
             /\ Get(y, i, p) = {k \in Nat : k < Size(p) /\ Bit(y, i, p.col + k)}
  BY <1>1, <1>2, GetIs
<1>5. ASSUME NEW i \in 0 .. x.rows - 1, NEW p \in C, Get(x, i, p) \cap Get(y, i, p) # {}
      PROVE  Ones(x) \cap Ones(y) # {}
  <2>1. PICK k \in Nat : k < Size(p) /\ Bit(x, i, p.col + k) /\ Bit(y, i, p.col + k)
    BY <1>4, <1>5
  <2>2. p.col + k \in 0 .. x.cols - 1
    BY <1>2, <2>1, InWindow
  <2>3. <<i, p.col + k>> \in Ones(x) /\ <<i, p.col + k>> \in Ones(y)
    BY <1>1, <2>1, <2>2, OnesAre
  <2> QED BY <2>3
<1>6. ASSUME NEW q \in Ones(x) \cap Ones(y)
      PROVE  \E i \in 0 .. x.rows - 1 : \E p \in C : Get(x, i, p) \cap Get(y, i, p) # {}
  <2>1. /\ q[1] \in 0 .. x.rows - 1 /\ q[2] \in 0 .. x.cols - 1
        /\ Bit(x, q[1], q[2]) /\ Bit(y, q[1], q[2])
    BY DEF Ones, Places
  <2>2. PICK p \in C : q[2] \in Columns(p)
    BY <1>2, <2>1
  <2>3. PICK k \in Nat : k < Size(p) /\ q[2] = p.col + k
    BY <1>1, <1>2, <2>1, <2>2, OnPart
  <2>4. k \in Get(x, q[1], p) /\ k \in Get(y, q[1], p)
    BY <1>4, <2>1, <2>3
  <2> QED BY <2>1, <2>4
<1> QED BY <1>3, <1>5, <1>6

(* rowEqualTo says that row r has the cells of the other's first row. *)
THEOREM RowEqualToTellsCells ==
  ASSUME LongBits = WordBits, NEW x, NEW y, Window(x), Window(y), x.cols = y.cols,
         NEW r \in 0 .. x.rows - 1
  PROVE  RowEqualTo(x, r, y) <=> Alike(x, r, y, 0)
<1>1. y.rows >= 1 /\ x.rows > r /\ 0 \in 0 .. y.rows - 1
  BY DEF Window
<1>2. Differing(x, r, y) = {} <=>
        \A p \in ToSet(CommonParts(x, y)) : Get(x, r, p) = Get(y, 0, p)
  BY DEF Differing
<1>3. (\A p \in ToSet(CommonParts(x, y)) : Get(x, r, p) = Get(y, 0, p)) <=> Alike(x, r, y, 0)
  BY <1>1, RowsAlike
<1> QED BY <1>1, <1>2, <1>3 DEF RowEqualTo

(* Of two numbers the highest bit that differs decides. *)
LEMMA AboveIs ==
  ASSUME NEW u \in SUBSET Nat, NEW v \in SUBSET Nat, NEW k \in Nat, ~(k \in u <=> k \in v),
         \A i \in Nat : i > k => (i \in u <=> i \in v)
  PROVE  Above(u, v) <=> k \in u
<1>1. k \in Differ(u, v) /\ \A i \in Differ(u, v) : i \in Nat /\ k >= i
  BY DEF Differ
<1>2. Max(Differ(u, v)) = k
  <2> DEFINE D == Differ(u, v)
  <2>1. Max(D) = CHOOSE i \in D : \A j \in D : i >= j
    BY DEF Max
  <2>2. Max(D) \in D /\ Max(D) >= k
    BY <1>1, <2>1
  <2> HIDE DEF D
  <2>3. Max(D) \in Nat /\ k >= Max(D)
    BY <1>1, <2>2 DEF D
  <2> QED BY <2>2, <2>3 DEF D
<1>3. u # v
  OBVIOUS
<1> QED BY <1>2, <1>3 DEF Above

(* rowTest says whether row r is the number that the other's first row is, *)
(* and else which one has the highest column in which they differ, however *)
(* the two rows are split into words.                                      *)
THEOREM RowTestTellsCells ==
  ASSUME LongBits = WordBits, NEW x, NEW y, Window(x), Window(y), x.cols = y.cols,
         NEW r \in 0 .. x.rows - 1
  PROVE  /\ RowTest(x, r, y) = 0 <=> Alike(x, r, y, 0)
         /\ \A j \in 0 .. x.cols - 1 :
              (/\ ~(Bit(x, r, j) <=> Bit(y, 0, j))
               /\ \A l \in 0 .. x.cols - 1 : l > j => (Bit(x, r, l) <=> Bit(y, 0, l)))
              => RowTest(x, r, y) = IF Bit(x, r, j) THEN -1 ELSE 1
<1> DEFINE C == ToSet(CommonParts(x, y))
           D == Differing(x, r, y)
           highest == CHOOSE q \in D : \A o \in D : o.col <= q.col
<1>1. y.rows >= 1 /\ x.rows > r /\ 0 \in 0 .. y.rows - 1 /\ x.cols \in Nat
  BY DEF Window
<1>2. RowTest(x, r, y) = IF D = {} THEN 0
                         ELSE IF Above(Get(x, r, highest), Get(y, 0, highest)) THEN -1 ELSE 1
  <2>1. ~(x.cols # y.cols \/ y.rows < 1 \/ x.rows <= r)
    BY <1>1 DEF Window
  <2> QED BY <2>1 DEF RowTest
<1>3. D = {p \in C : Get(x, r, p) # Get(y, 0, p)}
  BY DEF Differing
<1>4. (\A p \in C : Get(x, r, p) = Get(y, 0, p)) <=> Alike(x, r, y, 0)
  BY <1>1, RowsAlike
<1>5. /\ \A p \in C : Lies(x, p) /\ Lies(y, p)
      /\ \A j \in 0 .. x.cols - 1 : \E p \in C : j \in Columns(p)
      /\ \A p, o \in C : (\E j \in 0 .. x.cols - 1 : j \in Columns(p) /\ j \in Columns(o)) => p = o
  BY CommonPartsLie
<1> HIDE DEF C, D, highest
<1>6. RowTest(x, r, y) = 0 <=> Alike(x, r, y, 0)
  <2>1. D = {} <=> Alike(x, r, y, 0)
    BY <1>3, <1>4
  <2>2. -1 # 0 /\ 1 # 0
    OBVIOUS
  <2> QED BY <1>2, <2>1, <2>2
<1>7. ASSUME NEW p \in C
      PROVE  /\ Get(x, r, p) = {k \in Nat : k < Size(p) /\ Bit(x, r, p.col + k)}
             /\ Get(y, 0, p) = {k \in Nat : k < Size(p) /\ Bit(y, 0, p.col + k)}
             /\ p.col \in Nat
  BY <1>1, <1>5, GetIs, ColumnsAre DEF Lies
<1>8. ASSUME NEW j \in 0 .. x.cols - 1, ~(Bit(x, r, j) <=> Bit(y, 0, j)),
             \A l \in 0 .. x.cols - 1 : l > j => (Bit(x, r, l) <=> Bit(y, 0, l))
      PROVE  RowTest(x, r, y) = IF Bit(x, r, j) THEN -1 ELSE 1
  <2>1. PICK p \in C : j \in Columns(p)
    BY <1>5
  <2>2. PICK k \in Nat : k < Size(p) /\ j = p.col + k
    BY <1>1, <1>5, <2>1, OnPart
  <2>3. p \in D
    BY <1>3, <1>7, <1>8, <2>2
  <2>4. ASSUME NEW o \in D PROVE o.col <= p.col
    <3>1. PICK h \in Nat : h < Size(o) /\ ~(Bit(x, r, o.col + h) <=> Bit(y, 0, o.col + h))
      BY <1>3, <1>7
    <3>2. o \in C /\ o.col + h \in 0 .. x.cols - 1 /\ o.col + h \in Columns(o)
      BY <1>3, <1>5, <3>1, InWindow, OfPart
    <3>3. o.col + h <= j
      BY <1>8, <3>1, <3>2
    <3>4. ASSUME o.col > p.col PROVE FALSE
      <4>1. (o.col + h) - p.col \in Nat /\ (o.col + h) - p.col <= k
        BY <1>7, <2>2, <3>2, <3>3, <3>4
      <4>2. Size(p) \in Nat
        BY <1>5, ColumnsAre DEF Lies
      <4>3. o.col + h \in Columns(p)
        <5>1. (o.col + h) - p.col \in 0 .. Size(p) - 1 /\ o.col + h \in Int
          BY <2>2, <3>2, <4>1, <4>2
        <5> QED BY <1>5, <5>1, ColumnsAre DEF Lies
      <4>4. o = p
        BY <1>5, <3>2, <4>3
      <4> QED BY <1>7, <3>4, <4>4
    <3> QED BY <1>7, <3>2, <3>4
  <2>5. highest = p
    <3>1. highest \in D /\ p.col <= highest.col
      BY <2>3, <2>4 DEF highest
    <3>2. highest.col = p.col /\ highest \in C
      BY <1>3, <1>7, <2>3, <2>4, <3>1
    <3>3. 0 \in Nat /\ 0 < Size(highest) /\ 0 < Size(p) /\ highest.col + 0 = p.col + 0
      BY <1>5, <3>2, ColumnsAre DEF Lies
    <3>4. /\ highest.col + 0 \in Columns(highest) /\ p.col + 0 \in Columns(p)
          /\ p.col + 0 \in 0 .. x.cols - 1
      BY <1>5, <3>2, <3>3, OfPart, InWindow
    <3> QED BY <1>5, <3>2, <3>3, <3>4
  <2>6. Above(Get(x, r, p), Get(y, 0, p)) <=> Bit(x, r, j)
    <3> DEFINE u == Get(x, r, p) v == Get(y, 0, p)
    <3>1. u \in SUBSET Nat /\ v \in SUBSET Nat
      BY <1>7
    <3>2. k \in u <=> Bit(x, r, j)
      BY <1>7, <2>2
    <3>3. k \in v <=> Bit(y, 0, j)
      BY <1>7, <2>2
    <3>4. ASSUME NEW i \in Nat, i > k PROVE i \in u <=> i \in v
      <4>1. ASSUME i < Size(p) PROVE Bit(x, r, p.col + i) <=> Bit(y, 0, p.col + i)
        <5>1. p.col + i \in 0 .. x.cols - 1
          BY <1>5, <4>1, InWindow
        <5>2. p.col + i > j
          BY <1>7, <2>2, <3>4
        <5> QED BY <1>8, <5>1, <5>2
      <4> QED BY <1>7, <4>1
    <3> HIDE DEF u, v
    <3>5. Above(u, v) <=> k \in u
      BY <1>8, <3>1, <3>2, <3>3, <3>4, AboveIs
    <3> QED BY <3>2, <3>5 DEF u, v
  <2> QED BY <1>2, <2>3, <2>5, <2>6
<1> QED BY <1>6, <1>8
-----------------------------------------------------------------------------
(* Regions, and the cells of an allocation                                 *)

(* Induction over a set of numbers. *)
LEMMA EveryNumber ==
  ASSUME NEW S, 0 \in S, \A n \in Nat : n \in S => n + 1 \in S
  PROVE  Nat \subseteq S
<1> SUFFICES ASSUME Nat \ S # {} PROVE FALSE
  OBVIOUS
<1>1. PICK i \in Nat \ S : \A j \in Nat \ S : ~(<<j, i>> \in OpToRel(<, Nat))
  BY WFMin, NatLessThanWellFounded
<1>2. \A j \in Nat \ S : ~(j < i)
  BY <1>1 DEF OpToRel
<1>3. i # 0 /\ i - 1 \in Nat /\ i - 1 < i
  OBVIOUS
<1>4. i - 1 \in S
  BY <1>2, <1>3
<1>5. (i - 1) + 1 \in S /\ (i - 1) + 1 = i
  BY <1>3, <1>4
<1> QED BY <1>5

(* A matrix whose window, which may be empty, lies in its allocation. *)
Region(x) ==
  /\ Formed(x) /\ x.ro \in Nat /\ x.co \in Nat
  /\ x.ro + x.rows <= x.arows /\ x.co + x.cols <= x.acols

(* A window that is not empty is a region of its allocation.               *)
LEMMA RegionIs ==
  ASSUME NEW x, Formed(x), x.rows > 0, x.cols > 0
  PROVE  Region(x) /\ Window(x)
<1>1. Region(x)
  BY DEF Formed, Region
<1>2. x.rows \in Nat \ {0} /\ x.cols \in Nat \ {0}
  BY DEF Formed
<1>3. \A i \in 0 .. x.arows - 1, k \in 0 .. RowInc(x.acols) - 1 : x.mem[i][k] \subseteq Long
  BY DEF Formed
<1> QED BY <1>1, <1>2, <1>3 DEF Region, Window, Formed

(* Cell c of row r of the allocation. *)
Has(x, r, c) == c % WordBits \in x.mem[r][c \div WordBits]

(* A cell of the window is one of the allocation.                          *)
LEMMA BitHas ==
  ASSUME NEW x, Region(x), NEW i \in 0 .. x.rows - 1, NEW j \in 0 .. x.cols - 1
  PROVE  /\ Bit(x, i, j) <=> Has(x, i + x.ro, j + x.co)
         /\ i + x.ro \in 0 .. x.arows - 1 /\ j + x.co \in 0 .. x.acols - 1
<1>1. Exists(x, i, j) /\ i + x.ro \in 0 .. x.arows - 1 /\ j + x.co \in 0 .. x.acols - 1
  <2>1. /\ x.rows \in Nat /\ x.cols \in Nat /\ x.ro \in Nat /\ x.co \in Nat
        /\ x.arows \in Nat /\ x.acols \in Nat
        /\ x.ro + x.rows <= x.arows /\ x.co + x.cols <= x.acols
    BY DEF Region, Formed
  <2>2. i + x.ro \in 0 .. x.arows - 1 /\ j + x.co \in 0 .. x.acols - 1 /\ i >= 0 /\ j >= 0
    BY <2>1
  <2> QED BY <2>2 DEF Exists
<1> QED BY <1>1 DEF Bit, Has

(* z is x but for its cells. *)
Framed(z, x) ==
  /\ Formed(z) /\ z.rows = x.rows /\ z.cols = x.cols /\ z.ro = x.ro /\ z.co = x.co
  /\ z.arows = x.arows /\ z.acols = x.acols

(* What has the same frame as a region is one.                             *)
LEMMA FramedRegion ==
  ASSUME NEW x, NEW z, Region(x), Framed(z, x)
  PROVE  Region(z)
BY DEF Region, Framed

(* Is a cell of the allocation one of the window before column e of row i? *)
Before(x, i, e, r, c) ==
  /\ x.ro <= r /\ r < x.ro + x.rows /\ x.co <= c /\ c < x.co + x.cols
  /\ r - x.ro < i \/ (r - x.ro = i /\ c - x.co < e)

(* The cells of the window before column e of row i have become N. *)
Reached(z, x, N, i, e) ==
  /\ Framed(z, x)
  /\ \A r \in 0 .. x.arows - 1, c \in 0 .. x.acols - 1 :
       Has(z, r, c) <=>
         IF Before(x, i, e, r, c) THEN <<r - x.ro, c - x.co>> \in N ELSE Has(x, r, c)

(* The word a cell is in. *)
LEMMA WordOf ==
  ASSUME NEW q \in Nat, NEW c \in Nat
  PROVE  /\ c \div WordBits = q <=> (WordBits * q <= c /\ c < WordBits * q + WordBits)
         /\ c \div WordBits = q => c % WordBits = c - WordBits * q
         /\ c % WordBits \in 0 .. WordBits - 1
         /\ c \div WordBits \in Nat
<1> DEFINE W == WordBits d == c \div W e == c % W
<1>1. W \in Nat \ {0}
  BY Words
<1>2. d \in Nat /\ e \in 0 .. W - 1 /\ c = W * d + e
  BY <1>1, DivMod
<1> HIDE DEF d, e, W
<1>3. W * d \in Nat /\ W * q \in Nat
  BY <1>1, <1>2
<1>4. d = q => (W * q <= c /\ c < W * q + W /\ e = c - W * q)
  BY <1>1, <1>2, <1>3
<1>5. ASSUME W * q <= c, c < W * q + W PROVE d = q
  <2>1. c - W * q \in 0 .. W - 1 /\ c = W * q + (c - W * q)
    BY <1>1, <1>3, <1>5
  <2> DEFINE s == c - W * q
  <2>2. s \in 0 .. W - 1 /\ W * d + e = W * q + s
    BY <1>2, <2>1
  <2> HIDE DEF s
  <2> QED BY <1>1, <1>2, <2>2, QuotientIsOne
<1> QED BY <1>2, <1>4, <1>5 DEF d, e, W


(* Another value for word q of row a. *)
NewWord(z, a, q, w) == [z EXCEPT !.mem[a][q] = w]

(* A long that is replaced as a whole.                                     *)
LEMMA NewWordIs ==
  ASSUME NEW z, Formed(z), NEW a \in 0 .. z.arows - 1, NEW q \in 0 .. RowInc(z.acols) - 1,
         NEW w, w \subseteq Long
  PROVE  /\ Framed(NewWord(z, a, q, w), z)
         /\ \A r \in 0 .. z.arows - 1, k \in 0 .. RowInc(z.acols) - 1 :
              NewWord(z, a, q, w).mem[r][k] = IF r = a /\ k = q THEN w ELSE z.mem[r][k]
<1> DEFINE y == NewWord(z, a, q, w)
           n == [z.mem EXCEPT ![a] = [z.mem[a] EXCEPT ![q] = w]]
<1>1. z.mem \in [0 .. z.arows - 1 -> [0 .. RowInc(z.acols) - 1 -> SUBSET Long]]
  BY DEF Formed
<1>2. n \in [0 .. z.arows - 1 -> [0 .. RowInc(z.acols) - 1 -> SUBSET Long]]
  BY <1>1
<1>3. \A r \in 0 .. z.arows - 1, k \in 0 .. RowInc(z.acols) - 1 :
        n[r][k] = IF r = a /\ k = q THEN w ELSE z.mem[r][k]
  BY <1>1
<1> HIDE DEF n
<1>4. z = [rows |-> z.rows, cols |-> z.cols, ro |-> z.ro, co |-> z.co,
           arows |-> z.arows, acols |-> z.acols, mem |-> z.mem]
  BY DEF Formed
<1>5. y = [z EXCEPT !.mem = n]
  BY DEF NewWord, n
<1>6. y = [rows |-> z.rows, cols |-> z.cols, ro |-> z.ro, co |-> z.co,
           arows |-> z.arows, acols |-> z.acols, mem |-> n]
  BY <1>4, <1>5
<1> HIDE DEF y
<1>7. /\ y.rows = z.rows /\ y.cols = z.cols /\ y.ro = z.ro /\ y.co = z.co
      /\ y.arows = z.arows /\ y.acols = z.acols /\ y.mem = n
  BY <1>6
<1>8. Formed(y)
  BY <1>2, <1>6, <1>7 DEF Formed
<1> QED BY <1>3, <1>7, <1>8 DEF Framed, y

(* The word of a cell of the allocation. *)
LEMMA InWords ==
  ASSUME NEW z, Formed(z), NEW c \in 0 .. z.acols - 1
  PROVE  /\ c \in Nat /\ c \div WordBits \in 0 .. RowInc(z.acols) - 1
         /\ c % WordBits \in 0 .. WordBits - 1 /\ c % WordBits \in Long
<1> DEFINE q == c \div WordBits
<1>1. c \in Nat /\ z.acols \in Nat
  BY DEF Formed
<1>2. q \in Nat /\ c % WordBits \in 0 .. WordBits - 1 /\ WordBits * q <= c
  BY <1>1, WordOf
<1> HIDE DEF q
<1>3. WordBits * q < z.acols
  <2>1. WordBits * q \in Nat
    BY <1>2, Words
  <2> QED BY <1>1, <1>2, <2>1
<1>4. q \in 0 .. RowInc(z.acols) - 1
  BY <1>1, <1>2, <1>3, InRow
<1>5. c % WordBits \in Long
  BY <1>2, MatrixAssumption DEF Long
<1> QED BY <1>1, <1>2, <1>4, <1>5 DEF q

(* Two cells of a row are the same if word and bit are. *)
LEMMA CellIs ==
  ASSUME NEW c \in Nat, NEW d \in Nat,
         c \div WordBits = d \div WordBits, c % WordBits = d % WordBits
  PROVE  c = d
<1> DEFINE W == WordBits e == c \div W f == d \div W
<1>1. W \in Nat \ {0}
  BY Words
<1>2. c = W * e + (c % W) /\ d = W * f + (d % W) /\ e = f
  BY <1>1, DivMod
<1> HIDE DEF e, f
<1> QED BY <1>2 DEF W

(* Setting one cell. *)
LEMMA SetBitIs ==
  ASSUME NEW z, Formed(z), NEW i \in Int, NEW j \in Int, NEW v \in BOOLEAN
  PROVE  /\ Framed(SetBit(z, i, j, v), z)
         /\ \A r \in 0 .. z.arows - 1, c \in 0 .. z.acols - 1 :
              Has(SetBit(z, i, j, v), r, c) <=>
                IF Exists(z, i, j) /\ r = i + z.ro /\ c = j + z.co THEN v ELSE Has(z, r, c)
<1>1. CASE ~Exists(z, i, j)
  BY <1>1 DEF SetBit, Framed
<1>2. CASE Exists(z, i, j)
  <2> DEFINE a == i + z.ro d == j + z.co q == d \div WordBits s == d % WordBits
             w == IF v THEN z.mem[a][q] \cup {s} ELSE z.mem[a][q] \ {s}
             y == NewWord(z, a, q, w)
  <2>1. a \in 0 .. z.arows - 1 /\ d \in 0 .. z.acols - 1
    BY <1>2 DEF Exists
  <2>2. d \in Nat /\ q \in 0 .. RowInc(z.acols) - 1 /\ s \in Long
    BY <2>1, InWords
  <2>3. SetBit(z, i, j, v) = y
    BY <1>2 DEF SetBit, NewWord
  <2>4. w \subseteq Long
    <3>1. z.mem[a][q] \subseteq Long
      BY <2>1, <2>2 DEF Formed
    <3> QED BY <2>2, <3>1
  <2> HIDE DEF a, d, q, w
  <2>5. /\ Framed(y, z)
        /\ \A r \in 0 .. z.arows - 1, k \in 0 .. RowInc(z.acols) - 1 :
             y.mem[r][k] = IF r = a /\ k = q THEN w ELSE z.mem[r][k]
    BY <2>1, <2>2, <2>4, NewWordIs
  <2> HIDE DEF y
  <2>6. ASSUME NEW r \in 0 .. z.arows - 1, NEW c \in 0 .. z.acols - 1
        PROVE  Has(y, r, c) <=> IF r = a /\ c = d THEN v ELSE Has(z, r, c)
    <3>1. c \in Nat /\ c \div WordBits \in 0 .. RowInc(z.acols) - 1
      BY InWords
    <3>2. c % WordBits = s /\ c \div WordBits = q => c = d
      BY <2>2, <3>1, CellIs DEF q
    <3>3. c = d => c % WordBits = s /\ c \div WordBits = q
      BY DEF q
    <3>4. y.mem[r][c \div WordBits] =
            IF r = a /\ c \div WordBits = q THEN w ELSE z.mem[r][c \div WordBits]
      BY <2>5, <3>1
    <3>5. CASE r = a /\ c \div WordBits = q
      <4>1. Has(y, r, c) <=> c % WordBits \in w
        BY <3>4, <3>5 DEF Has
      <4>2. Has(z, r, c) <=> c % WordBits \in z.mem[a][q]
        BY <3>5 DEF Has
      <4>3. c % WordBits \in w <=> IF c % WordBits = s THEN v ELSE c % WordBits \in z.mem[a][q]
        BY DEF w
      <4> QED BY <3>2, <3>3, <3>5, <4>1, <4>2, <4>3
    <3>6. CASE ~(r = a /\ c \div WordBits = q)
      BY <3>3, <3>4, <3>6 DEF Has
    <3> QED BY <3>5, <3>6
  <2> QED BY <1>2, <2>3, <2>5, <2>6 DEF a, d
<1> QED BY <1>1, <1>2

(* What a part says of cells when it is written. *)
Says(v, x, N, i, p) ==
  /\ v \subseteq Long
  /\ \A k \in 0 .. Size(p) - 1 : k \in v <=> <<i, p.col + k>> \in N

(* Writing a part brings the cells of its columns. *)
LEMMA PutReaches ==
  ASSUME NEW x, Region(x), NEW i \in 0 .. x.rows - 1, NEW p, Lies(x, p), NEW N,
         NEW z, Reached(z, x, N, i, p.col), NEW v, Says(v, x, N, i, p)
  PROVE  Reached(Put(z, i, p, v), x, N, i, p.col + Size(p))
<1> DEFINE W == WordBits
           a == i + x.ro
           y == Put(z, i, p, v)
<1>1. /\ W \in Nat \ {0} /\ x.rows \in Nat /\ x.cols \in Nat /\ x.ro \in Nat /\ x.co \in Nat
      /\ x.arows \in Nat /\ x.acols \in Nat /\ p.col \in Nat /\ i \in Nat
      /\ x.ro + x.rows <= x.arows /\ x.co + x.cols <= x.acols
  BY Words DEF Region, Formed, Lies, PartSet
<1>2. a \in 0 .. x.arows - 1
  BY <1>1
<1>3. /\ Formed(z) /\ z.rows = x.rows /\ z.cols = x.cols /\ z.ro = x.ro /\ z.co = x.co
      /\ z.arows = x.arows /\ z.acols = x.acols
  BY DEF Reached, Framed
<1>4. /\ Size(p) \in Nat \ {0} /\ \A j \in Int : j \in Columns(p) <=> j - p.col \in 0 .. Size(p) - 1
      /\ Columns(p) \subseteq 0 .. x.cols - 1
  BY ColumnsAre DEF Lies
<1>5. p.col + Size(p) <= x.cols
  <2>1. (p.col + Size(p) - 1) - p.col \in 0 .. Size(p) - 1 /\ p.col + Size(p) - 1 \in Int
    BY <1>1, <1>4
  <2>2. p.col + Size(p) - 1 \in 0 .. x.cols - 1
    BY <1>4, <2>1
  <2> QED BY <1>1, <1>4, <2>2
(* The cells of the part. *)
<1> DEFINE On(r, c) == r = a /\ p.col + x.co <= c /\ c < p.col + x.co + Size(p)
<1>6. ASSUME Framed(y, z),
             \A r \in 0 .. x.arows - 1, c \in 0 .. x.acols - 1 :
               Has(y, r, c) <=> IF On(r, c) THEN (c - x.co) - p.col \in v ELSE Has(z, r, c)
      PROVE  Reached(y, x, N, i, p.col + Size(p))
  <2>1. Framed(y, x)
    BY <1>3, <1>6 DEF Framed
  <2> HIDE DEF y, a
  <2>2. ASSUME NEW r \in 0 .. x.arows - 1, NEW c \in 0 .. x.acols - 1
        PROVE  Has(y, r, c) <=>
                 IF Before(x, i, p.col + Size(p), r, c) THEN <<r - x.ro, c - x.co>> \in N
                 ELSE Has(x, r, c)
    <3>1. CASE On(r, c)
      <4>1. (c - x.co) - p.col \in 0 .. Size(p) - 1
        BY <1>1, <1>4, <3>1
      <4>2. p.col + ((c - x.co) - p.col) = c - x.co /\ r - x.ro = i
        BY <1>1, <3>1 DEF a
      <4>3. (c - x.co) - p.col \in v <=> <<r - x.ro, c - x.co>> \in N
        BY <4>1, <4>2 DEF Says
      <4>4. Before(x, i, p.col + Size(p), r, c)
        BY <1>1, <1>4, <1>5, <3>1 DEF Before, a
      <4> QED BY <1>6, <3>1, <4>3, <4>4
    <3>2. CASE ~On(r, c)
      <4>1. Before(x, i, p.col + Size(p), r, c) <=> Before(x, i, p.col, r, c)
        BY <1>1, <1>4, <1>5, <3>2 DEF Before, a
      <4>2. Has(z, r, c) <=>
              IF Before(x, i, p.col, r, c) THEN <<r - x.ro, c - x.co>> \in N ELSE Has(x, r, c)
        BY DEF Reached
      <4> QED BY <1>6, <3>2, <4>1, <4>2
    <3> QED BY <3>1, <3>2
  <2> QED BY <2>1, <2>2 DEF Reached
<1>7. CASE p.long
  <2>1. PICK q \in Nat : x.co + p.col = W * q
    BY <1>7 DEF Lies, Aligned
  <2>2. Size(p) = W
    BY <1>7 DEF Size
  <2>3. (p.col + z.co) \div W = q
    <3>1. 0 \in 0 .. W - 1 /\ p.col + z.co = W * q + 0
      BY <1>1, <1>3, <2>1
    <3> QED BY <1>1, <3>1, DivModIs
  <2>4. y = NewWord(z, a, q, v)
    BY <1>3, <1>7, <2>3 DEF Put, NewWord
  <2>5. q \in 0 .. RowInc(z.acols) - 1
    <3>1. W * q < x.acols
      BY <1>1, <1>4, <1>5, <2>1
    <3> QED BY <1>1, <1>3, <3>1, InRow
  <2> HIDE DEF y, a
  <2>6. /\ Framed(y, z)
        /\ \A r \in 0 .. z.arows - 1, k \in 0 .. RowInc(z.acols) - 1 :
             y.mem[r][k] = IF r = a /\ k = q THEN v ELSE z.mem[r][k]
    BY <1>2, <1>3, <2>4, <2>5, NewWordIs DEF Says
  <2>7. ASSUME NEW r \in 0 .. x.arows - 1, NEW c \in 0 .. x.acols - 1
        PROVE  Has(y, r, c) <=> IF On(r, c) THEN (c - x.co) - p.col \in v ELSE Has(z, r, c)
    <3>1. /\ c \in Nat /\ c \div W \in 0 .. RowInc(z.acols) - 1
          /\ c \div W = q <=> (W * q <= c /\ c < W * q + W)
          /\ c \div W = q => c % W = c - W * q
      BY <1>1, <1>3, InWords, WordOf
    <3>2. y.mem[r][c \div W] = IF r = a /\ c \div W = q THEN v ELSE z.mem[r][c \div W]
      BY <1>3, <2>6, <3>1
    <3>3. On(r, c) <=> (r = a /\ c \div W = q)
      <4> DEFINE o == W * q
      <4>1. o \in Nat /\ x.co + p.col = o
        BY <1>1, <2>1
      <4> HIDE DEF o
      <4> QED BY <1>1, <2>2, <3>1, <4>1 DEF o
    <3>4. CASE On(r, c)
      <4>1. c % W = (c - x.co) - p.col
        <5> DEFINE o == W * q
        <5>1. o \in Nat /\ x.co + p.col = o /\ c % W = c - o
          BY <1>1, <2>1, <3>1, <3>3, <3>4
        <5> HIDE DEF o
        <5> QED BY <1>1, <3>1, <5>1
      <4> QED BY <3>2, <3>3, <3>4, <4>1 DEF Has
    <3>5. CASE ~On(r, c)
      BY <3>2, <3>3, <3>5 DEF Has
    <3> QED BY <3>4, <3>5
  <2> QED BY <1>6, <2>6, <2>7 DEF y, a
<1>8. CASE ~p.long
  <2>1. Size(p) = 1
    BY <1>8 DEF Size
  <2>2. y = SetBit(z, i, p.col, 0 \in v)
    BY <1>8 DEF Put
  <2>3. Exists(z, i, p.col)
    BY <1>1, <1>2, <1>3, <1>5, <2>1 DEF Exists
  <2> HIDE DEF y
  <2>4. /\ Framed(y, z)
        /\ \A r \in 0 .. z.arows - 1, c \in 0 .. z.acols - 1 :
             Has(y, r, c) <=>
               IF Exists(z, i, p.col) /\ r = i + z.ro /\ c = p.col + z.co THEN 0 \in v
               ELSE Has(z, r, c)
    <3>1. i \in Int /\ p.col \in Int /\ (0 \in v) \in BOOLEAN
      BY <1>1
    <3> QED BY <1>3, <2>2, <3>1, SetBitIs
  <2>5. ASSUME NEW r \in 0 .. x.arows - 1, NEW c \in 0 .. x.acols - 1
        PROVE  Has(y, r, c) <=> IF On(r, c) THEN (c - x.co) - p.col \in v ELSE Has(z, r, c)
    <3>1. On(r, c) <=> (r = i + z.ro /\ c = p.col + z.co)
      BY <1>1, <1>3, <2>1
    <3>2. On(r, c) => (c - x.co) - p.col = 0
      BY <1>1, <2>1
    <3>3. r \in 0 .. z.arows - 1 /\ c \in 0 .. z.acols - 1
      BY <1>3
    <3>4. CASE On(r, c)
      <4>1. Has(y, r, c) <=> 0 \in v
        BY <2>3, <2>4, <3>1, <3>3, <3>4
      <4> QED BY <3>2, <3>4, <4>1
    <3>5. CASE ~On(r, c)
      BY <2>4, <3>1, <3>3, <3>5
    <3> QED BY <3>4, <3>5
  <2> QED BY <1>6, <2>4, <2>5 DEF y
<1> QED BY <1>7, <1>8
-----------------------------------------------------------------------------
(* Loops that write                                                        *)

(* A row is written in as many steps as it has parts. *)
LEMMA RowGoes ==
  ASSUME NEW x, NEW i, NEW parts, NEW how, Len(parts) \in Nat
  PROVE  \E done : /\ done[0] = x
                   /\ \A k \in 1 .. Len(parts) : done[k] = Renew(done[k - 1], i, parts[k], how)
                   /\ WriteRow(x, i, parts, how) = done[Len(parts)]
<1> DEFINE top == Len(parts)
           Is(f, n) == f = [k \in 0 .. n |-> IF k = 0 THEN x ELSE Renew(f[k - 1], i, parts[k], how)]
           S == {n \in Nat : \E f : Is(f, n)}
<1>1. 0 \in S
  <2> DEFINE f == [k \in 0 .. 0 |-> x]
  <2>1. Is(f, 0)
    BY \A k \in 0 .. 0 : k = 0
  <2> QED BY <2>1
<1>2. ASSUME NEW n \in Nat, n \in S PROVE n + 1 \in S
  <2>1. PICK g : Is(g, n)
    BY <1>2
  <2> DEFINE f == [k \in 0 .. n + 1 |-> IF k = n + 1 THEN Renew(g[n], i, parts[k], how) ELSE g[k]]
  <2>2. \A k \in 0 .. n : g[k] = IF k = 0 THEN x ELSE Renew(g[k - 1], i, parts[k], how)
    BY <2>1
  <2>3. ASSUME NEW k \in 0 .. n + 1
        PROVE  f[k] = IF k = 0 THEN x ELSE Renew(f[k - 1], i, parts[k], how)
    <3>1. CASE k = n + 1
      <4>1. k # 0 /\ k - 1 = n /\ n \in 0 .. n + 1 /\ n # n + 1
        BY <3>1
      <4>2. f[k] = Renew(g[n], i, parts[k], how) /\ f[k - 1] = g[n]
        BY <3>1, <4>1
      <4> QED BY <4>1, <4>2
    <3>2. CASE k # n + 1
      <4>1. k \in 0 .. n
        BY <3>2
      <4>2. k # 0 => k - 1 \in 0 .. n + 1 /\ k - 1 # n + 1
        BY <3>2
      <4>3. f[k] = g[k] /\ (k # 0 => f[k - 1] = g[k - 1])
        BY <3>2, <4>2
      <4> QED BY <2>2, <4>1, <4>3
    <3> QED BY <3>1, <3>2
  <2>4. Is(f, n + 1)
    <3>1. f = [k \in 0 .. n + 1 |-> f[k]]
      OBVIOUS
    <3> HIDE DEF f
    <3> QED BY <2>3, <3>1
  <2>5. n + 1 \in Nat
    OBVIOUS
  <2> QED BY <2>4, <2>5
<1>3. top \in S
  <2>1. top \in Nat
    OBVIOUS
  <2> HIDE DEF S, top
  <2> QED BY <1>1, <1>2, <2>1, EveryNumber
<1> DEFINE done == CHOOSE f : Is(f, top)
<1>4. Is(done, top)
  BY <1>3
<1>5. WriteRow(x, i, parts, how) = done[top]
  BY DEF WriteRow
<1> HIDE DEF done
<1>6. \A k \in 0 .. top : done[k] = IF k = 0 THEN x ELSE Renew(done[k - 1], i, parts[k], how)
  BY <1>4
<1>7. top \in Nat
  OBVIOUS
<1> HIDE DEF top
<1>8. 0 \in 0 .. top /\ \A k \in 1 .. top : k \in 0 .. top /\ k # 0
  BY <1>7
<1>9. done[0] = x
  BY <1>6, <1>8
<1>10. \A k \in 1 .. top : done[k] = Renew(done[k - 1], i, parts[k], how)
  BY <1>6, <1>8
<1> QED BY <1>5, <1>9, <1>10 DEF top

(* And the rows one after the other. *)
LEMMA RowsGo ==
  ASSUME NEW x, NEW parts, NEW how, x.rows \in Nat
  PROVE  \E done : /\ done[0] = x
                   /\ \A k \in 1 .. x.rows : done[k] = WriteRow(done[k - 1], k - 1, parts, how)
                   /\ Write(x, parts, how) = done[x.rows]
<1> DEFINE top == x.rows
           Is(f, n) == f = [k \in 0 .. n |-> IF k = 0 THEN x ELSE WriteRow(f[k - 1], k - 1, parts, how)]
           S == {n \in Nat : \E f : Is(f, n)}
<1>1. 0 \in S
  <2> DEFINE f == [k \in 0 .. 0 |-> x]
  <2>1. Is(f, 0)
    BY \A k \in 0 .. 0 : k = 0
  <2> QED BY <2>1
<1>2. ASSUME NEW n \in Nat, n \in S PROVE n + 1 \in S
  <2>1. PICK g : Is(g, n)
    BY <1>2
  <2> DEFINE f == [k \in 0 .. n + 1 |-> IF k = n + 1 THEN WriteRow(g[n], k - 1, parts, how) ELSE g[k]]
  <2>2. \A k \in 0 .. n : g[k] = IF k = 0 THEN x ELSE WriteRow(g[k - 1], k - 1, parts, how)
    BY <2>1
  <2>3. ASSUME NEW k \in 0 .. n + 1
        PROVE  f[k] = IF k = 0 THEN x ELSE WriteRow(f[k - 1], k - 1, parts, how)
    <3>1. CASE k = n + 1
      <4>1. k # 0 /\ k - 1 = n /\ n \in 0 .. n + 1 /\ n # n + 1
        BY <3>1
      <4>2. f[k] = WriteRow(g[n], k - 1, parts, how) /\ f[k - 1] = g[n]
        BY <3>1, <4>1
      <4> QED BY <4>1, <4>2
    <3>2. CASE k # n + 1
      <4>1. k \in 0 .. n
        BY <3>2
      <4>2. k # 0 => k - 1 \in 0 .. n + 1 /\ k - 1 # n + 1
        BY <3>2
      <4>3. f[k] = g[k] /\ (k # 0 => f[k - 1] = g[k - 1])
        BY <3>2, <4>2
      <4> QED BY <2>2, <4>1, <4>3
    <3> QED BY <3>1, <3>2
  <2>4. Is(f, n + 1)
    <3>1. f = [k \in 0 .. n + 1 |-> f[k]]
      OBVIOUS
    <3> HIDE DEF f
    <3> QED BY <2>3, <3>1
  <2>5. n + 1 \in Nat
    OBVIOUS
  <2> QED BY <2>4, <2>5
<1>3. top \in S
  <2>1. top \in Nat
    OBVIOUS
  <2> HIDE DEF S, top
  <2> QED BY <1>1, <1>2, <2>1, EveryNumber
<1> DEFINE done == CHOOSE f : Is(f, top)
<1>4. Is(done, top)
  BY <1>3
<1>5. Write(x, parts, how) = done[top]
  BY DEF Write
<1> HIDE DEF done
<1>6. \A k \in 0 .. top : done[k] = IF k = 0 THEN x ELSE WriteRow(done[k - 1], k - 1, parts, how)
  BY <1>4
<1>7. top \in Nat
  OBVIOUS
<1> HIDE DEF top
<1>8. 0 \in 0 .. top /\ \A k \in 1 .. top : k \in 0 .. top /\ k # 0
  BY <1>7
<1>9. done[0] = x
  BY <1>6, <1>8
<1>10. \A k \in 1 .. top : done[k] = WriteRow(done[k - 1], k - 1, parts, how)
  BY <1>6, <1>8
<1> QED BY <1>5, <1>9, <1>10 DEF top

(* Where part k of a row ends. *)
End(parts, k) == IF k = 0 THEN 0 ELSE parts[k].col + Size(parts[k])

(* Parts that follow each other from the first column of x to the last. *)
Chained(x, parts) ==
  /\ parts \in Seq(PartSet)
  /\ \A k \in 1 .. Len(parts) : Lies(x, parts[k]) /\ parts[k].col = End(parts, k - 1)
  /\ End(parts, Len(parts)) = x.cols

(* Whatever an operation has written, what it makes of the next part of x  *)
(* are the cells N.                                                        *)
Tells(how, x, parts, N) ==
  \A i \in 0 .. x.rows - 1, p \in ToSet(parts) : \A z :
    Reached(z, x, N, i, p.col) => Says(New(z, i, p, how), x, N, i, p)

(* Part after part, a row becomes N.                                       *)
LEMMA RowReaches ==
  ASSUME NEW x, Region(x), NEW parts, Chained(x, parts), NEW N, NEW how,
         Tells(how, x, parts, N), NEW i \in 0 .. x.rows - 1, NEW z, Reached(z, x, N, i, 0)
  PROVE  Reached(WriteRow(z, i, parts, how), x, N, i, x.cols)
<1>1. Len(parts) \in Nat /\ parts \in Seq(PartSet)
  BY DEF Chained
<1>2. PICK done : /\ done[0] = z
                  /\ \A k \in 1 .. Len(parts) : done[k] = Renew(done[k - 1], i, parts[k], how)
                  /\ WriteRow(z, i, parts, how) = done[Len(parts)]
  BY <1>1, RowGoes
<1> DEFINE n == Len(parts)
           Good(k) == Reached(done[k], x, N, i, End(parts, k))
           S == {k \in Nat : k <= n => Good(k)}
<1> HIDE DEF n
<1>3. 0 \in S
  BY <1>2 DEF End
<1>4. ASSUME NEW k \in Nat, k \in S PROVE k + 1 \in S
  <2> SUFFICES ASSUME k + 1 <= n PROVE Good(k + 1)
    OBVIOUS
  <2> DEFINE p == parts[k + 1] y == done[k]
  <2>1. k + 1 \in 1 .. n /\ (k + 1) - 1 = k /\ k <= n /\ k + 1 # 0
    BY <1>1 DEF n
  <2>2. Lies(x, p) /\ p.col = End(parts, k) /\ p \in ToSet(parts)
    <3>1. DOMAIN parts = 1 .. n
      BY <1>1 DEF n
    <3>2. p \in ToSet(parts)
      BY <2>1, <3>1 DEF ToSet
    <3> QED BY <2>1, <3>2 DEF Chained, n
  <2>3. Reached(y, x, N, i, p.col)
    BY <1>4, <2>1, <2>2
  <2>4. Says(New(y, i, p, how), x, N, i, p)
    BY <2>2, <2>3 DEF Tells
  <2>5. done[k + 1] = Put(y, i, p, New(y, i, p, how))
    BY <1>2, <2>1 DEF Renew, n
  <2>6. End(parts, k + 1) = p.col + Size(p)
    BY <2>1 DEF End
  <2> HIDE DEF p, y
  <2>7. Reached(Put(y, i, p, New(y, i, p, how)), x, N, i, p.col + Size(p))
    BY <2>2, <2>3, <2>4, PutReaches
  <2> QED BY <2>5, <2>6, <2>7
<1>5. n \in S
  <2>1. n \in Nat
    BY <1>1 DEF n
  <2> HIDE DEF S
  <2> QED BY <1>3, <1>4, <2>1, EveryNumber
<1> QED BY <1>1, <1>2, <1>5 DEF n, Chained

(* A cell of the allocation in the window. *)
Within(x, r, c) == x.ro <= r /\ r < x.ro + x.rows /\ x.co <= c /\ c < x.co + x.cols

(* z is x with the cells N in its window. *)
Written(z, x, N) ==
  /\ Framed(z, x)
  /\ \A r \in 0 .. x.arows - 1, c \in 0 .. x.acols - 1 :
       Has(z, r, c) <=> IF Within(x, r, c) THEN <<r - x.ro, c - x.co>> \in N ELSE Has(x, r, c)

(* Row after row, the window becomes N, and no other cell changes.         *)
LEMMA WriteIs ==
  ASSUME NEW x, Region(x), NEW parts, NEW how, NEW N,
         x.rows > 0 => Chained(x, parts) /\ Tells(how, x, parts, N)
  PROVE  Written(Write(x, parts, how), x, N)
<1>1. x.rows \in Nat /\ x.cols \in Nat /\ x.ro \in Nat /\ x.co \in Nat
      /\ x.arows \in Nat /\ x.acols \in Nat
  BY DEF Region, Formed
<1>2. PICK done : /\ done[0] = x
                  /\ \A k \in 1 .. x.rows : done[k] = WriteRow(done[k - 1], k - 1, parts, how)
                  /\ Write(x, parts, how) = done[x.rows]
  BY <1>1, RowsGo
<1> DEFINE n == x.rows
           Good(k) == Reached(done[k], x, N, k, 0)
           S == {k \in Nat : k <= n => Good(k)}
<1>3. 0 \in S
  <2>1. Framed(x, x)
    BY DEF Framed, Region
  <2>2. \A r \in 0 .. x.arows - 1, c \in 0 .. x.acols - 1 : ~Before(x, 0, 0, r, c)
    BY <1>1 DEF Before
  <2>3. Reached(x, x, N, 0, 0)
    BY <2>1, <2>2 DEF Reached
  <2> QED BY <1>2, <2>3
<1>4. ASSUME NEW k \in Nat, k \in S PROVE k + 1 \in S
  <2> SUFFICES ASSUME k + 1 <= n PROVE Good(k + 1)
    OBVIOUS
  <2>1. k + 1 \in 1 .. n /\ (k + 1) - 1 = k /\ k <= n /\ k \in 0 .. x.rows - 1 /\ x.rows > 0
    BY <1>1
  <2>2. Good(k)
    BY <1>4, <2>1
  <2>3. done[k + 1] = WriteRow(done[k], k, parts, how)
    BY <1>2, <2>1
  <2> DEFINE z == done[k] y == done[k + 1]
  <2>4. Reached(y, x, N, k, x.cols)
    <3>1. Reached(z, x, N, k, 0) /\ Chained(x, parts) /\ Tells(how, x, parts, N)
      BY <2>1, <2>2
    <3> HIDE DEF z
    <3>2. Reached(WriteRow(z, k, parts, how), x, N, k, x.cols)
      BY <2>1, <3>1, RowReaches
    <3> QED BY <2>3, <3>2 DEF z
  <2> HIDE DEF z, y
  <2>5. \A r \in 0 .. x.arows - 1, c \in 0 .. x.acols - 1 :
          Before(x, k, x.cols, r, c) <=> Before(x, k + 1, 0, r, c)
    <3>1. ASSUME NEW r \in 0 .. x.arows - 1, NEW c \in 0 .. x.acols - 1
          PROVE  Before(x, k, x.cols, r, c) <=> Before(x, k + 1, 0, r, c)
      <4>1. r \in Nat /\ c \in Nat /\ k \in Nat
        BY <1>1
      <4> QED BY ONLY <1>1, <4>1 DEF Before
    <3> QED BY <3>1
  <2>6. Reached(y, x, N, k + 1, 0)
    BY <2>4, <2>5 DEF Reached
  <2> QED BY <2>6 DEF y
<1>5. n \in S
  <2> HIDE DEF S, n
  <2> QED BY <1>1, <1>3, <1>4, EveryNumber DEF n
<1>6. Reached(done[n], x, N, n, 0)
  BY <1>1, <1>5
<1>7. \A r \in 0 .. x.arows - 1, c \in 0 .. x.acols - 1 : Before(x, n, 0, r, c) <=> Within(x, r, c)
  BY <1>1 DEF Before, Within
<1> QED BY <1>2, <1>6, <1>7 DEF Reached, Written

(* Columns one after the other are chained.                                *)
LEMMA SinglyChained ==
  ASSUME NEW x, x.cols \in Nat
  PROVE  Chained(x, Singly(0, x.cols))
<1> DEFINE c == x.cols s == Singly(0, c)
<1>1. /\ s \in Seq(PartSet) /\ Len(s) = c
      /\ \A k \in 1 .. c : s[k] = [col |-> k - 1, long |-> FALSE]
  <2>1. c - 0 = c /\ 0 <= c /\ 0 \in Nat /\ \A i \in 1 .. c : 0 + i - 1 = i - 1
    OBVIOUS
  <2>2. /\ s \in Seq(PartSet) /\ Len(s) = c - 0
        /\ \A i \in 1 .. c - 0 : s[i] = [col |-> 0 + i - 1, long |-> FALSE]
    BY <2>1, SinglyIs
  <2> HIDE DEF s, c
  <2> QED BY <2>1, <2>2
<1> HIDE DEF s
<1>5. ASSUME NEW k \in 1 .. c
      PROVE  s[k].col = k - 1 /\ ~s[k].long /\ s[k] \in PartSet /\ Size(s[k]) = 1
  <2>1. s[k] = [col |-> k - 1, long |-> FALSE] /\ k - 1 \in Nat
    BY <1>1
  <2>2. s[k].col = k - 1 /\ s[k].long = FALSE
    BY <2>1
  <2> QED BY <2>1, <2>2 DEF Size, PartSet
<1>2. ASSUME NEW k \in 0 .. c PROVE End(s, k) = k
  <2>1. k = 0 \/ k \in 1 .. c
    OBVIOUS
  <2>2. CASE k \in 1 .. c
    BY <1>5, <2>2 DEF End
  <2> QED BY <2>1, <2>2 DEF End
<1>3. ASSUME NEW k \in 1 .. c PROVE Lies(x, s[k]) /\ s[k].col = End(s, k - 1)
  <2>1. k - 1 \in 0 .. c /\ k - 1 \in 0 .. c - 1
    OBVIOUS
  <2>2. s[k].col = k - 1 /\ ~s[k].long /\ s[k] \in PartSet
    BY <1>5
  <2> QED BY <1>2, <2>1, <2>2 DEF Lies, Columns, Aligned
<1>4. End(s, c) = c
  BY <1>2
<1> QED BY <1>1, <1>3, <1>4 DEF Chained, s

(* So are the parts of a window.                                           *)
LEMMA PartsChained ==
  ASSUME NEW x, Window(x)
  PROVE  Chained(x, Parts(x))
<1> DEFINE W == WordBits c == x.cols s == Parts(x)
<1>1. PICK t \in Nat, n \in Nat :
        /\ GetIndex(x) = [top |-> t, last |-> t + W * n, longs |-> n]
        /\ t + W * n <= c
  BY IndexIs
<1> DEFINE l == t + W * n
<1>2. W \in Nat \ {0} /\ c \in Nat \ {0} /\ W * n \in Nat /\ l \in Nat /\ l <= c
  BY <1>1, Words DEF Window
<1>3. Composed(s, t, n, l, c)
  <2> HIDE DEF l
  <2>1. /\ l = t + WordBits * n /\ l <= x.cols /\ x.cols \in Nat /\ l \in Nat
        /\ GetIndex(x) = [top |-> t, last |-> l, longs |-> n]
    BY <1>1, <1>2 DEF l
  <2> QED BY ONLY <2>1, PartsAre, t \in Nat, n \in Nat
<1> DEFINE top == (t + n) + (c - l)
<1>4. s \in Seq(PartSet) /\ Len(s) = top /\ top \in Nat
  BY <1>2, <1>3 DEF Composed
<1> HIDE DEF s
(* Where the parts begin and end. *)
<1> DEFINE at(k) == IF k <= t THEN k ELSE IF k <= t + n THEN t + W * (k - t) ELSE l + (k - (t + n))
<1>5. ASSUME NEW k \in 1 .. top PROVE s[k].col = at(k - 1) /\ s[k].col + Size(s[k]) = at(k)
  <2>1. CASE k <= t
    <3>1. s[k].col = k - 1 /\ Size(s[k]) = 1
      <4>1. s[k] = [col |-> k - 1, long |-> FALSE]
        <5>1. k \in 1 .. t
          BY <2>1
        <5> QED BY <1>3, <5>1 DEF Composed
      <4> QED BY <4>1 DEF Size
    <3> HIDE DEF l, top
    <3> QED BY <2>1, <3>1
  <2>2. CASE k > t /\ k <= t + n
    <3> DEFINE h == k - t
    <3>1. h \in 1 .. n /\ k = t + h
      BY <2>2
    <3>2. s[k].col = t + (h - 1) * W /\ Size(s[k]) = W
      <4>1. s[k] = [col |-> t + (h - 1) * W, long |-> TRUE]
        BY <1>3, <3>1 DEF Composed
      <4> QED BY <4>1 DEF Size
    <3>3. (h - 1) * W = W * (h - 1) /\ W * h = W * (h - 1) + W /\ W * (h - 1) \in Nat
      BY <1>2, <3>1
    <3>4. at(k) = t + W * h
      BY <2>2
    <3>5. at(k - 1) = t + W * (h - 1)
      <4>1. CASE h = 1
        <5>1. k - 1 = t /\ W * (h - 1) = 0
          BY <1>2, <3>1, <4>1
        <5> QED BY <5>1
      <4>2. CASE h # 1
        <5>1. ~(k - 1 <= t) /\ k - 1 <= t + n /\ (k - 1) - t = h - 1
          BY <3>1, <4>2
        <5> HIDE DEF l, h
        <5> QED BY <5>1
      <4> QED BY <4>1, <4>2
    <3> HIDE DEF at, h
    <3> QED BY <1>2, <3>1, <3>2, <3>3, <3>4, <3>5
  <2>3. CASE k > t + n
    <3> DEFINE h == k - (t + n)
    <3>1. h \in 1 .. c - l /\ k = (t + n) + h
      BY <1>2, <2>3
    <3>2. s[k].col = l + h - 1 /\ Size(s[k]) = 1
      <4>1. s[k] = [col |-> l + h - 1, long |-> FALSE]
        BY <1>3, <3>1 DEF Composed
      <4> QED BY <4>1 DEF Size
    <3>3. at(k) = l + h
      BY <2>3
    <3>4. at(k - 1) = l + (h - 1)
      <4>1. CASE h = 1 /\ n = 0
        <5>1. k - 1 = t /\ W * n = 0
          BY <1>2, <3>1, <4>1
        <5>2. k - 1 = t /\ l + (h - 1) = t
          BY <4>1, <5>1
        <5>3. at(k - 1) = k - 1
          BY <5>1
        <5> HIDE DEF at, l, h
        <5> QED BY <5>2, <5>3
      <4>2. CASE h = 1 /\ n # 0
        <5>1. ~(k - 1 <= t) /\ k - 1 <= t + n /\ (k - 1) - t = n
          BY <3>1, <4>2
        <5>2. at(k - 1) = t + W * n /\ h - 1 = 0 /\ t + W * n = l
          BY <4>2, <5>1
        <5> HIDE DEF at, l, h
        <5> QED BY <1>2, <5>2
      <4>3. CASE h # 1
        <5>1. ~(k - 1 <= t) /\ ~(k - 1 <= t + n) /\ (k - 1) - (t + n) = h - 1
          BY <3>1, <4>3
        <5> HIDE DEF l, h
        <5> QED BY <5>1
      <4> QED BY <4>1, <4>2, <4>3
    <3> HIDE DEF at, h
    <3> QED BY <1>2, <3>1, <3>2, <3>3, <3>4
  <2>4. k <= t \/ (k > t /\ k <= t + n) \/ k > t + n
    BY <1>2
  <2> QED BY <2>1, <2>2, <2>3, <2>4
<1>6. at(0) = 0
  OBVIOUS
<1>7. at(top) = c
  <2>1. CASE c = l /\ n = 0
    BY <1>2, <2>1
  <2>2. CASE c = l /\ n # 0
    <3>1. top = t + n /\ ~(top <= t) /\ top - t = n
      BY <1>2, <2>2
    <3> QED BY <2>2, <3>1
  <2>3. CASE c # l
    <3>1. top - (t + n) = c - l /\ ~(top <= t) /\ ~(top <= t + n)
      BY <1>2, <2>3
    <3> HIDE DEF top
    <3> QED BY <1>2, <3>1
  <2> QED BY <2>1, <2>2, <2>3
<1> HIDE DEF at, top
<1>8. ASSUME NEW k \in 0 .. top PROVE End(s, k) = at(k)
  <2>1. k = 0 \/ k \in 1 .. top
    BY <1>4
  <2> QED BY <1>5, <1>6, <2>1 DEF End
<1>9. ASSUME NEW k \in 1 .. top PROVE Lies(x, s[k]) /\ s[k].col = End(s, k - 1)
  <2>1. k - 1 \in 0 .. top
    BY <1>4
  <2>2. k \in DOMAIN s /\ s[k] \in PartSet
    BY <1>4
  <2>3. Columns(s[k]) \subseteq 0 .. x.cols - 1 /\ Aligned(x, s[k])
    BY <2>2, PartsTile DEF s
  <2> QED BY <1>5, <1>8, <2>1, <2>2, <2>3 DEF Lies
<1>10. End(s, top) = c
  BY <1>4, <1>7, <1>8
<1> QED BY <1>4, <1>9, <1>10 DEF Chained, s

(* Rows without columns have no parts. *)
LEMMA NoParts ==
  ASSUME NEW x, NEW y, x.cols = 0, y.cols = 0
  PROVE  /\ Chained(x, CommonParts(x, y)) /\ Chained(x, Parts(x)) /\ ToSet(CommonParts(x, y)) = {}
         /\ CommonParts(x, y) = <<>> /\ Singly(0, x.cols) = <<>>
<1>1. GetIndex(x) = [top |-> 0, last |-> 0, longs |-> 0]
  BY DEF GetIndex
<1>2. GetIndex(y) = [top |-> 0, last |-> 0, longs |-> 0]
  BY DEF GetIndex
<1>3. Singly(0, 0) = <<>>
  BY DEF Singly
<1>4. Parts(x) = <<>>
  BY <1>1, <1>3 DEF Parts
<1>5. CommonParts(x, y) = <<>>
  BY <1>3, <1>4 DEF CommonParts
<1>6. Chained(x, <<>>)
  BY DEF Chained, End
<1>7. ToSet(<<>>) = {}
  BY DEF ToSet
<1> QED BY <1>3, <1>4, <1>5, <1>6, <1>7

(* The common parts of two regions of one size, and those of one. *)
LEMMA RegionChained ==
  ASSUME NEW x, NEW y, Region(x), Region(y), SameSize(x, y), x.rows > 0
  PROVE  /\ Chained(x, Parts(x)) /\ Chained(x, CommonParts(x, y))
         /\ \A p \in ToSet(CommonParts(x, y)) : Lies(x, p) /\ Lies(y, p)
<1>1. x.rows \in Nat /\ x.cols \in Nat /\ x.rows = y.rows /\ x.cols = y.cols
  BY DEF Region, Formed, SameSize
<1>2. CASE x.cols = 0
  BY <1>1, <1>2, NoParts
<1>3. CASE x.cols > 0
  <2>1. Window(x) /\ Window(y)
    BY <1>1, <1>3, RegionIs DEF Region
  <2>2. CommonParts(x, y) = Parts(x) \/ CommonParts(x, y) = Singly(0, x.cols)
    BY DEF CommonParts
  <2> QED BY <1>1, <2>1, <2>2, PartsChained, SinglyChained, CommonPartsLie
<1> QED BY <1>1, <1>2, <1>3
-----------------------------------------------------------------------------
(* What the operations write                                               *)

(* The bits of a part. *)
LEMMA BitsOf ==
  ASSUME LongBits = WordBits, NEW x, NEW p, Lies(x, p)
  PROVE  /\ Size(p) \in Nat \ {0} /\ p.col \in Nat
         /\ 0 .. Size(p) - 1 \subseteq Long /\ Whole(p) = 0 .. Size(p) - 1
<1>1. Size(p) \in Nat \ {0} /\ p.col \in Nat
  BY ColumnsAre DEF Lies
<1>2. Long = 0 .. WordBits - 1 /\ WordBits \in Nat \ {0}
  BY Words DEF Long
<1>3. CASE p.long
  BY <1>1, <1>2, <1>3 DEF Size, Whole
<1>4. CASE ~p.long
  <2>1. Size(p) = 1 /\ Whole(p) = {0}
    BY <1>4 DEF Size, Whole
  <2>2. 0 .. 1 - 1 = {0}
    OBVIOUS
  <2> QED BY <1>1, <1>2, <2>1, <2>2
<1> QED BY <1>3, <1>4

(* A cell of a part is one of the window.                                  *)
LEMMA InPlaces ==
  ASSUME NEW x, NEW i \in 0 .. x.rows - 1, NEW p, Lies(x, p), NEW k \in 0 .. Size(p) - 1
  PROVE  <<i, p.col + k>> \in Places(x) /\ p.col + k \in 0 .. x.cols - 1
<1>1. k \in Nat /\ k < Size(p)
  BY ColumnsAre DEF Lies
<1> QED BY <1>1, InWindow DEF Places

(* Reading a part that was not written yet tells of the cells as they were. *)
LEMMA GetTells ==
  ASSUME LongBits = WordBits, NEW x, Region(x), NEW i \in 0 .. x.rows - 1, NEW p, Lies(x, p)
  PROVE  /\ Get(x, i, p) \subseteq 0 .. Size(p) - 1
         /\ \A k \in 0 .. Size(p) - 1 :
              /\ k \in Get(x, i, p) <=> <<i, p.col + k>> \in Ones(x)
              /\ k \in Get(x, i, p) <=> Bit(x, i, p.col + k)
<1>1. Size(p) \in Nat \ {0} /\ 0 \in 0 .. Size(p) - 1
  BY BitsOf
<1>2. p.col + 0 \in 0 .. x.cols - 1
  BY <1>1, InPlaces
<1>3. Window(x)
  <2>1. x.rows > 0 /\ x.cols > 0
    BY <1>2 DEF Region, Formed
  <2> QED BY <2>1, RegionIs DEF Region
<1>4. Get(x, i, p) = {k \in Nat : k < Size(p) /\ Bit(x, i, p.col + k)}
  BY <1>3, GetIs
<1>5. Get(x, i, p) \subseteq 0 .. Size(p) - 1
  BY <1>1, <1>4
<1>6. ASSUME NEW k \in 0 .. Size(p) - 1
      PROVE  /\ k \in Get(x, i, p) <=> <<i, p.col + k>> \in Ones(x)
             /\ k \in Get(x, i, p) <=> Bit(x, i, p.col + k)
  <2>1. k \in Nat /\ k < Size(p)
    BY <1>1
  <2>2. k \in Get(x, i, p) <=> Bit(x, i, p.col + k)
    BY <1>4, <2>1
  <2>3. p.col + k \in 0 .. x.cols - 1
    BY InPlaces
  <2> QED BY <2>2, <2>3, OnesAre
<1> QED BY <1>5, <1>6

(* What has not been written is as it was. *)
LEMMA Ahead ==
  ASSUME NEW x, Region(x), NEW N, NEW i \in 0 .. x.rows - 1, NEW e, NEW z, Reached(z, x, N, i, e),
         e \in Nat
  PROVE  /\ Region(z) /\ z.rows = x.rows /\ z.cols = x.cols
         /\ \A p : Lies(z, p) <=> Lies(x, p)
         /\ \A j \in 0 .. x.cols - 1 : j >= e => (Bit(z, i, j) <=> Bit(x, i, j))
<1>1. Region(z) /\ Framed(z, x)
  BY FramedRegion DEF Reached
<1>2. /\ z.rows = x.rows /\ z.cols = x.cols /\ z.ro = x.ro /\ z.co = x.co
      /\ z.arows = x.arows /\ z.acols = x.acols
  BY <1>1 DEF Framed
<1>3. \A p : Lies(z, p) <=> Lies(x, p)
  BY <1>2 DEF Lies, Aligned
<1>4. ASSUME NEW j \in 0 .. x.cols - 1, j >= e PROVE Bit(z, i, j) <=> Bit(x, i, j)
  <2> DEFINE r == i + x.ro c == j + x.co
  <2>1. /\ Bit(x, i, j) <=> Has(x, r, c)
        /\ r \in 0 .. x.arows - 1 /\ c \in 0 .. x.acols - 1
    BY BitHas
  <2>2. Bit(z, i, j) <=> Has(z, r, c)
    BY <1>1, <1>2, BitHas
  <2>3. ~Before(x, i, e, r, c)
    BY <1>4 DEF Before, Region, Formed
  <2>4. Has(z, r, c) <=> IF Before(x, i, e, r, c) THEN <<r - x.ro, c - x.co>> \in N ELSE Has(x, r, c)
    BY <2>1 DEF Reached
  <2> QED BY <2>1, <2>2, <2>3, <2>4
<1> QED BY <1>1, <1>2, <1>3, <1>4

(* So does reading ahead of what is written in the same allocation.        *)
LEMMA GetAhead ==
  ASSUME LongBits = WordBits, NEW x, Region(x), NEW N, NEW i \in 0 .. x.rows - 1,
         NEW p, Lies(x, p), NEW z, Reached(z, x, N, i, p.col)
  PROVE  /\ Get(z, i, p) \subseteq 0 .. Size(p) - 1
         /\ \A k \in 0 .. Size(p) - 1 : k \in Get(z, i, p) <=> <<i, p.col + k>> \in Ones(x)
<1>1. p.col \in Nat /\ Size(p) \in Nat \ {0}
  BY BitsOf
<1>2. /\ Region(z) /\ z.rows = x.rows /\ z.cols = x.cols
      /\ Lies(z, p)
      /\ \A j \in 0 .. x.cols - 1 : j >= p.col => (Bit(z, i, j) <=> Bit(x, i, j))
  BY <1>1, Ahead
<1>3. /\ Get(z, i, p) \subseteq 0 .. Size(p) - 1
      /\ \A k \in 0 .. Size(p) - 1 : k \in Get(z, i, p) <=> Bit(z, i, p.col + k)
  BY <1>2, GetTells
<1>4. ASSUME NEW k \in 0 .. Size(p) - 1
      PROVE  k \in Get(z, i, p) <=> <<i, p.col + k>> \in Ones(x)
  <2>1. p.col + k \in 0 .. x.cols - 1
    BY InPlaces
  <2>2. p.col + k >= p.col
    BY <1>1
  <2>3. Bit(z, i, p.col + k) <=> Bit(x, i, p.col + k)
    BY <1>2, <2>1, <2>2
  <2> QED BY <1>3, <2>1, <2>3, OnesAre
<1> QED BY <1>3, <1>4

(* What a part is given, bit by bit.                                       *)
LEMMA SaysIf ==
  ASSUME LongBits = WordBits, NEW x, NEW i, NEW p, Lies(x, p), NEW N, NEW v,
         v \subseteq 0 .. Size(p) - 1,
         \A k \in 0 .. Size(p) - 1 : k \in v <=> <<i, p.col + k>> \in N
  PROVE  Says(v, x, N, i, p)
BY BitsOf DEF Says
-----------------------------------------------------------------------------
(* What the operations write.                                              *)

(* The cells of the window and its places are the same.                    *)
LEMMA WithinPlaces ==
  ASSUME NEW x, Formed(x), NEW r \in Int, NEW c \in Int
  PROVE  Within(x, r, c) <=> <<r - x.ro, c - x.co>> \in Places(x)
<1>1. x.rows \in Nat /\ x.cols \in Nat /\ x.ro \in Int /\ x.co \in Int
  BY DEF Formed
<1>2. Within(x, r, c) <=> (r - x.ro \in 0 .. x.rows - 1 /\ c - x.co \in 0 .. x.cols - 1)
  BY ONLY <1>1 DEF Within
<1> QED BY <1>2 DEF Places

(* Assignment writes the cells of the other matrix.                        *)
LEMMA AssignWrites ==
  ASSUME LongBits = WordBits, NEW x, NEW y, Region(x), Region(y), SameSize(x, y)
  PROVE  Written(Assign(x, y), x, Ones(y))
<1> DEFINE how == [op |-> "=", from |-> y] C == CommonParts(x, y)
<1>1. Assign(x, y) = Write(x, C, how)
  BY DEF Assign, Reallocate, SameSize
<1>2. ASSUME x.rows > 0 PROVE Chained(x, C) /\ Tells(how, x, C, Ones(y))
  <2>1. /\ Chained(x, C)
        /\ \A p \in ToSet(C) : Lies(x, p) /\ Lies(y, p)
    BY <1>2, RegionChained
  <2> HIDE DEF C
  <2>2. ASSUME NEW i \in 0 .. x.rows - 1, NEW p \in ToSet(C), NEW z
        PROVE  Says(New(z, i, p, how), x, Ones(y), i, p)
    <3>1. New(z, i, p, how) = Get(y, i, p)
      BY DEF New
    <3>2. i \in 0 .. y.rows - 1
      BY DEF SameSize
    <3>3. /\ Get(y, i, p) \subseteq 0 .. Size(p) - 1
          /\ \A k \in 0 .. Size(p) - 1 : k \in Get(y, i, p) <=> <<i, p.col + k>> \in Ones(y)
      BY <2>1, <3>2, GetTells
    <3> QED BY <2>1, <3>1, <3>3, SaysIf
  <2> QED BY <2>1, <2>2 DEF Tells
<1> HIDE DEF how, C
<1> QED BY <1>1, <1>2, WriteIs

(* Every part that is chained lies in the window.                          *)
LEMMA ChainedLies ==
  ASSUME NEW x, NEW parts, Chained(x, parts), NEW p \in ToSet(parts)
  PROVE  Lies(x, p)
<1>1. DOMAIN parts = 1 .. Len(parts)
  BY DEF Chained
<1>2. PICK k \in 1 .. Len(parts) : p = parts[k]
  BY <1>1 DEF ToSet
<1> QED BY <1>2 DEF Chained

(* equalsNot writes what is not 1 in the other matrix.                     *)
LEMMA EqualsNotWrites ==
  ASSUME LongBits = WordBits, NEW x, NEW y, Region(x), Region(y), SameSize(x, y)
  PROVE  Written(EqualsNot(x, y), x, Places(y) \ Ones(y))
<1> DEFINE how == [op |-> "equalsNot", from |-> y] C == CommonParts(x, y)
           N == Places(y) \ Ones(y)
<1>1. EqualsNot(x, y) = Write(x, C, how)
  BY DEF EqualsNot, Reallocate, SameSize
<1>2. ASSUME x.rows > 0 PROVE Chained(x, C) /\ Tells(how, x, C, N)
  <2>1. /\ Chained(x, C)
        /\ \A p \in ToSet(C) : Lies(x, p) /\ Lies(y, p)
    BY <1>2, RegionChained
  <2> HIDE DEF C
  <2>2. ASSUME NEW i \in 0 .. x.rows - 1, NEW p \in ToSet(C), NEW z
        PROVE  Says(New(z, i, p, how), x, N, i, p)
    <3>1. New(z, i, p, how) = Whole(p) \ Get(y, i, p)
      BY DEF New
    <3>2. i \in 0 .. y.rows - 1 /\ Lies(y, p)
      BY <2>1 DEF SameSize
    <3>3. \A k \in 0 .. Size(p) - 1 : k \in Get(y, i, p) <=> <<i, p.col + k>> \in Ones(y)
      BY <3>2, GetTells
    <3>4. Whole(p) = 0 .. Size(p) - 1
      BY <3>2, BitsOf
    <3>5. \A k \in 0 .. Size(p) - 1 : <<i, p.col + k>> \in Places(y)
      BY <3>2, InPlaces
    <3> QED BY <2>1, <3>1, <3>3, <3>4, <3>5, SaysIf
  <2> QED BY <2>1, <2>2 DEF Tells
<1> HIDE DEF how, C, N
<1> QED BY <1>1, <1>2, WriteIs DEF N

(* All cells, or none.                                                     *)
LEMMA FillWrites ==
  ASSUME LongBits = WordBits, NEW x, Region(x), NEW v \in BOOLEAN
  PROVE  Written(Fill(x, v), x, IF v THEN Places(x) ELSE {})
<1> DEFINE how == [op |-> "fill", value |-> v] C == Parts(x)
           N == IF v THEN Places(x) ELSE {}
<1>1. Fill(x, v) = Write(x, C, how)
  BY DEF Fill
<1>2. ASSUME x.rows > 0 PROVE Chained(x, C) /\ Tells(how, x, C, N)
  <2>1. Chained(x, C)
    BY <1>2, RegionChained DEF SameSize
  <2>2. \A p \in ToSet(C) : Lies(x, p)
    BY <2>1, ChainedLies
  <2> HIDE DEF C
  <2>3. ASSUME NEW i \in 0 .. x.rows - 1, NEW p \in ToSet(C), NEW z
        PROVE  Says(New(z, i, p, how), x, N, i, p)
    <3>1. New(z, i, p, how) = IF v THEN Whole(p) ELSE {}
      BY DEF New
    <3>2. Whole(p) = 0 .. Size(p) - 1
      BY <2>2, BitsOf
    <3>3. \A k \in 0 .. Size(p) - 1 : <<i, p.col + k>> \in Places(x)
      BY <2>2, InPlaces
    <3> QED BY <2>2, <3>1, <3>2, <3>3, SaysIf
  <2> QED BY <2>1, <2>3 DEF Tells
<1> HIDE DEF how, C, N
<1> QED BY <1>1, <1>2, WriteIs DEF N

(* The cells that were not 1.                                              *)
LEMMA NegateWrites ==
  ASSUME LongBits = WordBits, NEW x, Region(x)
  PROVE  Written(Negate(x), x, Places(x) \ Ones(x))
<1> DEFINE how == [op |-> "~"] C == Parts(x) N == Places(x) \ Ones(x)
<1>1. Negate(x) = Write(x, C, how)
  BY DEF Negate
<1>2. ASSUME x.rows > 0 PROVE Chained(x, C) /\ Tells(how, x, C, N)
  <2>1. Chained(x, C)
    BY <1>2, RegionChained DEF SameSize
  <2>2. \A p \in ToSet(C) : Lies(x, p)
    BY <2>1, ChainedLies
  <2> HIDE DEF C, N
  <2>3. ASSUME NEW i \in 0 .. x.rows - 1, NEW p \in ToSet(C), NEW z, Reached(z, x, N, i, p.col)
        PROVE  Says(New(z, i, p, how), x, N, i, p)
    <3>1. New(z, i, p, how) = Whole(p) \ Get(z, i, p)
      BY DEF New
    <3>2. Whole(p) = 0 .. Size(p) - 1
      BY <2>2, BitsOf
    <3>3. \A k \in 0 .. Size(p) - 1 : k \in Get(z, i, p) <=> <<i, p.col + k>> \in Ones(x)
      BY <2>2, <2>3, GetAhead
    <3>4. \A k \in 0 .. Size(p) - 1 : <<i, p.col + k>> \in Places(x)
      BY <2>2, InPlaces
    <3> QED BY <2>2, <3>1, <3>2, <3>3, <3>4, SaysIf DEF N
  <2> QED BY <2>1, <2>3 DEF Tells
<1> HIDE DEF how, C, N
<1> QED BY <1>1, <1>2, WriteIs DEF N

(* What both, one, or just one of the matrices have.                       *)
LEMMA CombineWrites ==
  ASSUME LongBits = WordBits, NEW x, NEW y, Region(x), Region(y), SameSize(x, y),
         NEW op \in {"&=", "|=", "^="}
  PROVE  Written(Combine(x, y, op), x, Combined(op, Ones(x), Ones(y)))
<1> DEFINE how == [op |-> op, from |-> y] C == CommonParts(x, y)
           N == Combined(op, Ones(x), Ones(y))
<1>1. Combine(x, y, op) = Write(x, C, how)
  BY DEF Combine
<1>2. ASSUME x.rows > 0 PROVE Chained(x, C) /\ Tells(how, x, C, N)
  <2>1. /\ Chained(x, C)
        /\ \A p \in ToSet(C) : Lies(x, p) /\ Lies(y, p)
    BY <1>2, RegionChained
  <2> HIDE DEF C, N
  <2>2. ASSUME NEW i \in 0 .. x.rows - 1, NEW p \in ToSet(C), NEW z, Reached(z, x, N, i, p.col)
        PROVE  Says(New(z, i, p, how), x, N, i, p)
    <3> DEFINE u == Get(z, i, p) v == Get(y, i, p)
    <3>1. New(z, i, p, how) = Combined(op, u, v)
      BY DEF New
    <3>2. i \in 0 .. y.rows - 1 /\ Lies(x, p) /\ Lies(y, p)
      BY <2>1 DEF SameSize
    <3>3. /\ u \subseteq 0 .. Size(p) - 1
          /\ \A k \in 0 .. Size(p) - 1 : k \in u <=> <<i, p.col + k>> \in Ones(x)
      BY <2>2, <3>2, GetAhead
    <3>4. /\ v \subseteq 0 .. Size(p) - 1
          /\ \A k \in 0 .. Size(p) - 1 : k \in v <=> <<i, p.col + k>> \in Ones(y)
      BY <3>2, GetTells
    <3> HIDE DEF u, v
    <3>5. Combined(op, u, v) \subseteq 0 .. Size(p) - 1
      BY <3>3, <3>4 DEF Combined, Differ
    <3>6. \A k \in 0 .. Size(p) - 1 : k \in Combined(op, u, v) <=> <<i, p.col + k>> \in N
      BY <3>3, <3>4 DEF Combined, Differ, N
    <3> QED BY <3>1, <3>2, <3>5, <3>6, SaysIf
  <2> QED BY <2>1, <2>2 DEF Tells
<1> HIDE DEF how, C, N
<1> QED BY <1>1, <1>2, WriteIs DEF N

(* What orAnd or orExor ors in. *)
Mixed(op, u, v) == IF op = "orAnd" THEN u \cap v ELSE Differ(u, v)

(* The cells that were 1, and what the other two give.                     *)
LEMMA OrInWrites ==
  ASSUME LongBits = WordBits, NEW x, NEW y, NEW o, Region(x), SameSize(x, y), SameSize(x, o),
         NEW op \in {"orAnd", "orExor"}
  PROVE  Written(OrIn(x, y, o, op), x, Ones(x) \cup Mixed(op, Ones(y), Ones(o)))
<1> DEFINE how == [op |-> op, one |-> y, two |-> o] C == Parts(x)
           N == Ones(x) \cup Mixed(op, Ones(y), Ones(o))
<1>1. OrIn(x, y, o, op) = Write(x, C, how)
  BY DEF OrIn
<1>2. ASSUME x.rows > 0 PROVE Chained(x, C) /\ Tells(how, x, C, N)
  <2>1. Chained(x, C)
    BY <1>2, RegionChained DEF SameSize
  <2>2. \A p \in ToSet(C) : Lies(x, p)
    BY <2>1, ChainedLies
  <2> HIDE DEF C, N
  <2>3. ASSUME NEW i \in 0 .. x.rows - 1, NEW p \in ToSet(C), NEW z, Reached(z, x, N, i, p.col)
        PROVE  Says(New(z, i, p, how), x, N, i, p)
    <3> DEFINE u == Get(z, i, p)
               in(k) == LET f == Bit(y, i, p.col + k)
                            g == Bit(o, i, p.col + k)
                        IN  IF op = "orAnd" THEN f /\ g ELSE f # g
               v == {k \in 0 .. Size(p) - 1 : in(k)}
    <3>1. New(z, i, p, how) = u \cup v
      <4>1. (IF p.long THEN WordBits - 1 ELSE 0) = Size(p) - 1
        BY DEF Size
      <4>2. how.op \in {"orAnd", "orExor"} /\ how.op = op /\ how.one = y /\ how.two = o
        OBVIOUS
      <4>3. New(z, i, p, how)
            = u \cup {k \in 0 .. (IF p.long THEN WordBits - 1 ELSE 0) : in(k)}
        BY <4>2 DEF New
      <4> QED BY <4>1, <4>3
    <3>2. /\ u \subseteq 0 .. Size(p) - 1
          /\ \A k \in 0 .. Size(p) - 1 : k \in u <=> <<i, p.col + k>> \in Ones(x)
      BY <2>2, <2>3, GetAhead
    <3>3. ASSUME NEW k \in 0 .. Size(p) - 1
          PROVE  in(k) <=> <<i, p.col + k>> \in Mixed(op, Ones(y), Ones(o))
      <4>1. p.col + k \in 0 .. x.cols - 1
        BY <2>2, InPlaces
      <4>2. /\ <<i, p.col + k>> \in Ones(y) <=> Bit(y, i, p.col + k)
            /\ <<i, p.col + k>> \in Ones(o) <=> Bit(o, i, p.col + k)
        BY <4>1, OnesAre DEF SameSize
      <4>3. Bit(y, i, p.col + k) \in BOOLEAN /\ Bit(o, i, p.col + k) \in BOOLEAN
        BY DEF Bit, Exists
      <4> QED BY <4>2, <4>3 DEF Mixed, Differ
    <3> HIDE DEF u, in
    <3> QED BY <2>2, <3>1, <3>2, <3>3, SaysIf DEF N
  <2> QED BY <2>1, <2>3 DEF Tells
<1> HIDE DEF how, C, N
<1> QED BY <1>1, <1>2, WriteIs DEF N

(* The cells that are told.                                                *)
LEMMA EachWrites ==
  ASSUME LongBits = WordBits, NEW x, Region(x), NEW N
  PROVE  Written(Each(x, N), x, N)
<1> DEFINE how == [op |-> "each", cells |-> N] C == Singly(0, x.cols)
<1>1. Each(x, N) = Write(x, C, how)
  BY DEF Each
<1>2. Chained(x, C) /\ Tells(how, x, C, N)
  <2>1. Chained(x, C)
    BY SinglyChained DEF Region, Formed
  <2>2. \A p \in ToSet(C) : Lies(x, p) /\ ~p.long
    <3>1. ASSUME NEW p \in ToSet(C) PROVE ~p.long
      <4>1. PICK k \in 1 .. x.cols - 0 : p = [col |-> 0 + k - 1, long |-> FALSE]
        BY DEF ToSet, Singly
      <4> QED BY <4>1
    <3> QED BY <2>1, <3>1, ChainedLies
  <2> HIDE DEF C
  <2>3. ASSUME NEW i \in 0 .. x.rows - 1, NEW p \in ToSet(C), NEW z
        PROVE  Says(New(z, i, p, how), x, N, i, p)
    <3>1. New(z, i, p, how) = IF <<i, p.col>> \in N THEN {0} ELSE {}
      BY DEF New
    <3>2. Size(p) = 1 /\ p.col \in Nat
      BY <2>2, BitsOf DEF Size
    <3>3. 0 .. Size(p) - 1 = {0} /\ p.col + 0 = p.col
      BY <3>2
    <3> QED BY <2>2, <3>1, <3>3, SaysIf
  <2> QED BY <2>1, <2>3 DEF Tells
<1> HIDE DEF how, C
<1> QED BY <1>1, <1>2, WriteIs
-----------------------------------------------------------------------------
(* Copies within an allocation.                                            *)

(* What is copied is not overwritten before it was read. *)
Safe(x, from) ==
  \/ from.ro > x.ro
  \/ from.ro = x.ro /\ from.co >= x.co
  \/ from.ro + x.rows <= x.ro
  \/ from.co + x.cols <= x.co

(* A copy within an allocation goes ahead of what it overwrites.           *)
LEMMA CopyWithinWrites ==
  ASSUME LongBits = WordBits, NEW x, NEW from, Region(x), Region(from), SameSize(x, from),
         from.arows = x.arows, from.acols = x.acols, from.mem = x.mem, Safe(x, from)
  PROVE  Written(CopyWithin(x, from), x, Ones(from))
<1> DEFINE how == [op |-> "within", from |-> from] C == CommonParts(x, from)
           N == Ones(from)
<1>1. CopyWithin(x, from) = Write(x, C, how)
  BY DEF CopyWithin
<1>2. ASSUME x.rows > 0 PROVE Chained(x, C) /\ Tells(how, x, C, N)
  <2>1. /\ Chained(x, C)
        /\ \A p \in ToSet(C) : Lies(x, p) /\ Lies(from, p)
    BY <1>2, RegionChained
  <2> HIDE DEF C, N
  <2>2. ASSUME NEW i \in 0 .. x.rows - 1, NEW p \in ToSet(C), NEW z, Reached(z, x, N, i, p.col)
        PROVE  Says(New(z, i, p, how), x, N, i, p)
    <3> DEFINE s == [from EXCEPT !.mem = z.mem]
    <3>1. New(z, i, p, how) = Get(s, i, p)
      BY DEF New
    <3>2. /\ Formed(z) /\ z.arows = x.arows /\ z.acols = x.acols
      BY <2>2 DEF Reached, Framed
    <3>3. s = [rows |-> from.rows, cols |-> from.cols, ro |-> from.ro, co |-> from.co,
               arows |-> from.arows, acols |-> from.acols, mem |-> z.mem]
      <4>1. from = [rows |-> from.rows, cols |-> from.cols, ro |-> from.ro, co |-> from.co,
                    arows |-> from.arows, acols |-> from.acols, mem |-> from.mem]
        BY DEF Region, Formed
      <4> QED BY ONLY <4>1
    <3> HIDE DEF s
    <3>4. /\ s.rows = from.rows /\ s.cols = from.cols /\ s.ro = from.ro /\ s.co = from.co
          /\ s.arows = from.arows /\ s.acols = from.acols /\ s.mem = z.mem
      BY <3>3
    <3>5. Region(s)
      <4>1. s.mem \in [0 .. s.arows - 1 -> [0 .. RowInc(s.acols) - 1 -> SUBSET Long]]
        BY <3>2, <3>4 DEF Formed
      <4> QED BY <3>3, <3>4, <4>1 DEF Region, Formed
    <3>6. Lies(x, p) /\ Lies(s, p) /\ Lies(from, p) /\ i \in 0 .. s.rows - 1 /\ i \in 0 .. from.rows - 1
      BY <2>1, <3>4 DEF Lies, Aligned, SameSize
    <3>7. /\ Get(s, i, p) \subseteq 0 .. Size(p) - 1
          /\ \A k \in 0 .. Size(p) - 1 : k \in Get(s, i, p) <=> Bit(s, i, p.col + k)
      BY <3>5, <3>6, GetTells
    <3>8. ASSUME NEW k \in 0 .. Size(p) - 1
          PROVE  Bit(s, i, p.col + k) <=> <<i, p.col + k>> \in N
      <4> DEFINE j == p.col + k r == i + from.ro c == j + from.co
      <4>1. j \in 0 .. s.cols - 1 /\ j \in 0 .. from.cols - 1
        BY <3>4, <3>6, InPlaces
      <4>2. /\ Bit(from, i, j) <=> Has(from, r, c)
            /\ r \in 0 .. x.arows - 1 /\ c \in 0 .. x.acols - 1
        BY <3>6, <4>1, BitHas
      <4>3. Bit(s, i, j) <=> Has(s, r, c)
        BY <3>4, <3>5, <3>6, <4>1, BitHas
      <4>4. (Has(s, r, c) <=> Has(z, r, c)) /\ (Has(from, r, c) <=> Has(x, r, c))
        BY <3>4 DEF Has
      <4>5. ~Before(x, i, p.col, r, c)
        <5>1. /\ p.col \in Nat /\ k \in Nat /\ i \in Nat /\ i < x.rows /\ j < x.cols
              /\ from.ro \in Int /\ from.co \in Int /\ x.ro \in Int /\ x.co \in Int
              /\ x.rows \in Nat /\ x.cols \in Nat
          <6>1. p.col \in Nat /\ Size(p) \in Nat
            BY <3>6, BitsOf
          <6>2. x.rows \in Nat /\ x.cols \in Nat /\ x.cols = from.cols
            BY DEF Region, Formed, SameSize
          <6>3. k \in Nat /\ i \in Nat /\ i < x.rows /\ j < x.cols
            BY <4>1, <6>1, <6>2
          <6> QED BY <6>1, <6>2, <6>3 DEF Region, Formed
        <5> QED BY ONLY <5>1, Safe(x, from) DEF Before, Safe
      <4>6. Has(z, r, c) <=> Has(x, r, c)
        BY <2>2, <4>2, <4>5 DEF Reached
      <4>7. <<i, j>> \in N <=> Bit(from, i, j)
        BY <3>6, <4>1, OnesAre DEF N
      <4> QED BY <4>2, <4>3, <4>4, <4>6, <4>7
    <3> QED BY <3>1, <3>6, <3>7, <3>8, SaysIf
  <2> QED BY <2>1, <2>2 DEF Tells
<1> HIDE DEF how, C, N
<1> QED BY <1>1, <1>2, WriteIs DEF N
-----------------------------------------------------------------------------
(* The cells of matrices                                                   *)

(* Nothing is written where there is nothing to write. *)
LEMMA NothingWritten ==
  ASSUME NEW x, x.rows \in Nat, NEW parts, x.rows > 0 => parts = <<>>, NEW how
  PROVE  Write(x, parts, how) = x
<1>1. PICK done : /\ done[0] = x
                  /\ \A k \in 1 .. x.rows : done[k] = WriteRow(done[k - 1], k - 1, parts, how)
                  /\ Write(x, parts, how) = done[x.rows]
  BY RowsGo
<1> DEFINE n == x.rows S == {k \in Nat : k <= n => done[k] = x}
<1>2. 0 \in S
  BY <1>1
<1>3. ASSUME NEW k \in Nat, k \in S PROVE k + 1 \in S
  <2> SUFFICES ASSUME k + 1 <= n PROVE done[k + 1] = x
    OBVIOUS
  <2>1. k + 1 \in 1 .. n /\ (k + 1) - 1 = k /\ k <= n /\ x.rows > 0
    OBVIOUS
  <2>2. done[k + 1] = WriteRow(done[k], k, parts, how) /\ done[k] = x /\ parts = <<>>
    BY <1>1, <1>3, <2>1
  <2>3. Len(<<>>) = 0 /\ <<>> \in Seq(PartSet)
    OBVIOUS
  <2>4. WriteRow(x, k, <<>>, how) = x
    BY <2>3, RowGoes
  <2> QED BY <2>2, <2>4
<1>4. n \in S
  <2> HIDE DEF S
  <2> QED BY <1>2, <1>3, EveryNumber
<1> QED BY <1>1, <1>4

(* A new allocation. *)
LEMMA SetupIs ==
  ASSUME NEW r \in Nat, NEW c \in Nat, NEW v \in BOOLEAN
  PROVE  /\ Region(Setup(r, c, v))
         /\ Setup(r, c, v).rows = r /\ Setup(r, c, v).cols = c
         /\ Setup(r, c, v).ro = 0 /\ Setup(r, c, v).co = 0
         /\ Setup(r, c, v).arows = r /\ Setup(r, c, v).acols = c
         /\ \A i \in 0 .. r - 1, j \in 0 .. c - 1 : Has(Setup(r, c, v), i, j) <=> v
<1> DEFINE w == IF v THEN Long ELSE {} z == Setup(r, c, v)
           n == [i \in 0 .. r - 1 |-> [k \in 0 .. RowInc(c) - 1 |-> w]]
<1>1. w \in SUBSET Long
  OBVIOUS
<1>2. z = [rows |-> r, cols |-> c, ro |-> 0, co |-> 0, arows |-> r, acols |-> c, mem |-> n]
  BY DEF Setup
<1>3. n \in [0 .. r - 1 -> [0 .. RowInc(c) - 1 -> SUBSET Long]]
  BY <1>1
<1>4. \A i \in 0 .. r - 1, k \in 0 .. RowInc(c) - 1 : n[i][k] = w
  OBVIOUS
<1> HIDE DEF n, z
<1>5. /\ z.rows = r /\ z.cols = c /\ z.ro = 0 /\ z.co = 0
      /\ z.arows = r /\ z.acols = c /\ z.mem = n
  BY <1>2
<1>6. Formed(z)
  <2>1. 0 + r <= r /\ 0 + c <= c /\ 0 >= 0 /\ 0 \in Int
    OBVIOUS
  <2> QED BY <1>2, <1>3, <1>5, <2>1 DEF Formed
<1>7. Region(z)
  BY <1>5, <1>6 DEF Region
<1>8. ASSUME NEW i \in 0 .. r - 1, NEW j \in 0 .. c - 1 PROVE Has(z, i, j) <=> v
  <2>1. j \div WordBits \in 0 .. RowInc(c) - 1 /\ j % WordBits \in Long
    BY <1>5, <1>6, InWords
  <2>2. z.mem[i][j \div WordBits] = w
    BY <1>4, <1>5, <2>1
  <2> QED BY <2>1, <2>2 DEF Has
<1> QED BY <1>5, <1>7, <1>8 DEF z
-----------------------------------------------------------------------------
(* The cells of an allocation.                                             *)

(* Cells of a matrix are those of its allocation that are 1.               *)
LEMMA CellsAre ==
  ASSUME NEW x
  PROVE  /\ Cells(x).rows = x.rows /\ Cells(x).cols = x.cols
         /\ Cells(x).ro = x.ro /\ Cells(x).co = x.co
         /\ Cells(x).arows = x.arows /\ Cells(x).acols = x.acols
         /\ \A q \in Cells(x).on : q \in (0 .. x.arows - 1) \X (0 .. x.acols - 1)
         /\ \A r \in 0 .. x.arows - 1, c \in 0 .. x.acols - 1 :
              <<r, c>> \in Cells(x).on <=> Has(x, r, c)
<1> DEFINE S == {q \in (0 .. x.arows - 1) \X (0 .. x.acols - 1) :
                   q[2] % WordBits \in x.mem[q[1]][q[2] \div WordBits]}
<1>1. \A r \in 0 .. x.arows - 1, c \in 0 .. x.acols - 1 : <<r, c>> \in S <=> Has(x, r, c)
  BY DEF Has
<1>2. \A q \in S : q \in (0 .. x.arows - 1) \X (0 .. x.acols - 1)
  OBVIOUS
<1> HIDE DEF S
<1>3. Cells(x) = [rows |-> x.rows, cols |-> x.cols, ro |-> x.ro, co |-> x.co,
                  arows |-> x.arows, acols |-> x.acols, on |-> S]
  BY DEF Cells, S
<1> QED BY <1>1, <1>2, <1>3

(* A matrix has the cells that are the 1s of its allocation.               *)
LEMMA CellsFrom ==
  ASSUME NEW z, NEW S, \A q \in S : q \in (0 .. z.arows - 1) \X (0 .. z.acols - 1),
         \A r \in 0 .. z.arows - 1, c \in 0 .. z.acols - 1 : <<r, c>> \in S <=> Has(z, r, c)
  PROVE  Cells(z) = [rows |-> z.rows, cols |-> z.cols, ro |-> z.ro, co |-> z.co,
                     arows |-> z.arows, acols |-> z.acols, on |-> S]
<1>1. S = {q \in (0 .. z.arows - 1) \X (0 .. z.acols - 1) :
             q[2] % WordBits \in z.mem[q[1]][q[2] \div WordBits]}
  BY DEF Has
<1> QED BY <1>1 DEF Cells

(* A matrix with places is a region.                                       *)
LEMMA PlacesRegion ==
  ASSUME NEW x, Formed(x), NEW q \in Places(x)
  PROVE  /\ Region(x) /\ x.rows > 0 /\ x.cols > 0 /\ q = <<q[1], q[2]>>
         /\ q[1] \in 0 .. x.rows - 1 /\ q[2] \in 0 .. x.cols - 1
<1>1. q[1] \in 0 .. x.rows - 1 /\ q[2] \in 0 .. x.cols - 1 /\ q = <<q[1], q[2]>>
  BY DEF Places
<1>2. x.rows \in Nat /\ x.cols \in Nat
  BY DEF Formed
<1>3. x.rows > 0 /\ x.cols > 0
  BY <1>1, <1>2
<1> QED BY <1>1, <1>3, RegionIs

(* What CellGrid sees in the window.                                       *)
LEMMA ViewIs ==
  ASSUME NEW x, Formed(x)
  PROVE  Grid!All(Cells(x)) = Places(x) /\ Grid!View(Cells(x)) = Ones(x)
<1>1. Grid!All(Cells(x)) = Places(x)
  BY CellsAre DEF Grid!All, Places
<1>2. ASSUME NEW q \in Places(x)
      PROVE  <<q[1] + x.ro, q[2] + x.co>> \in Cells(x).on <=> Bit(x, q[1], q[2])
  BY PlacesRegion, BitHas, CellsAre
<1>3. Grid!View(Cells(x)) = {q \in Places(x) : <<q[1] + x.ro, q[2] + x.co>> \in Cells(x).on}
  BY <1>1, CellsAre DEF Grid!View
<1> QED BY <1>1, <1>2, <1>3 DEF Ones

(* The fields of Cells.                                                    *)
LEMMA CellsAs ==
  ASSUME NEW x
  PROVE  Cells(x) = [rows |-> x.rows, cols |-> x.cols, ro |-> x.ro, co |-> x.co,
                     arows |-> x.arows, acols |-> x.acols, on |-> Cells(x).on]
<1> DEFINE S == Cells(x).on
<1>1. /\ \A q \in S : q \in (0 .. x.arows - 1) \X (0 .. x.acols - 1)
      /\ \A r \in 0 .. x.arows - 1, c \in 0 .. x.acols - 1 : <<r, c>> \in S <=> Has(x, r, c)
  BY CellsAre
<1> HIDE DEF S
<1>2. Cells(x) = [rows |-> x.rows, cols |-> x.cols, ro |-> x.ro, co |-> x.co,
                  arows |-> x.arows, acols |-> x.acols, on |-> S]
  BY <1>1, CellsFrom
<1> QED BY <1>2 DEF S

(* The cells of the allocation when those of the window become N. *)
Painted(x, N) ==
  {q \in Cells(x).on : <<q[1] - x.ro, q[2] - x.co>> \notin Places(x)}
  \cup {<<p[1] + x.ro, p[2] + x.co>> : p \in N}

(* The fields of what is painted.                                          *)
LEMMA PaintAre ==
  ASSUME NEW x, NEW N
  PROVE  Grid!Paint(Cells(x), N)
         = [rows |-> x.rows, cols |-> x.cols, ro |-> x.ro, co |-> x.co,
            arows |-> x.arows, acols |-> x.acols, on |-> Painted(x, N)]
<1> DEFINE C == Cells(x) S == {q \in C.on : ~Grid!InWindow(C, q)} \cup {<<p[1] + C.ro, p[2] + C.co>> : p \in N}
<1>1. Grid!Paint(C, N) = [C EXCEPT !.on = S]
  BY DEF Grid!Paint
<1>2. \A q : Grid!InWindow(C, q) <=> <<q[1] - x.ro, q[2] - x.co>> \in Places(x)
  BY CellsAre DEF Grid!InWindow, Grid!All, Places
<1>3. S = Painted(x, N)
  BY <1>2, CellsAre DEF Painted
<1> HIDE DEF S
<1>4. [Cells(x) EXCEPT !.on = S]
      = [rows |-> x.rows, cols |-> x.cols, ro |-> x.ro, co |-> x.co,
         arows |-> x.arows, acols |-> x.acols, on |-> S]
  <2> DEFINE T == Cells(x).on
  <2>1. Cells(x) = [rows |-> x.rows, cols |-> x.cols, ro |-> x.ro, co |-> x.co,
                    arows |-> x.arows, acols |-> x.acols, on |-> T]
    BY CellsAs
  <2> HIDE DEF T
  <2> QED BY ONLY <2>1
<1> QED BY <1>1, <1>3, <1>4

(* What is written is painted.                                             *)
LEMMA PaintIs ==
  ASSUME NEW x, Formed(x), NEW N, N \subseteq Places(x), NEW z, Written(z, x, N)
  PROVE  Formed(z) /\ Cells(z) = Grid!Paint(Cells(x), N)
<1> DEFINE S == Painted(x, N)
<1>2. /\ Formed(z) /\ z.rows = x.rows /\ z.cols = x.cols /\ z.ro = x.ro /\ z.co = x.co
      /\ z.arows = x.arows /\ z.acols = x.acols
  BY DEF Written, Framed
<1>3. x.ro \in Int /\ x.co \in Int
  BY DEF Formed
<1>4. ASSUME NEW q \in S PROVE q \in (0 .. z.arows - 1) \X (0 .. z.acols - 1)
  <2>1. CASE q \in Cells(x).on
    BY <1>2, <2>1, CellsAre
  <2>2. ASSUME NEW p \in N, q = <<p[1] + x.ro, p[2] + x.co>>
        PROVE  q \in (0 .. z.arows - 1) \X (0 .. z.acols - 1)
    <3>1. p[1] \in 0 .. x.rows - 1 /\ p[2] \in 0 .. x.cols - 1 /\ Region(x)
      BY PlacesRegion
    <3>2. /\ x.ro \in Nat /\ x.co \in Nat /\ x.rows \in Nat /\ x.cols \in Nat
          /\ x.arows \in Nat /\ x.acols \in Nat
          /\ x.ro + x.rows <= x.arows /\ x.co + x.cols <= x.acols
      BY <3>1 DEF Region, Formed
    <3>3. p[1] + x.ro \in 0 .. z.arows - 1 /\ p[2] + x.co \in 0 .. z.acols - 1
      BY ONLY <1>2, <3>1, <3>2
    <3> QED BY <2>2, <3>3
  <2> QED BY <2>1, <2>2 DEF Painted
<1>5. ASSUME NEW r \in 0 .. z.arows - 1, NEW c \in 0 .. z.acols - 1
      PROVE  <<r, c>> \in S <=> Has(z, r, c)
  <2> DEFINE v == <<r - x.ro, c - x.co>>
  <2>1. r \in 0 .. x.arows - 1 /\ c \in 0 .. x.acols - 1
    BY <1>2
  <2>2. <<r, c>> \in {<<p[1] + x.ro, p[2] + x.co>> : p \in N} <=> v \in N
    <3>1. ASSUME NEW p \in N, <<r, c>> = <<p[1] + x.ro, p[2] + x.co>> PROVE v \in N
      <4>1. p = <<p[1], p[2]>> /\ p[1] \in Int /\ p[2] \in Int
        BY PlacesRegion
      <4>2. r = p[1] + x.ro /\ c = p[2] + x.co
        BY <3>1
      <4>3. r - x.ro = p[1] /\ c - x.co = p[2]
        BY <1>3, <4>1, <4>2
      <4> QED BY <4>1, <4>3
    <3>2. ASSUME v \in N PROVE \E p \in N : <<r, c>> = <<p[1] + x.ro, p[2] + x.co>>
      <4>1. (r - x.ro) + x.ro = r /\ (c - x.co) + x.co = c
        BY <1>3, <2>1
      <4> QED BY <3>2, <4>1
    <3> QED BY <3>1, <3>2
  <2>3. <<r, c>> \in S <=> ((<<r, c>> \in Cells(x).on /\ v \notin Places(x)) \/ v \in N)
    BY <2>2 DEF Painted
  <2>4. <<r, c>> \in Cells(x).on <=> Has(x, r, c)
    BY <2>1, CellsAre
  <2>5. Within(x, r, c) <=> v \in Places(x)
    BY <2>1, WithinPlaces
  <2>6. Has(z, r, c) <=> IF Within(x, r, c) THEN v \in N ELSE Has(x, r, c)
    BY <2>1 DEF Written
  <2> HIDE DEF v, S
  <2> QED BY <2>3, <2>4, <2>5, <2>6
<1>6. Cells(z) = [rows |-> z.rows, cols |-> z.cols, ro |-> z.ro, co |-> z.co,
                  arows |-> z.arows, acols |-> z.acols, on |-> S]
  <2> HIDE DEF S
  <2> QED BY <1>4, <1>5, CellsFrom
<1> QED BY <1>2, <1>6, PaintAre

(* N are cells of a window of r rows and c columns. *)
Fits(N, r, c) == N \subseteq (0 .. r - 1) \X (0 .. c - 1)

(* x is a new matrix of r rows and c columns. *)
Allocated(x, r, c) == \E v \in BOOLEAN : x = Setup(r, c, v)

(* A new allocation is one window.                                         *)
LEMMA AllocatedIs ==
  ASSUME NEW r \in Nat, NEW c \in Nat, NEW x, Allocated(x, r, c)
  PROVE  /\ Formed(x) /\ x.rows = r /\ x.cols = c /\ x.ro = 0 /\ x.co = 0
         /\ x.arows = r /\ x.acols = c
BY SetupIs DEF Region, Allocated

(* What is written to a new allocation.                                    *)
LEMMA FreshIs ==
  ASSUME NEW r \in Nat, NEW c \in Nat, NEW x, Allocated(x, r, c),
         NEW N, Fits(N, r, c), NEW z, Written(z, x, N)
  PROVE  Formed(z) /\ Cells(z) = Grid!Fresh(r, c, N)
<1>1. /\ Formed(x) /\ x.rows = r /\ x.cols = c /\ x.ro = 0 /\ x.co = 0
      /\ x.arows = r /\ x.acols = c
  BY AllocatedIs
<1>5. N \subseteq (0 .. r - 1) \X (0 .. c - 1)
  BY DEF Fits
<1>2. Places(x) = (0 .. r - 1) \X (0 .. c - 1)
  BY <1>1 DEF Places
<1>3. Formed(z) /\ Cells(z) = Grid!Paint(Cells(x), N)
  BY <1>1, <1>2, <1>5, PaintIs
<1>4. Painted(x, N) = N
  <2>1. ASSUME NEW q \in Cells(x).on PROVE <<q[1] - x.ro, q[2] - x.co>> \in Places(x)
    <3>1. q[1] \in 0 .. r - 1 /\ q[2] \in 0 .. c - 1
      BY <1>1, CellsAre
    <3>2. q[1] - 0 = q[1] /\ q[2] - 0 = q[2]
      BY <3>1
    <3> QED BY <1>1, <1>2, <3>1, <3>2
  <2>2. ASSUME NEW p \in N PROVE <<p[1] + x.ro, p[2] + x.co>> = p
    <3>1. p = <<p[1], p[2]>> /\ p[1] \in Int /\ p[2] \in Int
      BY <1>5
    <3>2. p[1] + 0 = p[1] /\ p[2] + 0 = p[2]
      BY <3>1
    <3> QED BY <1>1, <3>1, <3>2
  <2>3. {<<p[1] + x.ro, p[2] + x.co>> : p \in N} = N
    BY <2>2
  <2> QED BY <2>1, <2>3 DEF Painted
<1> QED BY <1>1, <1>3, <1>4, PaintAre DEF Grid!Fresh

(* t is x when it has been given the size of r rows and c columns. *)
Sized(t, x, r, c) == t = Reallocate(x, r, c, FALSE)

(* What is written to an allocation that is kept if it has the size.       *)
LEMMA PlaceIs ==
  ASSUME NEW x, Formed(x), NEW r \in Nat, NEW c \in Nat,
         NEW N, Fits(N, r, c),
         NEW t, Sized(t, x, r, c), NEW z, Written(z, t, N)
  PROVE  Formed(z) /\ Cells(z) = Grid!Place(Cells(x), r, c, N)
<1>1. CASE x.rows = r /\ x.cols = c
  <2>1. Written(z, x, N) /\ N \subseteq Places(x)
    BY <1>1 DEF Reallocate, Places, Fits, Sized
  <2>2. Formed(z) /\ Cells(z) = Grid!Paint(Cells(x), N)
    BY <2>1, PaintIs
  <2>3. Cells(x).rows = r /\ Cells(x).cols = c
    BY <1>1, CellsAre
  <2> QED BY <2>2, <2>3 DEF Grid!Place
<1>2. CASE ~(x.rows = r /\ x.cols = c)
  <2>1. Allocated(t, r, c)
    BY <1>2 DEF Reallocate, Sized, Allocated
  <2>2. Formed(z) /\ Cells(z) = Grid!Fresh(r, c, N)
    BY <2>1, FreshIs
  <2>3. ~(Cells(x).rows = r /\ Cells(x).cols = c)
    BY <1>2, CellsAre
  <2> QED BY <2>2, <2>3 DEF Grid!Place
<1> QED BY <1>1, <1>2
-----------------------------------------------------------------------------
(* What the operations make of cells                                       *)

(* What the operations make of cells.                                      *)

(* Moving a window changes no cell.                                        *)
LEMMA CellsOffset ==
  ASSUME NEW x, Formed(x), NEW z, z.arows = x.arows, z.acols = x.acols, z.mem = x.mem
  PROVE  Cells(z) = [rows |-> z.rows, cols |-> z.cols, ro |-> z.ro, co |-> z.co,
                     arows |-> x.arows, acols |-> x.acols, on |-> Cells(x).on]
<1>1. Cells(z).on = Cells(x).on
  <2>1. \A r, c : Has(z, r, c) <=> Has(x, r, c)
    BY DEF Has
  <2>2. ASSUME NEW q \in (0 .. x.arows - 1) \X (0 .. x.acols - 1)
        PROVE  q \in Cells(z).on <=> q \in Cells(x).on
    <3>1. q = <<q[1], q[2]>> /\ q[1] \in 0 .. x.arows - 1 /\ q[2] \in 0 .. x.acols - 1
      OBVIOUS
    <3>2. <<q[1], q[2]>> \in Cells(z).on <=> Has(z, q[1], q[2])
      BY <3>1, CellsAre
    <3>3. <<q[1], q[2]>> \in Cells(x).on <=> Has(x, q[1], q[2])
      BY <3>1, CellsAre
    <3> QED BY <2>1, <3>1, <3>2, <3>3
  <2>3. /\ \A q \in Cells(z).on : q \in (0 .. x.arows - 1) \X (0 .. x.acols - 1)
        /\ \A q \in Cells(x).on : q \in (0 .. x.arows - 1) \X (0 .. x.acols - 1)
    BY CellsAre
  <2> QED BY <2>2, <2>3
<1> QED BY <1>1, CellsAs

(* The window is the whole allocation again.                               *)
LEMMA ResetIs ==
  ASSUME NEW x, Formed(x)
  PROVE  /\ Formed(Reset(x))
         /\ Cells(Reset(x))
            = [Cells(x) EXCEPT !.ro = 0, !.co = 0, !.rows = Cells(x).arows, !.cols = Cells(x).acols]
<1> DEFINE z == Reset(x)
<1>1. x = [rows |-> x.rows, cols |-> x.cols, ro |-> x.ro, co |-> x.co,
           arows |-> x.arows, acols |-> x.acols, mem |-> x.mem]
  BY DEF Formed
<1>2. z = [rows |-> x.arows, cols |-> x.acols, ro |-> 0, co |-> 0,
           arows |-> x.arows, acols |-> x.acols, mem |-> x.mem]
  <2>1. z = [x EXCEPT !.ro = 0, !.co = 0, !.rows = x.arows, !.cols = x.acols]
    BY DEF Reset
  <2> HIDE DEF z
  <2> QED BY ONLY <1>1, <2>1
<1> HIDE DEF z
<1>3. /\ z.rows = x.arows /\ z.cols = x.acols /\ z.ro = 0 /\ z.co = 0
      /\ z.arows = x.arows /\ z.acols = x.acols /\ z.mem = x.mem
  BY <1>2
<1>4. /\ x.arows \in Nat /\ x.acols \in Nat
      /\ x.mem \in [0 .. x.arows - 1 -> [0 .. RowInc(x.acols) - 1 -> SUBSET Long]]
  BY DEF Formed
<1>5. Formed(z)
  <2>1. 0 + x.arows <= x.arows /\ 0 + x.acols <= x.acols /\ 0 >= 0 /\ 0 \in Int
    BY <1>4
  <2> QED BY <1>2, <1>3, <1>4, <2>1 DEF Formed
<1> DEFINE C == Cells(x) T == C.on
<1>6. Cells(z) = [rows |-> x.arows, cols |-> x.acols, ro |-> 0, co |-> 0,
                  arows |-> x.arows, acols |-> x.acols, on |-> T]
  BY <1>3, CellsOffset
<1>7. C = [rows |-> x.rows, cols |-> x.cols, ro |-> x.ro, co |-> x.co,
           arows |-> x.arows, acols |-> x.acols, on |-> T]
  BY CellsAs
<1>8. C.arows = x.arows /\ C.acols = x.acols
  BY <1>7
<1> HIDE DEF C, T
<1>9. Cells(z) = [C EXCEPT !.ro = 0, !.co = 0, !.rows = x.arows, !.cols = x.acols]
  <2> DEFINE E == [C EXCEPT !.ro = 0, !.co = 0, !.rows = x.arows, !.cols = x.acols]
  <2>1. E = [C EXCEPT !.ro = 0, !.co = 0, !.rows = x.arows, !.cols = x.acols]
    OBVIOUS
  <2> HIDE DEF E
  <2>2. E = [rows |-> x.arows, cols |-> x.acols, ro |-> 0, co |-> 0,
             arows |-> x.arows, acols |-> x.acols, on |-> T]
    BY ONLY <1>7, <2>1
  <2> QED BY <1>6, <2>2 DEF E
<1> QED BY <1>5, <1>8, <1>9 DEF z, C

(* Setting a bit changes its cell if there is one.                         *)
LEMMA PokeIs ==
  ASSUME NEW x, Region(x), NEW r \in Int, NEW c \in Int, NEW v \in BOOLEAN
  PROVE  /\ Formed(SetBit(x, r, c, v))
         /\ Cells(SetBit(x, r, c, v))
            = IF r < 0 \/ c < 0 \/ r + x.ro >= x.arows \/ c + x.co >= x.acols THEN Cells(x)
              ELSE [Cells(x) EXCEPT !.on = IF v THEN @ \cup {<<r + x.ro, c + x.co>>}
                                           ELSE @ \ {<<r + x.ro, c + x.co>>}]
<1> DEFINE z == SetBit(x, r, c, v) q == <<r + x.ro, c + x.co>>
           S == IF v THEN Cells(x).on \cup {q} ELSE Cells(x).on \ {q}
<1>1. /\ Framed(z, x)
      /\ \A i \in 0 .. x.arows - 1, j \in 0 .. x.acols - 1 :
           Has(z, i, j) <=> IF Exists(x, r, c) /\ i = r + x.ro /\ j = c + x.co THEN v ELSE Has(x, i, j)
  BY SetBitIs DEF Region
<1>2. Exists(x, r, c) <=> ~(r < 0 \/ c < 0 \/ r + x.ro >= x.arows \/ c + x.co >= x.acols)
  <2>1. x.ro \in Nat /\ x.co \in Nat /\ x.arows \in Nat /\ x.acols \in Nat
    BY DEF Region, Formed
  <2> QED BY <2>1 DEF Exists
<1>3. CASE ~Exists(x, r, c)
  BY <1>2, <1>3 DEF SetBit, Region
<1>4. CASE Exists(x, r, c)
  <2>1. /\ Formed(z) /\ z.rows = x.rows /\ z.cols = x.cols /\ z.ro = x.ro /\ z.co = x.co
        /\ z.arows = x.arows /\ z.acols = x.acols
    BY <1>1 DEF Framed
  <2>2. q \in (0 .. x.arows - 1) \X (0 .. x.acols - 1)
    BY <1>4 DEF Exists
  <2>3. \A p \in S : p \in (0 .. z.arows - 1) \X (0 .. z.acols - 1)
    BY <2>1, <2>2, CellsAre
  <2>4. \A i \in 0 .. z.arows - 1, j \in 0 .. z.acols - 1 : <<i, j>> \in S <=> Has(z, i, j)
    <3>1. ASSUME NEW i \in 0 .. x.arows - 1, NEW j \in 0 .. x.acols - 1
          PROVE  <<i, j>> \in S <=> Has(z, i, j)
      <4>1. <<i, j>> \in Cells(x).on <=> Has(x, i, j)
        BY CellsAre
      <4>2. <<i, j>> = q <=> (i = r + x.ro /\ j = c + x.co)
        OBVIOUS
      <4>3. Has(z, i, j) <=> IF <<i, j>> = q THEN v ELSE Has(x, i, j)
        BY <1>1, <1>4, <4>2
      <4> QED BY <4>1, <4>3
    <3> QED BY <2>1, <3>1
  <2> HIDE DEF S, z, q
  <2>5. Cells(z) = [rows |-> x.rows, cols |-> x.cols, ro |-> x.ro, co |-> x.co,
                    arows |-> x.arows, acols |-> x.acols, on |-> S]
    BY <2>1, <2>3, <2>4, CellsFrom
  <2>6. Cells(z) = [Cells(x) EXCEPT !.on = S]
    <3> DEFINE T == Cells(x).on
    <3>1. Cells(x) = [rows |-> x.rows, cols |-> x.cols, ro |-> x.ro, co |-> x.co,
                      arows |-> x.arows, acols |-> x.acols, on |-> T]
      BY CellsAs
    <3> HIDE DEF T
    <3> QED BY ONLY <2>5, <3>1
  <2>7. Cells(z) = [Cells(x) EXCEPT !.on = IF v THEN @ \cup {q} ELSE @ \ {q}]
    BY <2>6 DEF S
  <2> QED BY <1>2, <1>4, <2>1, <2>7 DEF z, q
<1> QED BY <1>3, <1>4

(* What reallocation gives has the size.                                   *)
LEMMA ReallocateIs ==
  ASSUME NEW x, Formed(x), NEW r \in Nat, NEW c \in Nat, NEW t, Sized(t, x, r, c)
  PROVE  Formed(t) /\ t.rows = r /\ t.cols = c
BY SetupIs DEF Sized, Reallocate, Region

(* Into an empty window nothing is written.                                *)
LEMMA EmptyWritten ==
  ASSUME NEW x, Formed(x), ~(x.rows > 0 /\ x.cols > 0), NEW N
  PROVE  Written(x, x, N)
<1>1. x.rows \in Nat /\ x.cols \in Nat /\ x.ro \in Int /\ x.co \in Int
  BY DEF Formed
<1>2. ASSUME NEW r \in 0 .. x.arows - 1, NEW c \in 0 .. x.acols - 1 PROVE ~Within(x, r, c)
  BY <1>1 DEF Within
<1> QED BY <1>2 DEF Written, Framed

(* Assignment, also of empty matrices.                                     *)
LEMMA AssignWritten ==
  ASSUME LongBits = WordBits, NEW x, NEW y, Formed(x), Formed(y)
  PROVE  Written(Assign(x, y), Reallocate(x, y.rows, y.cols, FALSE), Ones(y))
<1> DEFINE t == Reallocate(x, y.rows, y.cols, FALSE)
<1>1. Formed(t) /\ t.rows = y.rows /\ t.cols = y.cols /\ y.rows \in Nat /\ y.cols \in Nat
  <2>1. y.rows \in Nat /\ y.cols \in Nat
    BY DEF Formed
  <2>2. Sized(t, x, y.rows, y.cols)
    BY DEF Sized
  <2> HIDE DEF t
  <2> QED BY <2>1, <2>2, ReallocateIs
<1>2. Assign(x, y) = Write(t, CommonParts(t, y), [op |-> "=", from |-> y])
  BY DEF Assign
<1> HIDE DEF t
<1>3. CASE y.rows > 0 /\ y.cols > 0
  <2>1. Region(t) /\ Region(y) /\ SameSize(t, y)
    BY <1>1, <1>3, RegionIs DEF SameSize
  <2>2. Assign(t, y) = Assign(x, y)
    BY <1>1, <1>2 DEF Assign, Reallocate
  <2> QED BY <2>1, <2>2, AssignWrites DEF t
<1>4. CASE ~(y.rows > 0 /\ y.cols > 0)
  <2>1. t.rows > 0 => CommonParts(t, y) = <<>>
    <3>1. ASSUME t.rows > 0 PROVE t.cols = 0 /\ y.cols = 0
      BY <1>1, <1>4, <3>1
    <3> QED BY <3>1, NoParts
  <2>2. Assign(x, y) = t
    BY <1>1, <1>2, <2>1, NothingWritten
  <2> QED BY <1>1, <1>4, <2>2, EmptyWritten DEF t
<1> QED BY <1>3, <1>4

(* And that of a negated matrix.                                           *)
LEMMA EqualsNotWritten ==
  ASSUME LongBits = WordBits, NEW x, NEW y, Formed(x), Formed(y)
  PROVE  Written(EqualsNot(x, y), Reallocate(x, y.rows, y.cols, FALSE), Places(y) \ Ones(y))
<1> DEFINE t == Reallocate(x, y.rows, y.cols, FALSE)
<1>1. Formed(t) /\ t.rows = y.rows /\ t.cols = y.cols /\ y.rows \in Nat /\ y.cols \in Nat
  <2>1. y.rows \in Nat /\ y.cols \in Nat
    BY DEF Formed
  <2>2. Sized(t, x, y.rows, y.cols)
    BY DEF Sized
  <2> HIDE DEF t
  <2> QED BY <2>1, <2>2, ReallocateIs
<1>2. EqualsNot(x, y) = Write(t, CommonParts(t, y), [op |-> "equalsNot", from |-> y])
  BY DEF EqualsNot
<1> HIDE DEF t
<1>3. CASE y.rows > 0 /\ y.cols > 0
  <2>1. Region(t) /\ Region(y) /\ SameSize(t, y)
    BY <1>1, <1>3, RegionIs DEF SameSize
  <2>2. EqualsNot(t, y) = EqualsNot(x, y)
    BY <1>1, <1>2 DEF EqualsNot, Reallocate
  <2> QED BY <2>1, <2>2, EqualsNotWrites DEF t
<1>4. CASE ~(y.rows > 0 /\ y.cols > 0)
  <2>1. t.rows > 0 => CommonParts(t, y) = <<>>
    <3>1. ASSUME t.rows > 0 PROVE t.cols = 0 /\ y.cols = 0
      BY <1>1, <1>4, <3>1
    <3> QED BY <3>1, NoParts
  <2>2. EqualsNot(x, y) = t
    BY <1>1, <1>2, <2>1, NothingWritten
  <2> QED BY <1>1, <1>4, <2>2, EmptyWritten DEF t
<1> QED BY <1>3, <1>4

(* Cells singly.                                                           *)
LEMMA EachWritten ==
  ASSUME LongBits = WordBits, NEW x, Formed(x), NEW N
  PROVE  Written(Each(x, N), x, N)
<1>1. CASE x.rows > 0 /\ x.cols > 0
  BY <1>1, RegionIs, EachWrites
<1>2. CASE ~(x.rows > 0 /\ x.cols > 0)
  <2>1. x.rows \in Nat /\ x.cols \in Nat
    BY DEF Formed
  <2>2. x.rows > 0 => Singly(0, x.cols) = <<>>
    <3>1. x.rows > 0 => x.cols = 0
      BY <1>2, <2>1
    <3> QED BY <3>1, NoParts
  <2>3. Each(x, N) = x
    BY <2>1, <2>2, NothingWritten DEF Each
  <2> QED BY <1>2, <2>3, EmptyWritten
<1> QED BY <1>1, <1>2
-----------------------------------------------------------------------------
(* What operations make of cells: those of the window, and a new matrix.   *)

(* Filling paints the whole window, or nothing of it.                      *)
LEMMA FillIs ==
  ASSUME LongBits = WordBits, NEW x, Region(x), NEW v \in BOOLEAN
  PROVE  /\ Formed(Fill(x, v))
         /\ Cells(Fill(x, v)) = Grid!Paint(Cells(x), IF v THEN Grid!All(Cells(x)) ELSE {})
<1>1. Formed(x) /\ Grid!All(Cells(x)) = Places(x)
  BY ViewIs DEF Region
<1> QED BY <1>1, FillWrites, PaintIs

(* Negation paints what was not 1.                                         *)
LEMMA NegateIs ==
  ASSUME LongBits = WordBits, NEW x, Region(x)
  PROVE  /\ Formed(Negate(x))
         /\ Cells(Negate(x)) = Grid!Paint(Cells(x), Grid!All(Cells(x)) \ Grid!View(Cells(x)))
<1>1. Formed(x) /\ Grid!All(Cells(x)) = Places(x) /\ Grid!View(Cells(x)) = Ones(x)
  BY ViewIs DEF Region
<1> QED BY <1>1, NegateWrites, PaintIs

(* Assignment takes over the other's window.                               *)
LEMMA AssignIs ==
  ASSUME LongBits = WordBits, NEW x, NEW y, Formed(x), Formed(y)
  PROVE  /\ Formed(Assign(x, y))
         /\ Cells(Assign(x, y)) = Grid!Place(Cells(x), y.rows, y.cols, Grid!View(Cells(y)))
<1>1. Grid!View(Cells(y)) = Ones(y) /\ Fits(Ones(y), y.rows, y.cols)
  BY ViewIs DEF Ones, Places, Fits
<1>2. y.rows \in Nat /\ y.cols \in Nat
  BY DEF Formed
<1>3. /\ Formed(Assign(x, y))
      /\ Cells(Assign(x, y)) = Grid!Place(Cells(x), y.rows, y.cols, Ones(y))
  <2> DEFINE t == Reallocate(x, y.rows, y.cols, FALSE)
  <2>1. Written(Assign(x, y), t, Ones(y)) /\ Sized(t, x, y.rows, y.cols)
    BY AssignWritten DEF Sized
  <2> HIDE DEF t
  <2> QED BY <1>1, <1>2, <2>1, PlaceIs
<1> QED BY <1>1, <1>3

(* equalsNot takes over what is not 1 there.                               *)
LEMMA EqualsNotIs ==
  ASSUME LongBits = WordBits, NEW x, NEW y, Formed(x), Formed(y)
  PROVE  /\ Formed(EqualsNot(x, y))
         /\ Cells(EqualsNot(x, y))
            = Grid!Place(Cells(x), y.rows, y.cols, Grid!All(Cells(y)) \ Grid!View(Cells(y)))
<1> DEFINE N == Places(y) \ Ones(y)
<1>1. /\ Grid!All(Cells(y)) \ Grid!View(Cells(y)) = N
      /\ Fits(N, y.rows, y.cols)
  BY ViewIs DEF Ones, Places, Fits
<1>2. y.rows \in Nat /\ y.cols \in Nat
  BY DEF Formed
<1>3. Written(EqualsNot(x, y), Reallocate(x, y.rows, y.cols, FALSE), N)
  BY EqualsNotWritten
<1> HIDE DEF N
<1>4. /\ Formed(EqualsNot(x, y))
      /\ Cells(EqualsNot(x, y)) = Grid!Place(Cells(x), y.rows, y.cols, N)
  <2> DEFINE t == Reallocate(x, y.rows, y.cols, FALSE)
  <2>1. Written(EqualsNot(x, y), t, N) /\ Sized(t, x, y.rows, y.cols)
    BY <1>3 DEF Sized
  <2> HIDE DEF t
  <2> QED BY <1>1, <1>2, <2>1, PlaceIs
<1> QED BY <1>1, <1>4

(* transpose_ takes it over with rows and columns exchanged.               *)
LEMMA TransposedIs ==
  ASSUME LongBits = WordBits, NEW x, NEW y, Formed(x), Formed(y)
  PROVE  /\ Formed(Transposed(x, y))
         /\ Cells(Transposed(x, y))
            = Grid!Place(Cells(x), y.cols, y.rows, {<<p[2], p[1]>> : p \in Grid!View(Cells(y))})
<1> DEFINE t == Reallocate(x, y.cols, y.rows, FALSE)
           N == {q \in Places(t) : Bit(y, q[2], q[1])}
<1>1. Formed(t) /\ t.rows = y.cols /\ t.cols = y.rows /\ y.rows \in Nat /\ y.cols \in Nat
  <2>1. y.rows \in Nat /\ y.cols \in Nat
    BY DEF Formed
  <2>2. Sized(t, x, y.cols, y.rows)
    BY DEF Sized
  <2> HIDE DEF t
  <2> QED BY <2>1, <2>2, ReallocateIs
<1>2. Transposed(x, y) = Each(t, N)
  BY DEF Transposed
<1>3. Places(t) = (0 .. y.cols - 1) \X (0 .. y.rows - 1)
  BY <1>1 DEF Places
<1> HIDE DEF t
<1>4. N = {<<p[2], p[1]>> : p \in Ones(y)}
  <2>1. ASSUME NEW q \in N PROVE \E p \in Ones(y) : q = <<p[2], p[1]>>
    <3>1. /\ q = <<q[1], q[2]>> /\ q[1] \in 0 .. y.cols - 1 /\ q[2] \in 0 .. y.rows - 1
          /\ Bit(y, q[2], q[1])
      BY <1>3
    <3>2. <<q[2], q[1]>> \in Ones(y)
      BY <3>1, OnesAre
    <3> QED BY <3>1, <3>2
  <2>2. ASSUME NEW p \in Ones(y) PROVE <<p[2], p[1]>> \in N
    <3>1. p[1] \in 0 .. y.rows - 1 /\ p[2] \in 0 .. y.cols - 1 /\ Bit(y, p[1], p[2])
      BY DEF Ones, Places
    <3> QED BY <1>3, <3>1
  <2> QED BY <2>1, <2>2
<1>5. Written(Transposed(x, y), t, N) /\ Fits(N, y.cols, y.rows)
  BY <1>1, <1>2, <1>3, EachWritten DEF Fits
<1> HIDE DEF N
<1>6. Grid!View(Cells(y)) = Ones(y)
  BY ViewIs
<1>7. /\ Formed(Transposed(x, y))
      /\ Cells(Transposed(x, y)) = Grid!Place(Cells(x), y.cols, y.rows, N)
  <2>1. Sized(t, x, y.cols, y.rows)
    BY DEF t, Sized
  <2> QED BY <1>1, <1>5, <2>1, PlaceIs
<1> QED BY <1>4, <1>6, <1>7

(* &=, |= and ^= paint what they combine.                                  *)
LEMMA CombineIs ==
  ASSUME LongBits = WordBits, NEW x, NEW y, Region(x), Formed(y), NEW op \in {"&=", "|=", "^="}
  PROVE  /\ Formed(Combine(x, y, op))
         /\ Cells(Combine(x, y, op))
            = IF SameSize(x, y)
              THEN Grid!Paint(Cells(x), Combined(op, Grid!View(Cells(x)), Grid!View(Cells(y))))
              ELSE Cells(x)
<1>1. CASE ~SameSize(x, y)
  BY <1>1 DEF Combine, Region
<1>2. CASE SameSize(x, y)
  <2> DEFINE N == Combined(op, Ones(x), Ones(y))
  <2>1. Formed(x) /\ Grid!View(Cells(x)) = Ones(x) /\ Grid!View(Cells(y)) = Ones(y)
    BY ViewIs DEF Region
  <2>2. N \subseteq Places(x)
    <3>1. Ones(x) \subseteq Places(x) /\ Ones(y) \subseteq Places(x)
      BY <1>2 DEF Ones, Places, SameSize
    <3> QED BY <3>1 DEF Combined, Differ
  <2>3. Written(Combine(x, y, op), x, N)
    <3>1. CASE x.rows > 0 /\ x.cols > 0
      BY <1>2, <3>1, CombineWrites, RegionIs DEF SameSize
    <3>2. CASE ~(x.rows > 0 /\ x.cols > 0)
      <4>1. x.rows \in Nat /\ x.cols \in Nat /\ x.cols = y.cols
        BY <1>2 DEF Region, Formed, SameSize
      <4>2. x.rows > 0 => CommonParts(x, y) = <<>>
        <5>1. ASSUME x.rows > 0 PROVE x.cols = 0 /\ y.cols = 0
          BY <3>2, <4>1, <5>1
        <5> QED BY <5>1, NoParts
      <4>3. Combine(x, y, op) = x
        BY <1>2, <4>1, <4>2, NothingWritten DEF Combine
      <4> QED BY <2>1, <3>2, <4>3, EmptyWritten
    <3> QED BY <3>1, <3>2
  <2> HIDE DEF N
  <2>4. Formed(Combine(x, y, op)) /\ Cells(Combine(x, y, op)) = Grid!Paint(Cells(x), N)
    BY <2>1, <2>2, <2>3, PaintIs
  <2> QED BY <1>2, <2>1, <2>4 DEF N
<1> QED BY <1>1, <1>2

(* Where the cells of a matrix go when it is turned. *)

(* By 180 degrees.                                                         *)
LEMMA HalfTurn ==
  ASSUME NEW x, Formed(x), NEW t, t.rows = x.rows, t.cols = x.cols
  PROVE  /\ {q \in Places(t) : Bit(x, x.rows - q[1] - 1, x.cols - q[2] - 1)}
              = {<<x.rows - 1 - p[1], x.cols - 1 - p[2]>> : p \in Ones(x)}
         /\ Fits({q \in Places(t) : Bit(x, x.rows - q[1] - 1, x.cols - q[2] - 1)}, x.rows, x.cols)
<1> DEFINE N == {q \in Places(t) : Bit(x, x.rows - q[1] - 1, x.cols - q[2] - 1)}
<1>1. x.rows \in Nat /\ x.cols \in Nat
  BY DEF Formed
<1>2. Places(t) = (0 .. x.rows - 1) \X (0 .. x.cols - 1)
  BY DEF Places
<1>3. ASSUME NEW q \in N PROVE \E p \in Ones(x) : q = <<x.rows - 1 - p[1], x.cols - 1 - p[2]>>
  <2> DEFINE i == x.rows - q[1] - 1 j == x.cols - q[2] - 1
  <2>1. /\ q = <<q[1], q[2]>> /\ q[1] \in 0 .. x.rows - 1 /\ q[2] \in 0 .. x.cols - 1
        /\ Bit(x, i, j)
    BY <1>2
  <2>2. i \in 0 .. x.rows - 1 /\ j \in 0 .. x.cols - 1
    BY <1>1, <2>1
  <2>3. q[1] = x.rows - 1 - i /\ q[2] = x.cols - 1 - j
    BY <1>1, <2>1
  <2> HIDE DEF i, j
  <2>4. <<i, j>> \in Ones(x)
    BY <2>1, <2>2, OnesAre
  <2> QED BY <2>1, <2>3, <2>4
<1>4. ASSUME NEW p \in Ones(x) PROVE <<x.rows - 1 - p[1], x.cols - 1 - p[2]>> \in N
  <2> DEFINE i == x.rows - 1 - p[1] j == x.cols - 1 - p[2]
  <2>1. p[1] \in 0 .. x.rows - 1 /\ p[2] \in 0 .. x.cols - 1 /\ Bit(x, p[1], p[2])
    BY DEF Ones, Places
  <2>2. i \in 0 .. x.rows - 1 /\ j \in 0 .. x.cols - 1
    BY <1>1, <2>1
  <2>3. p[1] = x.rows - i - 1 /\ p[2] = x.cols - j - 1
    BY <1>1, <2>1
  <2> HIDE DEF i, j
  <2> QED BY <1>2, <2>1, <2>2, <2>3 DEF i, j
<1>5. Fits(N, x.rows, x.cols)
  BY <1>2 DEF Fits
<1> QED BY <1>3, <1>4, <1>5

(* By 90 degrees.                                                          *)
LEMMA LeftTurn ==
  ASSUME NEW x, Formed(x), NEW t, t.rows = x.cols, t.cols = x.rows
  PROVE  /\ {q \in Places(t) : Bit(x, q[2], x.cols - q[1] - 1)}
              = {<<x.cols - 1 - p[2], p[1]>> : p \in Ones(x)}
         /\ Fits({q \in Places(t) : Bit(x, q[2], x.cols - q[1] - 1)}, x.cols, x.rows)
<1> DEFINE N == {q \in Places(t) : Bit(x, q[2], x.cols - q[1] - 1)}
<1>1. x.rows \in Nat /\ x.cols \in Nat
  BY DEF Formed
<1>2. Places(t) = (0 .. x.cols - 1) \X (0 .. x.rows - 1)
  BY DEF Places
<1>3. ASSUME NEW q \in N PROVE \E p \in Ones(x) : q = <<x.cols - 1 - p[2], p[1]>>
  <2> DEFINE i == q[2] j == x.cols - q[1] - 1
  <2>1. /\ q = <<q[1], q[2]>> /\ q[1] \in 0 .. x.cols - 1 /\ q[2] \in 0 .. x.rows - 1
        /\ Bit(x, i, j)
    BY <1>2
  <2>2. i \in 0 .. x.rows - 1 /\ j \in 0 .. x.cols - 1
    BY <1>1, <2>1
  <2>3. q[1] = x.cols - 1 - j /\ q[2] = i
    BY <1>1, <2>1
  <2> HIDE DEF i, j
  <2>4. <<i, j>> \in Ones(x)
    BY <2>1, <2>2, OnesAre
  <2> QED BY <2>1, <2>3, <2>4
<1>4. ASSUME NEW p \in Ones(x) PROVE <<x.cols - 1 - p[2], p[1]>> \in N
  <2> DEFINE i == x.cols - 1 - p[2] j == p[1]
  <2>1. p[1] \in 0 .. x.rows - 1 /\ p[2] \in 0 .. x.cols - 1 /\ Bit(x, p[1], p[2])
    BY DEF Ones, Places
  <2>2. i \in 0 .. x.cols - 1 /\ j \in 0 .. x.rows - 1
    BY <1>1, <2>1
  <2>3. p[1] = j /\ p[2] = x.cols - i - 1
    BY <1>1, <2>1
  <2> HIDE DEF i, j
  <2> QED BY <1>2, <2>1, <2>2, <2>3 DEF i, j
<1>5. Fits(N, x.cols, x.rows)
  BY <1>2 DEF Fits
<1> QED BY <1>3, <1>4, <1>5

(* By -90 degrees.                                                         *)
LEMMA RightTurn ==
  ASSUME NEW x, Formed(x), NEW t, t.rows = x.cols, t.cols = x.rows
  PROVE  /\ {q \in Places(t) : Bit(x, x.rows - q[2] - 1, q[1])}
              = {<<p[2], x.rows - 1 - p[1]>> : p \in Ones(x)}
         /\ Fits({q \in Places(t) : Bit(x, x.rows - q[2] - 1, q[1])}, x.cols, x.rows)
<1> DEFINE N == {q \in Places(t) : Bit(x, x.rows - q[2] - 1, q[1])}
<1>1. x.rows \in Nat /\ x.cols \in Nat
  BY DEF Formed
<1>2. Places(t) = (0 .. x.cols - 1) \X (0 .. x.rows - 1)
  BY DEF Places
<1>3. ASSUME NEW q \in N PROVE \E p \in Ones(x) : q = <<p[2], x.rows - 1 - p[1]>>
  <2> DEFINE i == x.rows - q[2] - 1 j == q[1]
  <2>1. /\ q = <<q[1], q[2]>> /\ q[1] \in 0 .. x.cols - 1 /\ q[2] \in 0 .. x.rows - 1
        /\ Bit(x, i, j)
    BY <1>2
  <2>2. i \in 0 .. x.rows - 1 /\ j \in 0 .. x.cols - 1
    BY <1>1, <2>1
  <2>3. q[1] = j /\ q[2] = x.rows - 1 - i
    BY <1>1, <2>1
  <2> HIDE DEF i, j
  <2>4. <<i, j>> \in Ones(x)
    BY <2>1, <2>2, OnesAre
  <2> QED BY <2>1, <2>3, <2>4
<1>4. ASSUME NEW p \in Ones(x) PROVE <<p[2], x.rows - 1 - p[1]>> \in N
  <2> DEFINE i == p[2] j == x.rows - 1 - p[1]
  <2>1. p[1] \in 0 .. x.rows - 1 /\ p[2] \in 0 .. x.cols - 1 /\ Bit(x, p[1], p[2])
    BY DEF Ones, Places
  <2>2. i \in 0 .. x.cols - 1 /\ j \in 0 .. x.rows - 1
    BY <1>1, <2>1
  <2>3. p[1] = x.rows - j - 1 /\ p[2] = i
    BY <1>1, <2>1
  <2> HIDE DEF i, j
  <2> QED BY <1>2, <2>1, <2>2, <2>3 DEF i, j
<1>5. Fits(N, x.cols, x.rows)
  BY <1>2 DEF Fits
<1> QED BY <1>3, <1>4, <1>5

(* z is x turned by the angle.                                             *)
TurnGives(z, x, angle) ==
  /\ Formed(z)
  /\ angle = 0 => Cells(z) = Grid!Fresh(x.rows, x.cols, Ones(x))
  /\ angle = 90 => Cells(z)
       = Grid!Fresh(x.cols, x.rows, {<<x.cols - 1 - p[2], p[1]>> : p \in Ones(x)})
  /\ angle = 180 => Cells(z)
       = Grid!Fresh(x.rows, x.cols, {<<x.rows - 1 - p[1], x.cols - 1 - p[2]>> : p \in Ones(x)})
  /\ angle = -90 => Cells(z)
       = Grid!Fresh(x.cols, x.rows, {<<p[2], x.rows - 1 - p[1]>> : p \in Ones(x)})

(* Turning gives a new matrix.                                             *)
LEMMA TurnIs ==
  ASSUME LongBits = WordBits, NEW x, Formed(x), x.rows > 0, NEW angle \in {-90, 0, 90, 180}
  PROVE  TurnGives(Rotate(x, angle), x, angle)
<1>1. x.rows \in Nat /\ x.cols \in Nat
  BY DEF Formed
<1> DEFINE s == Setup(x.rows, x.cols, FALSE) t == Setup(x.cols, x.rows, FALSE)
<1>2. /\ Formed(s) /\ s.rows = x.rows /\ s.cols = x.cols
      /\ Formed(t) /\ t.rows = x.cols /\ t.cols = x.rows
      /\ Allocated(s, x.rows, x.cols) /\ Allocated(t, x.cols, x.rows)
  <2>1. Allocated(s, x.rows, x.cols) /\ Allocated(t, x.cols, x.rows)
    BY DEF Allocated
  <2> HIDE DEF s, t
  <2> QED BY <1>1, <2>1, AllocatedIs
<1>3. CASE angle = 0
  <2>1. Rotate(x, angle) = Assign(NoMatrix, x)
    BY <1>3 DEF Rotate
  <2>2. Formed(NoMatrix) /\ NoMatrix.rows = 0
    <3>1. Allocated(NoMatrix, 0, 0)
      BY DEF Allocated, NoMatrix
    <3> QED BY <3>1, AllocatedIs
  <2>3. /\ Formed(Assign(NoMatrix, x))
        /\ Cells(Assign(NoMatrix, x))
           = Grid!Place(Cells(NoMatrix), x.rows, x.cols, Grid!View(Cells(x)))
    BY <2>2, AssignIs
  <2>4. Cells(NoMatrix).rows # x.rows /\ Grid!View(Cells(x)) = Ones(x)
    BY <2>2, CellsAre, ViewIs
  <2>5. Cells(Assign(NoMatrix, x)) = Grid!Fresh(x.rows, x.cols, Ones(x))
    BY <2>3, <2>4 DEF Grid!Place
  <2>6. angle # 90 /\ angle # 180 /\ angle # -90
    BY <1>3
  <2> QED BY <2>6, <1>3, <2>1, <2>3, <2>5 DEF TurnGives
<1>4. CASE angle = 90
  <2> DEFINE N == {q \in Places(t) : Bit(x, q[2], x.cols - q[1] - 1)}
  <2>1. Rotate(x, angle) = Each(t, N)
    BY <1>4 DEF Rotate
  <2>2. N = {<<x.cols - 1 - p[2], p[1]>> : p \in Ones(x)} /\ Fits(N, x.cols, x.rows)
    BY <1>2, LeftTurn
  <2> HIDE DEF N, s, t
  <2>3. Written(Each(t, N), t, N)
    BY <1>2, EachWritten
  <2>4. Formed(Each(t, N)) /\ Cells(Each(t, N)) = Grid!Fresh(x.cols, x.rows, N)
    BY <1>1, <1>2, <2>2, <2>3, FreshIs
  <2>6. angle # 0 /\ angle # 180 /\ angle # -90
    BY <1>4
  <2> QED BY <2>6, <1>4, <2>1, <2>2, <2>4 DEF TurnGives
<1>5. CASE angle = 180
  <2> DEFINE N == {q \in Places(s) : Bit(x, x.rows - q[1] - 1, x.cols - q[2] - 1)}
  <2>1. Rotate(x, angle) = Each(s, N)
    BY <1>5 DEF Rotate
  <2>2. N = {<<x.rows - 1 - p[1], x.cols - 1 - p[2]>> : p \in Ones(x)} /\ Fits(N, x.rows, x.cols)
    BY <1>2, HalfTurn
  <2> HIDE DEF N, s, t
  <2>3. Written(Each(s, N), s, N)
    BY <1>2, EachWritten
  <2>4. Formed(Each(s, N)) /\ Cells(Each(s, N)) = Grid!Fresh(x.rows, x.cols, N)
    BY <1>1, <1>2, <2>2, <2>3, FreshIs
  <2>6. angle # 0 /\ angle # 90 /\ angle # -90
    BY <1>5
  <2> QED BY <2>6, <1>5, <2>1, <2>2, <2>4 DEF TurnGives
<1>6. CASE angle = -90
  <2> DEFINE N == {q \in Places(t) : Bit(x, x.rows - q[2] - 1, q[1])}
  <2>1. Rotate(x, angle) = Each(t, N)
    BY <1>6 DEF Rotate
  <2>2. N = {<<p[2], x.rows - 1 - p[1]>> : p \in Ones(x)} /\ Fits(N, x.cols, x.rows)
    BY <1>2, RightTurn
  <2> HIDE DEF N, s, t
  <2>3. Written(Each(t, N), t, N)
    BY <1>2, EachWritten
  <2>4. Formed(Each(t, N)) /\ Cells(Each(t, N)) = Grid!Fresh(x.cols, x.rows, N)
    BY <1>1, <1>2, <2>2, <2>3, FreshIs
  <2>6. angle # 0 /\ angle # 90 /\ angle # 180
    BY <1>6
  <2> QED BY <2>6, <1>6, <2>1, <2>2, <2>4 DEF TurnGives
<1> QED BY <1>3, <1>4, <1>5, <1>6

(* A cell that is 1.                                                       *)
LEMMA OnesAt ==
  ASSUME NEW x, Formed(x), NEW i \in Int, NEW j \in Int
  PROVE  <<i, j>> \in Ones(x)
           <=> (i \in 0 .. x.rows - 1 /\ j \in 0 .. x.cols - 1 /\ Has(x, i + x.ro, j + x.co))
<1>1. <<i, j>> \in Ones(x) => i \in 0 .. x.rows - 1 /\ j \in 0 .. x.cols - 1
  BY DEF Ones, Places
<1>2. ASSUME i \in 0 .. x.rows - 1, j \in 0 .. x.cols - 1
      PROVE  <<i, j>> \in Ones(x) <=> Has(x, i + x.ro, j + x.co)
  <2>1. <<i, j>> \in Places(x)
    BY <1>2 DEF Places
  <2>2. Region(x)
    BY <2>1, PlacesRegion
  <2>3. Bit(x, i, j) <=> Has(x, i + x.ro, j + x.co)
    BY <1>2, <2>2, BitHas
  <2>4. <<i, j>> \in Ones(x) <=> Bit(x, i, j)
    BY <1>2, OnesAre
  <2> QED BY <2>3, <2>4
<1> QED BY <1>1, <1>2

(* The window of what was written. *)
LEMMA WrittenOnes ==
  ASSUME NEW x, Formed(x), NEW N, NEW z, Written(z, x, N)
  PROVE  /\ Formed(z) /\ z.rows = x.rows /\ z.cols = x.cols
         /\ \A i \in 0 .. x.rows - 1, j \in 0 .. x.cols - 1 : <<i, j>> \in Ones(z) <=> <<i, j>> \in N
<1>1. /\ Formed(z) /\ z.rows = x.rows /\ z.cols = x.cols /\ z.ro = x.ro /\ z.co = x.co
      /\ z.arows = x.arows /\ z.acols = x.acols
  BY DEF Written, Framed
<1>2. ASSUME NEW i \in 0 .. x.rows - 1, NEW j \in 0 .. x.cols - 1
      PROVE  <<i, j>> \in Ones(z) <=> <<i, j>> \in N
  <2> DEFINE r == i + x.ro c == j + x.co
  <2>1. i \in Int /\ j \in Int /\ x.ro \in Int /\ x.co \in Int
    BY DEF Formed
  <2>2. <<i, j>> \in Ones(z) <=> Has(z, r, c)
    BY <1>1, <2>1, OnesAt
  <2>3. r - x.ro = i /\ c - x.co = j
    BY <2>1
  <2>4. <<i, j>> \in Places(x)
    BY DEF Places
  <2>5. r \in 0 .. x.arows - 1 /\ c \in 0 .. x.acols - 1
    BY <2>4, PlacesRegion, BitHas
  <2>6. Within(x, r, c)
    <3>1. r \in Int /\ c \in Int
      BY <2>5
    <3> HIDE DEF r, c
    <3> QED BY <2>3, <2>4, <3>1, WithinPlaces
  <2>7. Has(z, r, c) <=> <<r - x.ro, c - x.co>> \in N
    BY <2>5, <2>6 DEF Written
  <2> QED BY <2>2, <2>3, <2>7
<1> QED BY <1>1, <1>2

(* A copy in an allocation of its own. *)
LEMMA CopyIs ==
  ASSUME LongBits = WordBits, NEW x, Formed(x)
  PROVE  /\ Formed(Assign(NoMatrix, x))
         /\ Assign(NoMatrix, x).rows = x.rows /\ Assign(NoMatrix, x).cols = x.cols
         /\ Ones(Assign(NoMatrix, x)) = Ones(x)
<1> DEFINE z == Assign(NoMatrix, x) t == Reallocate(NoMatrix, x.rows, x.cols, FALSE)
<1>1. x.rows \in Nat /\ x.cols \in Nat /\ Formed(NoMatrix)
  <2>1. Allocated(NoMatrix, 0, 0)
    BY DEF Allocated, NoMatrix
  <2>2. Formed(NoMatrix)
    BY <2>1, AllocatedIs
  <2> QED BY <2>2 DEF Formed
<1>2. Formed(t) /\ t.rows = x.rows /\ t.cols = x.cols
  <2>1. Sized(t, NoMatrix, x.rows, x.cols)
    BY DEF Sized
  <2> HIDE DEF t
  <2> QED BY <1>1, <2>1, ReallocateIs
<1>3. Written(z, t, Ones(x))
  BY <1>1, AssignWritten
<1> HIDE DEF z, t
<1>4. /\ Formed(z) /\ z.rows = x.rows /\ z.cols = x.cols
      /\ \A i \in 0 .. x.rows - 1, j \in 0 .. x.cols - 1 : <<i, j>> \in Ones(z) <=> <<i, j>> \in Ones(x)
  BY <1>2, <1>3, WrittenOnes
<1>5. Ones(z) = Ones(x)
  <2>1. Places(z) = Places(x)
    BY <1>4 DEF Places
  <2>2. Ones(z) \subseteq Places(x) /\ Ones(x) \subseteq Places(x)
    BY <2>1 DEF Ones
  <2>3. ASSUME NEW q \in Places(x) PROVE q \in Ones(z) <=> q \in Ones(x)
    BY <1>4, PlacesRegion
  <2> QED BY <2>2, <2>3
<1> QED BY <1>4, <1>5 DEF z

(* A matrix is transposed by way of a copy.                                *)
LEMMA TransposeIs ==
  ASSUME LongBits = WordBits, NEW x, Formed(x)
  PROVE  /\ Formed(Transpose(x))
         /\ Cells(Transpose(x))
            = Grid!Place(Cells(x), x.cols, x.rows, {<<p[2], p[1]>> : p \in Grid!View(Cells(x))})
<1> DEFINE y == Assign(NoMatrix, x)
<1>1. Formed(y) /\ y.rows = x.rows /\ y.cols = x.cols /\ Ones(y) = Ones(x)
  BY CopyIs
<1>2. Transpose(x) = Transposed(x, y)
  BY DEF Transpose
<1> HIDE DEF y
<1>3. Grid!View(Cells(x)) = Ones(x) /\ Grid!View(Cells(y)) = Ones(y)
  BY <1>1, ViewIs
<1>4. /\ Formed(Transposed(x, y))
      /\ Cells(Transposed(x, y))
         = Grid!Place(Cells(x), y.cols, y.rows, {<<p[2], p[1]>> : p \in Grid!View(Cells(y))})
  BY <1>1, TransposedIs
<1> QED BY <1>1, <1>2, <1>3, <1>4

(* z is x with what it has in common with y, turned round, or'ed in.       *)
OrInGives(z, x, y, op) ==
  /\ Formed(z)
  /\ Cells(z) = IF SameSize(x, y)
                THEN Grid!Paint(Cells(x), Grid!View(Cells(x))
                       \cup Mixed(op, Grid!Turned(Cells(x)), Grid!View(Cells(y))))
                ELSE Cells(x)

(* orAnd and orExor or in what they read bit by bit.                       *)
LEMMA OrInIs ==
  ASSUME LongBits = WordBits, NEW x, NEW y, Region(x), x.rows > 0, Formed(y),
         NEW op \in {"orAnd", "orExor"}
  PROVE  OrInGives(OrIn(x, Rotate(x, 180), y, op), x, y, op)
<1> DEFINE t == Rotate(x, 180) T == {<<x.rows - 1 - p[1], x.cols - 1 - p[2]>> : p \in Ones(x)}
<1>1. Formed(x) /\ Grid!View(Cells(x)) = Ones(x) /\ Grid!View(Cells(y)) = Ones(y)
  BY ViewIs DEF Region
<1>2. Formed(t) /\ Cells(t) = Grid!Fresh(x.rows, x.cols, T)
  <2>1. 180 \in {-90, 0, 90, 180}
    OBVIOUS
  <2>2. TurnGives(t, x, 180)
    BY <1>1, <2>1, TurnIs
  <2> HIDE DEF t
  <2> QED BY <2>2 DEF TurnGives
<1>3. Grid!Turned(Cells(x)) = T
  BY <1>1, CellsAre DEF Grid!Turned
<1> HIDE DEF t
<1>4. SameSize(x, t) /\ Ones(t) = T
  <2>1. Cells(t).rows = x.rows /\ Cells(t).cols = x.cols
        /\ Cells(t).ro = 0 /\ Cells(t).co = 0 /\ Cells(t).on = T
    BY <1>2 DEF Grid!Fresh
  <2>2. t.rows = x.rows /\ t.cols = x.cols /\ Ones(t) = Grid!View(Cells(t))
    BY <1>2, <2>1, CellsAre, ViewIs
  <2>3. T \subseteq Places(x)
    <3>1. ASSUME NEW p \in Ones(x)
          PROVE  x.rows - 1 - p[1] \in 0 .. x.rows - 1 /\ x.cols - 1 - p[2] \in 0 .. x.cols - 1
      <4>1. p[1] \in 0 .. x.rows - 1 /\ p[2] \in 0 .. x.cols - 1 /\ x.rows \in Nat /\ x.cols \in Nat
        BY <1>1 DEF Ones, Places, Formed
      <4> QED BY <4>1
    <3> QED BY <3>1 DEF Places
  <2>4. Grid!View(Cells(t)) = {p \in Places(x) : <<p[1] + 0, p[2] + 0>> \in T}
    BY <2>1 DEF Grid!View, Grid!All, Places
  <2>5. \A p \in Places(x) : <<p[1] + 0, p[2] + 0>> = p
    BY DEF Places
  <2> HIDE DEF T
  <2>6. {p \in Places(x) : <<p[1] + 0, p[2] + 0>> \in T} = T
    BY <2>3, <2>5
  <2> QED BY <2>2, <2>4, <2>6 DEF SameSize
<1> HIDE DEF T
<1>5. CASE SameSize(x, y)
  <2> DEFINE N == Ones(x) \cup Mixed(op, Ones(t), Ones(y))
  <2>1. N \subseteq Places(x)
    <3>1. Ones(x) \subseteq Places(x) /\ Ones(y) \subseteq Places(x) /\ Ones(t) \subseteq Places(x)
      BY <1>4, <1>5 DEF Ones, Places, SameSize
    <3> QED BY <3>1 DEF Mixed, Differ
  <2>2. Written(OrIn(x, t, y, op), x, N)
    BY <1>4, <1>5, OrInWrites
  <2> HIDE DEF N
  <2>3. Formed(OrIn(x, t, y, op)) /\ Cells(OrIn(x, t, y, op)) = Grid!Paint(Cells(x), N)
    BY <1>1, <2>1, <2>2, PaintIs
  <2> QED BY <1>1, <1>3, <1>4, <1>5, <2>3 DEF N, t, OrInGives
<1>6. CASE ~SameSize(x, y)
  BY <1>1, <1>6 DEF OrIn, OrInGives
<1> QED BY <1>5, <1>6
-----------------------------------------------------------------------------
(* Rows and columns                                                        *)

(* Fewer rows. *)
LEMMA FewerRows ==
  ASSUME NEW x, Region(x), NEW k \in 0 .. x.rows
  PROVE  /\ Region([x EXCEPT !.rows = k])
         /\ [x EXCEPT !.rows = k].rows = k /\ [x EXCEPT !.rows = k].cols = x.cols
         /\ [x EXCEPT !.rows = k].ro = x.ro /\ [x EXCEPT !.rows = k].co = x.co
         /\ [x EXCEPT !.rows = k].arows = x.arows /\ [x EXCEPT !.rows = k].acols = x.acols
         /\ [x EXCEPT !.rows = k].mem = x.mem
         /\ Cells([x EXCEPT !.rows = k]) = [Cells(x) EXCEPT !.rows = k]
<1> DEFINE u == [x EXCEPT !.rows = k]
<1>1. /\ k \in Nat /\ k <= x.rows /\ x.rows \in Nat /\ x.cols \in Nat /\ x.ro \in Nat /\ x.co \in Nat
      /\ x.arows \in Nat /\ x.acols \in Nat
      /\ x.ro + x.rows <= x.arows /\ x.co + x.cols <= x.acols
      /\ x.mem \in [0 .. x.arows - 1 -> [0 .. RowInc(x.acols) - 1 -> SUBSET Long]]
  BY DEF Region, Formed
<1>2. u = [rows |-> k, cols |-> x.cols, ro |-> x.ro, co |-> x.co,
           arows |-> x.arows, acols |-> x.acols, mem |-> x.mem]
  <2>1. x = [rows |-> x.rows, cols |-> x.cols, ro |-> x.ro, co |-> x.co,
             arows |-> x.arows, acols |-> x.acols, mem |-> x.mem]
    BY DEF Region, Formed
  <2>2. u = [x EXCEPT !.rows = k]
    OBVIOUS
  <2> HIDE DEF u
  <2> QED BY ONLY <2>1, <2>2
<1> HIDE DEF u
<1>3. /\ u.rows = k /\ u.cols = x.cols /\ u.ro = x.ro /\ u.co = x.co
      /\ u.arows = x.arows /\ u.acols = x.acols /\ u.mem = x.mem
  BY <1>2
<1>4. Region(u)
  <2>1. x.ro + k <= x.arows
    BY <1>1
  <2> QED BY <1>1, <1>2, <1>3, <2>1 DEF Region, Formed
<1> DEFINE C == Cells(x) T == C.on E == [C EXCEPT !.rows = k]
<1>5. C = [rows |-> x.rows, cols |-> x.cols, ro |-> x.ro, co |-> x.co,
           arows |-> x.arows, acols |-> x.acols, on |-> T]
  BY CellsAs
<1>6. Cells(u) = [rows |-> k, cols |-> x.cols, ro |-> x.ro, co |-> x.co,
                  arows |-> x.arows, acols |-> x.acols, on |-> T]
  BY <1>3, CellsOffset DEF Region
<1>7. E = [rows |-> k, cols |-> x.cols, ro |-> x.ro, co |-> x.co,
           arows |-> x.arows, acols |-> x.acols, on |-> T]
  <2>1. E = [C EXCEPT !.rows = k]
    OBVIOUS
  <2> HIDE DEF C, T, E
  <2> QED BY ONLY <1>5, <2>1
<1>8. Cells(u) = E
  BY <1>6, <1>7
<1> HIDE DEF T
<1> QED BY <1>3, <1>4, <1>8 DEF u, E, C

(* A window of the same allocation, elsewhere. *)
CanMove(x, dr, dc, r, c) ==
  /\ dr \in Int /\ dc \in Int /\ r \in Nat /\ c \in Nat
  /\ x.ro + dr >= 0 /\ x.ro + dr + r <= x.arows /\ x.co + dc >= 0 /\ x.co + dc + c <= x.acols

Moved(z, x, dr, dc, r, c) ==
  /\ Region(z) /\ Formed(z) /\ z.rows = r /\ z.cols = c /\ z.ro = x.ro + dr /\ z.co = x.co + dc
  /\ z.arows = x.arows /\ z.acols = x.acols /\ z.mem = x.mem
  /\ \A i, j : Has(z, i, j) <=> Has(x, i, j)

(* Moving a window where there is room.                                    *)
LEMMA MovedIs ==
  ASSUME NEW x, Formed(x), NEW dr, NEW dc, NEW r, NEW c, CanMove(x, dr, dc, r, c)
  PROVE  Moved(Offset(x, dr, dc, r, c), x, dr, dc, r, c)
<1>1. /\ dr \in Int /\ dc \in Int /\ r \in Nat /\ c \in Nat
      /\ x.ro + dr >= 0 /\ x.ro + dr + r <= x.arows /\ x.co + dc >= 0 /\ x.co + dc + c <= x.acols
  BY DEF CanMove
<1> DEFINE z == Offset(x, dr, dc, r, c)
<1>2. z = [rows |-> r, cols |-> c, ro |-> x.ro + dr, co |-> x.co + dc,
           arows |-> x.arows, acols |-> x.acols, mem |-> x.mem]
  <2>1. x = [rows |-> x.rows, cols |-> x.cols, ro |-> x.ro, co |-> x.co,
             arows |-> x.arows, acols |-> x.acols, mem |-> x.mem]
    BY DEF Formed
  <2>2. z = [x EXCEPT !.ro = x.ro + dr, !.co = x.co + dc, !.rows = r, !.cols = c]
    BY DEF Offset
  <2> HIDE DEF z
  <2> QED BY ONLY <2>1, <2>2
<1> HIDE DEF z
<1>3. /\ z.rows = r /\ z.cols = c /\ z.ro = x.ro + dr /\ z.co = x.co + dc
      /\ z.arows = x.arows /\ z.acols = x.acols /\ z.mem = x.mem
  BY <1>2
<1>4. x.ro + dr \in Nat /\ x.co + dc \in Nat
  <2>1. x.ro \in Int /\ x.co \in Int
    BY DEF Formed
  <2> QED BY <1>1, <2>1
<1>5. Region(z)
  <2>1. /\ x.arows \in Nat /\ x.acols \in Nat
        /\ x.mem \in [0 .. x.arows - 1 -> [0 .. RowInc(x.acols) - 1 -> SUBSET Long]]
    BY DEF Formed
  <2>2. Formed(z)
    BY <1>1, <1>2, <1>3, <1>4, <2>1 DEF Formed
  <2> QED BY <1>1, <1>3, <1>4, <2>2 DEF Region
<1>6. \A i, j : Has(z, i, j) <=> Has(x, i, j)
  BY <1>3 DEF Has
<1> QED BY <1>3, <1>5, <1>6 DEF Moved, z, Region

(* z has the cells of x without n rows from s on. *)
RowsDeleted(z, x, s, n) ==
  /\ Formed(z)
  /\ Cells(z) = IF s < 0 \/ s + n > x.rows THEN Cells(x)
                ELSE Grid!Paint([Cells(x) EXCEPT !.rows = x.rows - n],
                       {p \in (0 .. x.rows - n - 1) \X (0 .. x.cols - 1) :
                          <<IF p[1] < s THEN p[1] ELSE p[1] + n, p[2]>> \in Ones(x)})

(* Deleting rows copies those behind them to the front, within the allocation. *)
LEMMA DeleteRowsIs ==
  ASSUME LongBits = WordBits, NEW x, Region(x), NEW s \in Int, NEW n \in Nat \ {0}
  PROVE  RowsDeleted(DeleteRows(x, s, n), x, s, n)
<1> DEFINE R == x.rows - n u == [x EXCEPT !.rows = R] z == DeleteRows(x, s, n)
           N == {p \in (0 .. R - 1) \X (0 .. x.cols - 1) :
                   <<IF p[1] < s THEN p[1] ELSE p[1] + n, p[2]>> \in Ones(x)}
<1>1. /\ x.rows \in Nat /\ x.cols \in Nat /\ x.ro \in Nat /\ x.co \in Nat
      /\ x.arows \in Nat /\ x.acols \in Nat /\ Formed(x)
      /\ x.ro + x.rows <= x.arows /\ x.co + x.cols <= x.acols
  BY DEF Region, Formed
<1>2. CASE s < 0 \/ s + n > x.rows
  BY <1>1, <1>2 DEF DeleteRows, RowsDeleted
<1>3. CASE ~(s < 0 \/ s + n > x.rows)
  <2>1. s \in Nat /\ s + n <= x.rows /\ R \in 0 .. x.rows /\ R \in Nat /\ s <= R /\ n \in Nat
    BY <1>1, <1>3
  <2> HIDE DEF R
  <2>2. /\ Region(u) /\ Formed(u) /\ u.rows = R /\ u.cols = x.cols /\ u.ro = x.ro /\ u.co = x.co
        /\ u.arows = x.arows /\ u.acols = x.acols /\ u.mem = x.mem
        /\ Cells(u) = [Cells(x) EXCEPT !.rows = R]
    BY <2>1, FewerRows DEF Region
  <2>3. Places(u) = (0 .. R - 1) \X (0 .. x.cols - 1)
    BY <2>2 DEF Places
  (* The cells that stay, in the allocation. *)
  <2>4. ASSUME NEW r \in 0 .. x.arows - 1, NEW c \in 0 .. x.acols - 1, Within(u, r, c)
        PROVE  <<r - u.ro, c - u.co>> \in N
                 <=> IF r < x.ro + s THEN Has(x, r, c) ELSE Has(x, r + n, c)
    <3> DEFINE i == r - x.ro j == c - x.co
    <3>1. i \in 0 .. R - 1 /\ j \in 0 .. x.cols - 1 /\ r \in Int /\ c \in Int
      BY <1>1, <2>1, <2>2, <2>4 DEF Within
    <3>2. CASE r < x.ro + s
      <4>1. i < s /\ i \in 0 .. x.rows - 1 /\ i + x.ro = r /\ j + x.co = c /\ i \in Int /\ j \in Int
        BY <1>1, <2>1, <3>1, <3>2
      <4> HIDE DEF i, j
      <4>2. <<i, j>> \in N <=> <<i, j>> \in Ones(x)
        BY <3>1, <4>1
      <4>3. <<i, j>> \in Ones(x) <=> Has(x, r, c)
        BY <1>1, <3>1, <4>1, OnesAt
      <4> QED BY <2>2, <3>2, <4>2, <4>3 DEF i, j
    <3>3. CASE ~(r < x.ro + s)
      <4> DEFINE h == i + n
      <4>1. ~(i < s) /\ h \in 0 .. x.rows - 1 /\ h + x.ro = r + n /\ j + x.co = c /\ h \in Int /\ j \in Int
        <5>1. i >= s /\ i + x.ro = r /\ j + x.co = c
          BY <1>1, <2>1, <3>1, <3>3
        <5>2. R = x.rows - n
          BY DEF R
        <5>3. i \in Int /\ 0 <= i /\ i <= R - 1 /\ j \in Int
          BY <2>1, <3>1
        <5> HIDE DEF i, j
        <5> QED BY <1>1, <2>1, <5>1, <5>2, <5>3
      <4>2. <<i, j>> \in N <=> <<h, j>> \in Ones(x)
        <5> HIDE DEF j
        <5>1. i + n = h
          OBVIOUS
        <5> HIDE DEF i, h
        <5> QED BY <3>1, <4>1, <5>1
      <4> HIDE DEF h, j
      <4>3. <<h, j>> \in Ones(x) <=> Has(x, r + n, c)
        BY <1>1, <3>1, <4>1, OnesAt
      <4> QED BY <2>2, <3>3, <4>2, <4>3 DEF j
    <3> QED BY <3>2, <3>3
  <2> HIDE DEF N, u
  <2>5. Written(z, u, N)
    <3>1. CASE s = R
      <4>1. z = u
        <5>1. x.rows - n - s = 0 /\ n # 0
          BY <1>1, <2>1, <3>1 DEF R
        <5>2. DeleteRows(x, s, n) = [x EXCEPT !.rows = x.rows - n]
          BY <1>3, <5>1 DEF DeleteRows
        <5> QED BY <5>2 DEF u, R
      <4>2. ASSUME NEW r \in 0 .. u.arows - 1, NEW c \in 0 .. u.acols - 1, Within(u, r, c)
            PROVE  Has(u, r, c) <=> <<r - u.ro, c - u.co>> \in N
        <5>1. r < x.ro + s
          BY <1>1, <2>1, <2>2, <3>1, <4>2 DEF Within
        <5>2. Has(u, r, c) <=> Has(x, r, c)
          BY <2>2 DEF Has
        <5> QED BY <2>2, <2>4, <4>2, <5>1, <5>2
      <4> QED BY <2>2, <4>1, <4>2 DEF Written, Framed
    <3>2. CASE s # R
      <4> DEFINE rest == R - s
                 w == Offset(x, s, 0, rest, x.cols)
                 f == Offset(w, n, 0, rest, x.cols)
                 y == CopyWithin(w, f)
      <4>1. rest \in Nat /\ rest # 0 /\ s \in Int /\ 0 \in Int /\ n \in Int /\ x.rows - n - s = rest
        BY <1>1, <2>1, <3>2 DEF R
      <4>2. z = Offset(y, -s, 0, s + rest, x.cols)
        <5>1. n # 0 /\ x.rows - n - s # 0
          BY <4>1
        <5> QED BY <1>3, <4>1, <5>1 DEF DeleteRows
      <4> HIDE DEF rest
      <4>3. /\ Formed(w) /\ w.rows = rest /\ w.cols = x.cols /\ w.ro = x.ro + s /\ w.co = x.co + 0
            /\ w.arows = x.arows /\ w.acols = x.acols /\ w.mem = x.mem
        <5>1. x.ro + s >= 0 /\ x.ro + s + rest <= x.arows /\ x.co + 0 >= 0 /\ x.co + 0 + x.cols <= x.acols
          BY <1>1, <2>1, <4>1 DEF rest, R
        <5>2. CanMove(x, s, 0, rest, x.cols)
          BY <1>1, <4>1, <5>1 DEF CanMove
        <5> QED BY <1>1, <5>2, MovedIs DEF Moved
      <4> HIDE DEF w
      <4>4. /\ Formed(f) /\ f.rows = rest /\ f.cols = x.cols /\ f.ro = w.ro + n /\ f.co = w.co + 0
            /\ f.arows = w.arows /\ f.acols = w.acols /\ f.mem = w.mem
        <5>1. w.ro + n >= 0 /\ w.ro + n + rest <= w.arows /\ w.co + 0 >= 0 /\ w.co + 0 + x.cols <= w.acols
          BY <1>1, <2>1, <4>1, <4>3 DEF rest, R
        <5>2. CanMove(w, n, 0, rest, x.cols)
          BY <1>1, <4>1, <5>1 DEF CanMove
        <5> QED BY <4>3, <5>2, MovedIs DEF Moved
      <4> HIDE DEF f
      <4>5. Region(w) /\ Region(f) /\ SameSize(w, f) /\ Safe(w, f)
        <5>1. /\ w.ro = x.ro + s /\ w.co = x.co /\ f.ro = x.ro + s + n /\ f.co = x.co
              /\ w.arows = x.arows /\ w.acols = x.acols /\ f.arows = x.arows /\ f.acols = x.acols
          BY <1>1, <2>1, <4>3, <4>4
        <5>2. /\ w.ro \in Nat /\ w.co \in Nat /\ w.ro + w.rows <= w.arows /\ w.co + w.cols <= w.acols
              /\ f.ro \in Nat /\ f.co \in Nat /\ f.ro + f.rows <= f.arows /\ f.co + f.cols <= f.acols
              /\ f.ro > w.ro
          BY <1>1, <2>1, <4>1, <4>3, <4>4, <5>1 DEF rest, R
        <5> QED BY <4>3, <4>4, <5>2 DEF Region, SameSize, Safe
      <4>6. Written(y, w, Ones(f))
        BY <4>3, <4>4, <4>5, CopyWithinWrites
      <4> HIDE DEF y
      <4>7. /\ Formed(y) /\ y.ro = x.ro + s /\ y.co = x.co + 0
            /\ y.arows = x.arows /\ y.acols = x.acols
            /\ \A r \in 0 .. x.arows - 1, c \in 0 .. x.acols - 1 :
                 Has(y, r, c) <=> IF Within(w, r, c) THEN <<r - w.ro, c - w.co>> \in Ones(f)
                                  ELSE Has(w, r, c)
        BY <4>3, <4>6 DEF Written, Framed
      <4>8. /\ Formed(z) /\ z.rows = R /\ z.cols = x.cols /\ z.ro = x.ro /\ z.co = x.co
            /\ z.arows = x.arows /\ z.acols = x.acols /\ z.mem = y.mem
        <5>1. /\ y.ro + (-s) >= 0 /\ y.ro + (-s) + (s + rest) <= y.arows
              /\ y.co + 0 >= 0 /\ y.co + 0 + x.cols <= y.acols
              /\ -s \in Int /\ s + rest \in Nat /\ s + rest = R
          BY <1>1, <2>1, <4>1, <4>7 DEF rest
        <5>2. y.ro + (-s) = x.ro /\ y.co + 0 = x.co
          BY <1>1, <2>1, <4>7
        <5>3. CanMove(y, -s, 0, s + rest, x.cols)
          BY <1>1, <4>1, <5>1 DEF CanMove
        <5>4. Moved(z, y, -s, 0, s + rest, x.cols)
          BY <4>2, <4>7, <5>3, MovedIs
        <5> HIDE DEF z
        <5> QED BY <4>7, <5>1, <5>2, <5>4 DEF Moved
      <4> HIDE DEF z
      <4>9. ASSUME NEW r \in 0 .. x.arows - 1, NEW c \in 0 .. x.acols - 1
            PROVE  Has(z, r, c) <=> IF Within(u, r, c) THEN <<r - u.ro, c - u.co>> \in N
                                    ELSE Has(u, r, c)
        <5>1. /\ Has(z, r, c) <=> Has(y, r, c)
              /\ Has(w, r, c) <=> Has(x, r, c)
              /\ Has(u, r, c) <=> Has(x, r, c)
              /\ Has(f, r + n, c) <=> Has(x, r + n, c)
          BY <2>2, <4>3, <4>4, <4>8 DEF Has
        <5>2. Within(w, r, c) <=> (Within(u, r, c) /\ ~(r < x.ro + s))
          <6>1. /\ w.ro = x.ro + s /\ w.co = x.co /\ w.rows = rest /\ w.cols = x.cols
                /\ u.ro = x.ro /\ u.co = x.co /\ u.rows = R /\ u.cols = x.cols
            BY <1>1, <2>2, <4>3
          <6>2. s + rest = R /\ r \in Int /\ c \in Int
            BY <1>1, <2>1, <4>1 DEF rest
          <6> QED BY <1>1, <2>1, <4>1, <6>1, <6>2 DEF Within
        <5>3. CASE Within(w, r, c)
          <6> DEFINE i == r - w.ro j == c - w.co
          <6>1. i \in 0 .. rest - 1 /\ j \in 0 .. x.cols - 1 /\ i + f.ro = r + n /\ j + f.co = c
                /\ i \in Int /\ j \in Int
            <7>1. w.ro \in Nat /\ w.co \in Nat /\ w.rows = rest /\ w.cols = x.cols
                  /\ f.ro = w.ro + n /\ f.co = w.co
              BY <1>1, <2>1, <4>3, <4>4
            <7> QED BY <1>1, <2>1, <4>1, <5>3, <7>1 DEF Within
          <6> HIDE DEF i, j
          <6>2. <<i, j>> \in Ones(f) <=> Has(f, r + n, c)
            BY <4>4, <6>1, OnesAt
          <6>3. Has(y, r, c) <=> <<i, j>> \in Ones(f)
            BY <4>7, <5>3 DEF i, j
          <6> QED BY <2>4, <5>1, <5>2, <5>3, <6>2, <6>3
        <5>4. CASE ~Within(w, r, c)
          <6>1. Has(y, r, c) <=> Has(w, r, c)
            BY <4>7, <5>4
          <6> QED BY <2>4, <5>1, <5>2, <5>4, <6>1
        <5> QED BY <5>3, <5>4
      <4> QED BY <2>2, <4>8, <4>9 DEF Written, Framed
    <3> QED BY <3>1, <3>2
  <2>6. N \subseteq Places(u)
    BY <2>3 DEF N
  <2>7. Formed(z) /\ Cells(z) = Grid!Paint(Cells(u), N)
    BY <2>2, <2>5, <2>6, PaintIs
  <2> QED BY <1>3, <2>2, <2>7 DEF z, N, R, RowsDeleted
<1> QED BY <1>2, <1>3

(* Fewer columns. *)
LEMMA FewerColumns ==
  ASSUME NEW x, Region(x), NEW k \in 0 .. x.cols
  PROVE  /\ Region([x EXCEPT !.cols = k])
         /\ [x EXCEPT !.cols = k].cols = k /\ [x EXCEPT !.cols = k].rows = x.rows
         /\ [x EXCEPT !.cols = k].co = x.co /\ [x EXCEPT !.cols = k].ro = x.ro
         /\ [x EXCEPT !.cols = k].acols = x.acols /\ [x EXCEPT !.cols = k].arows = x.arows
         /\ [x EXCEPT !.cols = k].mem = x.mem
         /\ Cells([x EXCEPT !.cols = k]) = [Cells(x) EXCEPT !.cols = k]
<1> DEFINE u == [x EXCEPT !.cols = k]
<1>1. /\ k \in Nat /\ k <= x.cols /\ x.cols \in Nat /\ x.rows \in Nat /\ x.co \in Nat /\ x.ro \in Nat
      /\ x.acols \in Nat /\ x.arows \in Nat
      /\ x.co + x.cols <= x.acols /\ x.ro + x.rows <= x.arows
      /\ x.mem \in [0 .. x.arows - 1 -> [0 .. RowInc(x.acols) - 1 -> SUBSET Long]]
  BY DEF Region, Formed
<1>2. u = [rows |-> x.rows, cols |-> k, ro |-> x.ro, co |-> x.co,
           arows |-> x.arows, acols |-> x.acols, mem |-> x.mem]
  <2>1. x = [rows |-> x.rows, cols |-> x.cols, ro |-> x.ro, co |-> x.co,
             arows |-> x.arows, acols |-> x.acols, mem |-> x.mem]
    BY DEF Region, Formed
  <2>2. u = [x EXCEPT !.cols = k]
    OBVIOUS
  <2> HIDE DEF u
  <2> QED BY ONLY <2>1, <2>2
<1> HIDE DEF u
<1>3. /\ u.cols = k /\ u.rows = x.rows /\ u.co = x.co /\ u.ro = x.ro
      /\ u.acols = x.acols /\ u.arows = x.arows /\ u.mem = x.mem
  BY <1>2
<1>4. Region(u)
  <2>1. x.co + k <= x.acols
    BY <1>1
  <2> QED BY <1>1, <1>2, <1>3, <2>1 DEF Region, Formed
<1> DEFINE C == Cells(x) T == C.on E == [C EXCEPT !.cols = k]
<1>5. C = [rows |-> x.rows, cols |-> x.cols, ro |-> x.ro, co |-> x.co,
           arows |-> x.arows, acols |-> x.acols, on |-> T]
  BY CellsAs
<1>6. Cells(u) = [rows |-> x.rows, cols |-> k, ro |-> x.ro, co |-> x.co,
                  arows |-> x.arows, acols |-> x.acols, on |-> T]
  BY <1>3, CellsOffset DEF Region
<1>7. E = [rows |-> x.rows, cols |-> k, ro |-> x.ro, co |-> x.co,
           arows |-> x.arows, acols |-> x.acols, on |-> T]
  <2>1. E = [C EXCEPT !.cols = k]
    OBVIOUS
  <2> HIDE DEF C, T, E
  <2> QED BY ONLY <1>5, <2>1
<1>8. Cells(u) = E
  BY <1>6, <1>7
<1> HIDE DEF T
<1> QED BY <1>3, <1>4, <1>8 DEF u, E, C

(* z has the cells of x without n columns from s on. *)
ColumnsDeleted(z, x, s, n) ==
  /\ Formed(z)
  /\ Cells(z) = IF s < 0 \/ s + n > x.cols THEN Cells(x)
                ELSE Grid!Paint([Cells(x) EXCEPT !.cols = x.cols - n],
                       {p \in (0 .. x.rows - 1) \X (0 .. x.cols - n - 1) :
                          <<p[1], IF p[2] < s THEN p[2] ELSE p[2] + n>> \in Ones(x)})

(* Deleting columns copies those behind them to the front, within the allocation. *)
LEMMA DeleteColumnsIs ==
  ASSUME LongBits = WordBits, NEW x, Region(x), NEW s \in Int, NEW n \in Nat \ {0}
  PROVE  ColumnsDeleted(DeleteColumns(x, s, n), x, s, n)
<1> DEFINE R == x.cols - n u == [x EXCEPT !.cols = R] z == DeleteColumns(x, s, n)
           N == {p \in (0 .. x.rows - 1) \X (0 .. R - 1) :
                   <<p[1], IF p[2] < s THEN p[2] ELSE p[2] + n>> \in Ones(x)}
<1>1. /\ x.cols \in Nat /\ x.rows \in Nat /\ x.co \in Nat /\ x.ro \in Nat
      /\ x.acols \in Nat /\ x.arows \in Nat /\ Formed(x)
      /\ x.co + x.cols <= x.acols /\ x.ro + x.rows <= x.arows
  BY DEF Region, Formed
<1>2. CASE s < 0 \/ s + n > x.cols
  BY <1>1, <1>2 DEF DeleteColumns, ColumnsDeleted
<1>3. CASE ~(s < 0 \/ s + n > x.cols)
  <2>1. s \in Nat /\ s + n <= x.cols /\ R \in 0 .. x.cols /\ R \in Nat /\ s <= R /\ n \in Nat
    BY <1>1, <1>3
  <2> HIDE DEF R
  <2>2. /\ Region(u) /\ Formed(u) /\ u.cols = R /\ u.rows = x.rows /\ u.co = x.co /\ u.ro = x.ro
        /\ u.acols = x.acols /\ u.arows = x.arows /\ u.mem = x.mem
        /\ Cells(u) = [Cells(x) EXCEPT !.cols = R]
    BY <2>1, FewerColumns DEF Region
  <2>3. Places(u) = (0 .. x.rows - 1) \X (0 .. R - 1)
    BY <2>2 DEF Places
  (* The cells that stay, in the allocation. *)
  <2>4. ASSUME NEW c \in 0 .. x.acols - 1, NEW r \in 0 .. x.arows - 1, Within(u, r, c)
        PROVE  <<r - u.ro, c - u.co>> \in N
                 <=> IF c < x.co + s THEN Has(x, r, c) ELSE Has(x, r, c + n)
    <3> DEFINE j == c - x.co i == r - x.ro
    <3>1. j \in 0 .. R - 1 /\ i \in 0 .. x.rows - 1 /\ c \in Int /\ r \in Int
      BY <1>1, <2>1, <2>2, <2>4 DEF Within
    <3>2. CASE c < x.co + s
      <4>1. j < s /\ j \in 0 .. x.cols - 1 /\ j + x.co = c /\ i + x.ro = r /\ j \in Int /\ i \in Int
        BY <1>1, <2>1, <3>1, <3>2
      <4> HIDE DEF j, i
      <4>2. <<i, j>> \in N <=> <<i, j>> \in Ones(x)
        BY <3>1, <4>1
      <4>3. <<i, j>> \in Ones(x) <=> Has(x, r, c)
        BY <1>1, <3>1, <4>1, OnesAt
      <4> QED BY <2>2, <3>2, <4>2, <4>3 DEF j, i
    <3>3. CASE ~(c < x.co + s)
      <4> DEFINE h == j + n
      <4>1. ~(j < s) /\ h \in 0 .. x.cols - 1 /\ h + x.co = c + n /\ i + x.ro = r /\ h \in Int /\ i \in Int
        <5>1. j >= s /\ j + x.co = c /\ i + x.ro = r
          BY <1>1, <2>1, <3>1, <3>3
        <5>2. R = x.cols - n
          BY DEF R
        <5>3. j \in Int /\ 0 <= j /\ j <= R - 1 /\ i \in Int
          BY <2>1, <3>1
        <5> HIDE DEF j, i
        <5> QED BY <1>1, <2>1, <5>1, <5>2, <5>3
      <4>2. <<i, j>> \in N <=> <<i, h>> \in Ones(x)
        <5> HIDE DEF i
        <5>1. j + n = h
          OBVIOUS
        <5> HIDE DEF j, h
        <5> QED BY <3>1, <4>1, <5>1
      <4> HIDE DEF h, i
      <4>3. <<i, h>> \in Ones(x) <=> Has(x, r, c + n)
        BY <1>1, <3>1, <4>1, OnesAt
      <4> QED BY <2>2, <3>3, <4>2, <4>3 DEF i
    <3> QED BY <3>2, <3>3
  <2> HIDE DEF N, u
  <2>5. Written(z, u, N)
    <3>1. CASE s = R
      <4>1. z = u
        <5>1. x.cols - n - s = 0 /\ n # 0
          BY <1>1, <2>1, <3>1 DEF R
        <5>2. DeleteColumns(x, s, n) = [x EXCEPT !.cols = x.cols - n]
          BY <1>3, <5>1 DEF DeleteColumns
        <5> QED BY <5>2 DEF u, R
      <4>2. ASSUME NEW c \in 0 .. u.acols - 1, NEW r \in 0 .. u.arows - 1, Within(u, r, c)
            PROVE  Has(u, r, c) <=> <<r - u.ro, c - u.co>> \in N
        <5>1. c < x.co + s
          BY <1>1, <2>1, <2>2, <3>1, <4>2 DEF Within
        <5>2. Has(u, r, c) <=> Has(x, r, c)
          BY <2>2 DEF Has
        <5> QED BY <2>2, <2>4, <4>2, <5>1, <5>2
      <4> QED BY <2>2, <4>1, <4>2 DEF Written, Framed
    <3>2. CASE s # R
      <4> DEFINE rest == R - s
                 w == Offset(x, 0, s, x.rows, rest)
                 f == Offset(w, 0, n, x.rows, rest)
                 y == CopyWithin(w, f)
      <4>1. rest \in Nat /\ rest # 0 /\ s \in Int /\ 0 \in Int /\ n \in Int /\ x.cols - n - s = rest
        BY <1>1, <2>1, <3>2 DEF R
      <4>2. z = Offset(y, 0, -s, x.rows, s + rest)
        <5>1. n # 0 /\ x.cols - n - s # 0
          BY <4>1
        <5> QED BY <1>3, <4>1, <5>1 DEF DeleteColumns
      <4> HIDE DEF rest
      <4>3. /\ Formed(w) /\ w.cols = rest /\ w.rows = x.rows /\ w.co = x.co + s /\ w.ro = x.ro + 0
            /\ w.acols = x.acols /\ w.arows = x.arows /\ w.mem = x.mem
        <5>1. x.co + s >= 0 /\ x.co + s + rest <= x.acols /\ x.ro + 0 >= 0 /\ x.ro + 0 + x.rows <= x.arows
          BY <1>1, <2>1, <4>1 DEF rest, R
        <5>2. CanMove(x, 0, s, x.rows, rest)
          BY <1>1, <4>1, <5>1 DEF CanMove
        <5> QED BY <1>1, <5>2, MovedIs DEF Moved
      <4> HIDE DEF w
      <4>4. /\ Formed(f) /\ f.cols = rest /\ f.rows = x.rows /\ f.co = w.co + n /\ f.ro = w.ro + 0
            /\ f.acols = w.acols /\ f.arows = w.arows /\ f.mem = w.mem
        <5>1. w.co + n >= 0 /\ w.co + n + rest <= w.acols /\ w.ro + 0 >= 0 /\ w.ro + 0 + x.rows <= w.arows
          BY <1>1, <2>1, <4>1, <4>3 DEF rest, R
        <5>2. CanMove(w, 0, n, x.rows, rest)
          BY <1>1, <4>1, <5>1 DEF CanMove
        <5> QED BY <4>3, <5>2, MovedIs DEF Moved
      <4> HIDE DEF f
      <4>5. Region(w) /\ Region(f) /\ SameSize(w, f) /\ Safe(w, f)
        <5>1. /\ w.co = x.co + s /\ w.ro = x.ro /\ f.co = x.co + s + n /\ f.ro = x.ro
              /\ w.acols = x.acols /\ w.arows = x.arows /\ f.acols = x.acols /\ f.arows = x.arows
          BY <1>1, <2>1, <4>3, <4>4
        <5>2. /\ w.co \in Nat /\ w.ro \in Nat /\ w.co + w.cols <= w.acols /\ w.ro + w.rows <= w.arows
              /\ f.co \in Nat /\ f.ro \in Nat /\ f.co + f.cols <= f.acols /\ f.ro + f.rows <= f.arows
              /\ f.co > w.co
          BY <1>1, <2>1, <4>1, <4>3, <4>4, <5>1 DEF rest, R
        <5> QED BY <4>3, <4>4, <5>2 DEF Region, SameSize, Safe
      <4>6. Written(y, w, Ones(f))
        BY <4>3, <4>4, <4>5, CopyWithinWrites
      <4> HIDE DEF y
      <4>7. /\ Formed(y) /\ y.co = x.co + s /\ y.ro = x.ro + 0
            /\ y.acols = x.acols /\ y.arows = x.arows
            /\ \A c \in 0 .. x.acols - 1, r \in 0 .. x.arows - 1 :
                 Has(y, r, c) <=> IF Within(w, r, c) THEN <<r - w.ro, c - w.co>> \in Ones(f)
                                  ELSE Has(w, r, c)
        BY <4>3, <4>6 DEF Written, Framed
      <4>8. /\ Formed(z) /\ z.cols = R /\ z.rows = x.rows /\ z.co = x.co /\ z.ro = x.ro
            /\ z.acols = x.acols /\ z.arows = x.arows /\ z.mem = y.mem
        <5>1. /\ y.co + (-s) >= 0 /\ y.co + (-s) + (s + rest) <= y.acols
              /\ y.ro + 0 >= 0 /\ y.ro + 0 + x.rows <= y.arows
              /\ -s \in Int /\ s + rest \in Nat /\ s + rest = R
          BY <1>1, <2>1, <4>1, <4>7 DEF rest
        <5>2. y.co + (-s) = x.co /\ y.ro + 0 = x.ro
          BY <1>1, <2>1, <4>7
        <5>3. CanMove(y, 0, -s, x.rows, s + rest)
          BY <1>1, <4>1, <5>1 DEF CanMove
        <5>4. Moved(z, y, 0, -s, x.rows, s + rest)
          BY <4>2, <4>7, <5>3, MovedIs
        <5> HIDE DEF z
        <5> QED BY <4>7, <5>1, <5>2, <5>4 DEF Moved
      <4> HIDE DEF z
      <4>9. ASSUME NEW c \in 0 .. x.acols - 1, NEW r \in 0 .. x.arows - 1
            PROVE  Has(z, r, c) <=> IF Within(u, r, c) THEN <<r - u.ro, c - u.co>> \in N
                                    ELSE Has(u, r, c)
        <5>1. /\ Has(z, r, c) <=> Has(y, r, c)
              /\ Has(w, r, c) <=> Has(x, r, c)
              /\ Has(u, r, c) <=> Has(x, r, c)
              /\ Has(f, r, c + n) <=> Has(x, r, c + n)
          BY <2>2, <4>3, <4>4, <4>8 DEF Has
        <5>2. Within(w, r, c) <=> (Within(u, r, c) /\ ~(c < x.co + s))
          <6>1. /\ w.co = x.co + s /\ w.ro = x.ro /\ w.cols = rest /\ w.rows = x.rows
                /\ u.co = x.co /\ u.ro = x.ro /\ u.cols = R /\ u.rows = x.rows
            BY <1>1, <2>2, <4>3
          <6>2. s + rest = R /\ c \in Int /\ r \in Int
            BY <1>1, <2>1, <4>1 DEF rest
          <6> QED BY <1>1, <2>1, <4>1, <6>1, <6>2 DEF Within
        <5>3. CASE Within(w, r, c)
          <6> DEFINE j == c - w.co i == r - w.ro
          <6>1. j \in 0 .. rest - 1 /\ i \in 0 .. x.rows - 1 /\ j + f.co = c + n /\ i + f.ro = r
                /\ j \in Int /\ i \in Int
            <7>1. w.co \in Nat /\ w.ro \in Nat /\ w.cols = rest /\ w.rows = x.rows
                  /\ f.co = w.co + n /\ f.ro = w.ro
              BY <1>1, <2>1, <4>3, <4>4
            <7> QED BY <1>1, <2>1, <4>1, <5>3, <7>1 DEF Within
          <6> HIDE DEF j, i
          <6>2. <<i, j>> \in Ones(f) <=> Has(f, r, c + n)
            BY <4>4, <6>1, OnesAt
          <6>3. Has(y, r, c) <=> <<i, j>> \in Ones(f)
            BY <4>7, <5>3 DEF j, i
          <6> QED BY <2>4, <5>1, <5>2, <5>3, <6>2, <6>3
        <5>4. CASE ~Within(w, r, c)
          <6>1. Has(y, r, c) <=> Has(w, r, c)
            BY <4>7, <5>4
          <6> QED BY <2>4, <5>1, <5>2, <5>4, <6>1
        <5> QED BY <5>3, <5>4
      <4> QED BY <2>2, <4>8, <4>9 DEF Written, Framed
    <3> QED BY <3>1, <3>2
  <2>6. N \subseteq Places(u)
    BY <2>3 DEF N
  <2>7. Formed(z) /\ Cells(z) = Grid!Paint(Cells(u), N)
    BY <2>2, <2>5, <2>6, PaintIs
  <2> QED BY <1>3, <2>2, <2>7 DEF z, N, R, ColumnsDeleted
<1> QED BY <1>2, <1>3

(* z is x with the rows r1 and r2 swapped. *)
RowsSwapped(z, x, r1, r2) ==
  /\ Formed(z)
  /\ Cells(z)
     = Grid!Paint(Cells(x), {<<Grid!Swapped(r1, r2, p[1]), p[2]>> : p \in Ones(x)})

(* Swapping two rows goes by way of a copy, and over the one it was taken of. *)
LEMMA SwapRowsIs ==
  ASSUME LongBits = WordBits, NEW x, Region(x), NEW r1 \in 0 .. x.rows - 1, NEW r2 \in 0 .. x.rows - 1,
         x.cols > 0
  PROVE  RowsSwapped(SwapRows(x, r1, r2), x, r1, r2)
<1> DEFINE N == {<<Grid!Swapped(r1, r2, p[1]), p[2]>> : p \in Ones(x)}
           w == Offset(x, r1, 0, 1, x.cols)
           f == Offset(w, r2 - r1, 0, 1, x.cols)
           y == CopyWithin(w, f)
           g == Offset(y, r2 - r1, 0, 1, x.cols)
           k == Assign(NoMatrix, w)
           t == Assign(g, k)
           z == Offset(t, -r2, 0, x.rows, x.cols)
<1>1. /\ x.rows \in Nat /\ x.cols \in Nat /\ x.ro \in Nat /\ x.co \in Nat
      /\ x.arows \in Nat /\ x.acols \in Nat /\ Formed(x)
      /\ x.ro + x.rows <= x.arows /\ x.co + x.cols <= x.acols
      /\ r1 \in Int /\ 0 <= r1 /\ r1 < x.rows /\ r2 \in Int /\ 0 <= r2 /\ r2 < x.rows
  BY DEF Region, Formed
<1>2. SwapRows(x, r1, r2) = z
  BY DEF SwapRows
<1> HIDE DEF z
<1>3. /\ Moved(w, x, r1, 0, 1, x.cols)
      /\ Region(w) /\ Formed(w) /\ w.rows = 1 /\ w.cols = x.cols /\ w.ro = x.ro + r1 /\ w.co = x.co
      /\ w.arows = x.arows /\ w.acols = x.acols /\ w.mem = x.mem
  <2>1. CanMove(x, r1, 0, 1, x.cols)
    BY <1>1 DEF CanMove
  <2>2. Moved(w, x, r1, 0, 1, x.cols)
    BY <1>1, <2>1, MovedIs
  <2> HIDE DEF w
  <2> QED BY <1>1, <2>2 DEF Moved
<1> HIDE DEF w
<1>4. /\ Moved(f, w, r2 - r1, 0, 1, x.cols)
      /\ Region(f) /\ Formed(f) /\ f.rows = 1 /\ f.cols = x.cols /\ f.ro = x.ro + r2 /\ f.co = x.co
      /\ f.arows = x.arows /\ f.acols = x.acols /\ f.mem = w.mem
  <2>1. CanMove(w, r2 - r1, 0, 1, x.cols)
    BY <1>1, <1>3 DEF CanMove
  <2>2. Moved(f, w, r2 - r1, 0, 1, x.cols)
    BY <1>3, <2>1, MovedIs
  <2> HIDE DEF f
  <2> QED BY <1>1, <1>3, <2>2 DEF Moved
<1> HIDE DEF f
<1>5. Written(y, w, Ones(f))
  <2>1. SameSize(w, f)
    BY <1>3, <1>4 DEF SameSize
  <2>2. Safe(w, f)
    <3>1. CASE r2 > r1
      BY <1>1, <1>3, <1>4, <3>1 DEF Safe
    <3>2. CASE r2 <= r1
      BY <1>1, <1>3, <1>4, <3>2 DEF Safe
    <3> QED BY <1>1, <3>1, <3>2
  <2> QED BY <1>3, <1>4, <2>1, <2>2, CopyWithinWrites
<1> HIDE DEF y
<1>6. /\ Formed(y) /\ y.ro = x.ro + r1 /\ y.co = x.co
      /\ y.arows = x.arows /\ y.acols = x.acols
  BY <1>3, <1>5 DEF Written, Framed
<1>7. /\ Moved(g, y, r2 - r1, 0, 1, x.cols)
      /\ Region(g) /\ Formed(g) /\ g.rows = 1 /\ g.cols = x.cols /\ g.ro = x.ro + r2 /\ g.co = x.co
      /\ g.arows = x.arows /\ g.acols = x.acols
  <2>1. CanMove(y, r2 - r1, 0, 1, x.cols)
    BY <1>1, <1>6 DEF CanMove
  <2>2. Moved(g, y, r2 - r1, 0, 1, x.cols)
    BY <1>6, <2>1, MovedIs
  <2> HIDE DEF g
  <2> QED BY <1>1, <1>6, <2>2 DEF Moved
<1> HIDE DEF g
<1>8. Formed(k) /\ k.rows = 1 /\ k.cols = x.cols /\ Ones(k) = Ones(w) /\ Region(k)
  <2>1. Formed(k) /\ k.rows = 1 /\ k.cols = x.cols /\ Ones(k) = Ones(w)
    BY <1>3, CopyIs
  <2> HIDE DEF k
  <2>2. k.rows > 0 /\ k.cols > 0
    BY <2>1
  <2> QED BY <2>1, <2>2, RegionIs
<1> HIDE DEF k
<1>9. Written(t, g, Ones(w))
  <2>1. SameSize(g, k)
    BY <1>7, <1>8 DEF SameSize
  <2> QED BY <1>7, <1>8, <2>1, AssignWrites
<1> HIDE DEF t
<1>10. /\ Formed(t) /\ t.ro = x.ro + r2 /\ t.co = x.co
       /\ t.arows = x.arows /\ t.acols = x.acols
  BY <1>7, <1>9 DEF Written, Framed
<1>11. /\ Moved(z, t, -r2, 0, x.rows, x.cols)
       /\ Formed(z) /\ z.rows = x.rows /\ z.cols = x.cols /\ z.ro = x.ro /\ z.co = x.co
       /\ z.arows = x.arows /\ z.acols = x.acols
  <2>1. CanMove(t, -r2, 0, x.rows, x.cols)
    BY <1>1, <1>10 DEF CanMove
  <2>2. Moved(z, t, -r2, 0, x.rows, x.cols)
    BY <1>10, <2>1, MovedIs DEF z
  <2> QED BY <1>1, <1>10, <2>2 DEF Moved
(* The cells after the two copies. *)
<1>12. ASSUME NEW r \in 0 .. x.arows - 1, NEW c \in 0 .. x.acols - 1
       PROVE  Has(z, r, c) <=> IF Within(x, r, c) THEN <<r - x.ro, c - x.co>> \in N ELSE Has(x, r, c)
  <2>1. r \in Int /\ c \in Int
    BY <1>1
  <2>2. /\ Has(z, r, c) <=> Has(t, r, c)
        /\ Has(w, r, c) <=> Has(x, r, c)
        /\ Has(g, r, c) <=> Has(y, r, c)
        /\ \A h : (Has(f, h, c) <=> Has(x, h, c)) /\ (Has(w, h, c) <=> Has(x, h, c))
    BY <1>3, <1>4, <1>7, <1>11 DEF Moved
  <2>3. /\ Within(w, r, c) <=> (Within(x, r, c) /\ r - x.ro = r1)
        /\ Within(g, r, c) <=> (Within(x, r, c) /\ r - x.ro = r2)
    BY <1>1, <1>3, <1>7, <2>1 DEF Within
  <2>4. /\ Has(t, r, c) <=> IF Within(g, r, c) THEN <<r - g.ro, c - g.co>> \in Ones(w) ELSE Has(g, r, c)
        /\ Has(y, r, c) <=> IF Within(w, r, c) THEN <<r - w.ro, c - w.co>> \in Ones(f) ELSE Has(w, r, c)
    BY <1>3, <1>5, <1>7, <1>9 DEF Written
  <2>5. CASE ~Within(x, r, c)
    BY <2>2, <2>3, <2>4, <2>5
  <2>6. CASE Within(x, r, c)
    <3> DEFINE i == r - x.ro j == c - x.co h == Grid!Swapped(r1, r2, i)
    <3>1. i \in 0 .. x.rows - 1 /\ j \in 0 .. x.cols - 1 /\ i \in Int /\ j \in Int
          /\ i + x.ro = r /\ j + x.co = c
      BY <1>1, <2>1, <2>6 DEF Within
    <3> HIDE DEF i, j
    <3>2. <<i, j>> \in N <=> <<h, j>> \in Ones(x)
      <4>1. ASSUME NEW e \in Ones(x), <<i, j>> = <<Grid!Swapped(r1, r2, e[1]), e[2]>>
            PROVE  <<h, j>> \in Ones(x)
        <5>1. e = <<e[1], e[2]>>
          BY DEF Ones, Places
        <5>2. i = Grid!Swapped(r1, r2, e[1]) /\ j = e[2]
          BY <4>1
        <5>3. h = e[1]
          BY ONLY <5>2 DEF Grid!Swapped, h
        <5> QED BY <5>1, <5>2, <5>3
      <4>2. ASSUME <<h, j>> \in Ones(x) PROVE <<i, j>> \in N
        <5>1. i = Grid!Swapped(r1, r2, h)
          BY DEF Grid!Swapped
        <5> HIDE DEF h
        <5>2. <<h, j>>[1] = h /\ <<h, j>>[2] = j
          OBVIOUS
        <5> QED BY <4>2, <5>1, <5>2
      <4> QED BY <4>1, <4>2
    <3>3. h \in 0 .. x.rows - 1 /\ h \in Int
      BY <1>1, <3>1 DEF Grid!Swapped
    <3>4. <<h, j>> \in Ones(x) <=> Has(x, h + x.ro, c)
      <4> HIDE DEF h
      <4> QED BY <1>1, <3>1, <3>3, OnesAt
    <3>5. <<0, j>> \in Ones(w) <=> Has(x, r1 + x.ro, c)
      <4>1. 0 \in 0 .. w.rows - 1 /\ j \in 0 .. w.cols - 1 /\ 0 + w.ro = r1 + x.ro /\ j + w.co = c
        BY <1>1, <1>3, <3>1
      <4>2. <<0, j>> \in Ones(w) <=> Has(w, 0 + w.ro, j + w.co)
        BY <1>3, <3>1, <4>1, OnesAt
      <4> QED BY <2>2, <4>1, <4>2
    <3>6. <<0, j>> \in Ones(f) <=> Has(x, r2 + x.ro, c)
      <4>1. 0 \in 0 .. f.rows - 1 /\ j \in 0 .. f.cols - 1 /\ 0 + f.ro = r2 + x.ro /\ j + f.co = c
        BY <1>1, <1>4, <3>1
      <4>2. <<0, j>> \in Ones(f) <=> Has(f, 0 + f.ro, j + f.co)
        BY <1>4, <3>1, <4>1, OnesAt
      <4> QED BY <2>2, <4>1, <4>2
    <3>7. Has(z, r, c) <=> Has(x, h + x.ro, c)
      <4>1. CASE i = r2
        <5>1. Within(g, r, c) /\ r - g.ro = 0 /\ c - g.co = j /\ h = r1
          BY <1>1, <1>7, <2>1, <2>3, <2>6, <4>1 DEF i, j, Grid!Swapped
        <5> QED BY <2>2, <2>4, <3>5, <5>1
      <4>2. CASE i # r2 /\ i = r1
        <5>1. Within(w, r, c) /\ ~Within(g, r, c) /\ r - w.ro = 0 /\ c - w.co = j /\ h = r2
          BY <1>1, <1>3, <2>1, <2>3, <2>6, <4>2 DEF i, j, Grid!Swapped
        <5> QED BY <2>2, <2>4, <3>6, <5>1
      <4>3. CASE i # r2 /\ i # r1
        <5>1. ~Within(w, r, c) /\ ~Within(g, r, c) /\ h + x.ro = r
          BY <2>3, <3>1, <4>3 DEF i, Grid!Swapped
        <5> QED BY <2>2, <2>4, <5>1
      <4> QED BY <4>1, <4>2, <4>3
    <3> HIDE DEF h, N
    <3> QED BY <2>6, <3>2, <3>4, <3>7 DEF i, j
  <2> QED BY <2>5, <2>6
<1>13. Written(z, x, N)
  BY <1>11, <1>12 DEF Written, Framed
<1>14. N \subseteq Places(x)
  <2>1. ASSUME NEW e \in Ones(x) PROVE <<Grid!Swapped(r1, r2, e[1]), e[2]>> \in Places(x)
    <3>1. e[1] \in 0 .. x.rows - 1 /\ e[2] \in 0 .. x.cols - 1
      BY DEF Ones, Places
    <3>2. Grid!Swapped(r1, r2, e[1]) \in 0 .. x.rows - 1
      BY <3>1 DEF Grid!Swapped
    <3> QED BY <3>1, <3>2 DEF Places
  <2> QED BY <2>1
<1> HIDE DEF N
<1> QED BY <1>1, <1>2, <1>13, <1>14, PaintIs DEF N, RowsSwapped

(* z is x with the columns c1 and c2 swapped. *)
ColumnsSwapped(z, x, c1, c2) ==
  /\ Formed(z)
  /\ Cells(z)
     = Grid!Paint(Cells(x), {<<p[1], Grid!Swapped(c1, c2, p[2])>> : p \in Ones(x)})

(* Swapping two columns does so, too.                                      *)
LEMMA SwapColumnsIs ==
  ASSUME LongBits = WordBits, NEW x, Region(x), NEW c1 \in 0 .. x.cols - 1, NEW c2 \in 0 .. x.cols - 1,
         x.rows > 0
  PROVE  ColumnsSwapped(SwapColumns(x, c1, c2), x, c1, c2)
<1> DEFINE N == {<<p[1], Grid!Swapped(c1, c2, p[2])>> : p \in Ones(x)}
           w == Offset(x, 0, c1, x.rows, 1)
           f == Offset(w, 0, c2 - c1, x.rows, 1)
           y == CopyWithin(w, f)
           g == Offset(y, 0, c2 - c1, x.rows, 1)
           k == Assign(NoMatrix, w)
           t == Assign(g, k)
           z == Offset(t, 0, -c2, x.rows, x.cols)
<1>1. /\ x.cols \in Nat /\ x.rows \in Nat /\ x.co \in Nat /\ x.ro \in Nat
      /\ x.acols \in Nat /\ x.arows \in Nat /\ Formed(x)
      /\ x.co + x.cols <= x.acols /\ x.ro + x.rows <= x.arows
      /\ c1 \in Int /\ 0 <= c1 /\ c1 < x.cols /\ c2 \in Int /\ 0 <= c2 /\ c2 < x.cols
  BY DEF Region, Formed
<1>2. SwapColumns(x, c1, c2) = z
  BY DEF SwapColumns
<1> HIDE DEF z
<1>3. /\ Moved(w, x, 0, c1, x.rows, 1)
      /\ Region(w) /\ Formed(w) /\ w.cols = 1 /\ w.rows = x.rows /\ w.co = x.co + c1 /\ w.ro = x.ro
      /\ w.acols = x.acols /\ w.arows = x.arows /\ w.mem = x.mem
  <2>1. CanMove(x, 0, c1, x.rows, 1)
    BY <1>1 DEF CanMove
  <2>2. Moved(w, x, 0, c1, x.rows, 1)
    BY <1>1, <2>1, MovedIs
  <2> HIDE DEF w
  <2> QED BY <1>1, <2>2 DEF Moved
<1> HIDE DEF w
<1>4. /\ Moved(f, w, 0, c2 - c1, x.rows, 1)
      /\ Region(f) /\ Formed(f) /\ f.cols = 1 /\ f.rows = x.rows /\ f.co = x.co + c2 /\ f.ro = x.ro
      /\ f.acols = x.acols /\ f.arows = x.arows /\ f.mem = w.mem
  <2>1. CanMove(w, 0, c2 - c1, x.rows, 1)
    BY <1>1, <1>3 DEF CanMove
  <2>2. Moved(f, w, 0, c2 - c1, x.rows, 1)
    BY <1>3, <2>1, MovedIs
  <2> HIDE DEF f
  <2> QED BY <1>1, <1>3, <2>2 DEF Moved
<1> HIDE DEF f
<1>5. Written(y, w, Ones(f))
  <2>1. SameSize(w, f)
    BY <1>3, <1>4 DEF SameSize
  <2>2. Safe(w, f)
    <3>1. CASE c2 > c1
      BY <1>1, <1>3, <1>4, <3>1 DEF Safe
    <3>2. CASE c2 <= c1
      BY <1>1, <1>3, <1>4, <3>2 DEF Safe
    <3> QED BY <1>1, <3>1, <3>2
  <2> QED BY <1>3, <1>4, <2>1, <2>2, CopyWithinWrites
<1> HIDE DEF y
<1>6. /\ Formed(y) /\ y.co = x.co + c1 /\ y.ro = x.ro
      /\ y.acols = x.acols /\ y.arows = x.arows
  BY <1>3, <1>5 DEF Written, Framed
<1>7. /\ Moved(g, y, 0, c2 - c1, x.rows, 1)
      /\ Region(g) /\ Formed(g) /\ g.cols = 1 /\ g.rows = x.rows /\ g.co = x.co + c2 /\ g.ro = x.ro
      /\ g.acols = x.acols /\ g.arows = x.arows
  <2>1. CanMove(y, 0, c2 - c1, x.rows, 1)
    BY <1>1, <1>6 DEF CanMove
  <2>2. Moved(g, y, 0, c2 - c1, x.rows, 1)
    BY <1>6, <2>1, MovedIs
  <2> HIDE DEF g
  <2> QED BY <1>1, <1>6, <2>2 DEF Moved
<1> HIDE DEF g
<1>8. Formed(k) /\ k.cols = 1 /\ k.rows = x.rows /\ Ones(k) = Ones(w) /\ Region(k)
  <2>1. Formed(k) /\ k.cols = 1 /\ k.rows = x.rows /\ Ones(k) = Ones(w)
    BY <1>3, CopyIs
  <2> HIDE DEF k
  <2>2. k.cols > 0 /\ k.rows > 0
    BY <2>1
  <2> QED BY <2>1, <2>2, RegionIs
<1> HIDE DEF k
<1>9. Written(t, g, Ones(w))
  <2>1. SameSize(g, k)
    BY <1>7, <1>8 DEF SameSize
  <2> QED BY <1>7, <1>8, <2>1, AssignWrites
<1> HIDE DEF t
<1>10. /\ Formed(t) /\ t.co = x.co + c2 /\ t.ro = x.ro
       /\ t.acols = x.acols /\ t.arows = x.arows
  BY <1>7, <1>9 DEF Written, Framed
<1>11. /\ Moved(z, t, 0, -c2, x.rows, x.cols)
       /\ Formed(z) /\ z.cols = x.cols /\ z.rows = x.rows /\ z.co = x.co /\ z.ro = x.ro
       /\ z.acols = x.acols /\ z.arows = x.arows
  <2>1. CanMove(t, 0, -c2, x.rows, x.cols)
    BY <1>1, <1>10 DEF CanMove
  <2>2. Moved(z, t, 0, -c2, x.rows, x.cols)
    BY <1>10, <2>1, MovedIs DEF z
  <2> QED BY <1>1, <1>10, <2>2 DEF Moved
(* The cells after the two copies. *)
<1>12. ASSUME NEW c \in 0 .. x.acols - 1, NEW r \in 0 .. x.arows - 1
       PROVE  Has(z, r, c) <=> IF Within(x, r, c) THEN <<r - x.ro, c - x.co>> \in N ELSE Has(x, r, c)
  <2>1. c \in Int /\ r \in Int
    BY <1>1
  <2>2. /\ Has(z, r, c) <=> Has(t, r, c)
        /\ Has(w, r, c) <=> Has(x, r, c)
        /\ Has(g, r, c) <=> Has(y, r, c)
        /\ \A h : (Has(f, r, h) <=> Has(x, r, h)) /\ (Has(w, r, h) <=> Has(x, r, h))
    BY <1>3, <1>4, <1>7, <1>11 DEF Moved
  <2>3. /\ Within(w, r, c) <=> (Within(x, r, c) /\ c - x.co = c1)
        /\ Within(g, r, c) <=> (Within(x, r, c) /\ c - x.co = c2)
    BY <1>1, <1>3, <1>7, <2>1 DEF Within
  <2>4. /\ Has(t, r, c) <=> IF Within(g, r, c) THEN <<r - g.ro, c - g.co>> \in Ones(w) ELSE Has(g, r, c)
        /\ Has(y, r, c) <=> IF Within(w, r, c) THEN <<r - w.ro, c - w.co>> \in Ones(f) ELSE Has(w, r, c)
    BY <1>3, <1>5, <1>7, <1>9 DEF Written
  <2>5. CASE ~Within(x, r, c)
    BY <2>2, <2>3, <2>4, <2>5
  <2>6. CASE Within(x, r, c)
    <3> DEFINE j == c - x.co i == r - x.ro h == Grid!Swapped(c1, c2, j)
    <3>1. j \in 0 .. x.cols - 1 /\ i \in 0 .. x.rows - 1 /\ j \in Int /\ i \in Int
          /\ j + x.co = c /\ i + x.ro = r
      BY <1>1, <2>1, <2>6 DEF Within
    <3> HIDE DEF j, i
    <3>2. <<i, j>> \in N <=> <<i, h>> \in Ones(x)
      <4>1. ASSUME NEW e \in Ones(x), <<i, j>> = <<e[1], Grid!Swapped(c1, c2, e[2])>>
            PROVE  <<i, h>> \in Ones(x)
        <5>1. e = <<e[1], e[2]>>
          BY DEF Ones, Places
        <5>2. j = Grid!Swapped(c1, c2, e[2]) /\ i = e[1]
          BY <4>1
        <5>3. h = e[2]
          BY ONLY <5>2 DEF Grid!Swapped, h
        <5> QED BY <5>1, <5>2, <5>3
      <4>2. ASSUME <<i, h>> \in Ones(x) PROVE <<i, j>> \in N
        <5>1. j = Grid!Swapped(c1, c2, h)
          BY DEF Grid!Swapped
        <5> HIDE DEF h
        <5>2. <<i, h>>[2] = h /\ <<i, h>>[1] = i
          OBVIOUS
        <5> QED BY <4>2, <5>1, <5>2
      <4> QED BY <4>1, <4>2
    <3>3. h \in 0 .. x.cols - 1 /\ h \in Int
      BY <1>1, <3>1 DEF Grid!Swapped
    <3>4. <<i, h>> \in Ones(x) <=> Has(x, r, h + x.co)
      <4> HIDE DEF h
      <4> QED BY <1>1, <3>1, <3>3, OnesAt
    <3>5. <<i, 0>> \in Ones(w) <=> Has(x, r, c1 + x.co)
      <4>1. 0 \in 0 .. w.cols - 1 /\ i \in 0 .. w.rows - 1 /\ 0 + w.co = c1 + x.co /\ i + w.ro = r
        BY <1>1, <1>3, <3>1
      <4>2. <<i, 0>> \in Ones(w) <=> Has(w, i + w.ro, 0 + w.co)
        BY <1>3, <3>1, <4>1, OnesAt
      <4> QED BY <2>2, <4>1, <4>2
    <3>6. <<i, 0>> \in Ones(f) <=> Has(x, r, c2 + x.co)
      <4>1. 0 \in 0 .. f.cols - 1 /\ i \in 0 .. f.rows - 1 /\ 0 + f.co = c2 + x.co /\ i + f.ro = r
        BY <1>1, <1>4, <3>1
      <4>2. <<i, 0>> \in Ones(f) <=> Has(f, i + f.ro, 0 + f.co)
        BY <1>4, <3>1, <4>1, OnesAt
      <4> QED BY <2>2, <4>1, <4>2
    <3>7. Has(z, r, c) <=> Has(x, r, h + x.co)
      <4>1. CASE j = c2
        <5>1. Within(g, r, c) /\ c - g.co = 0 /\ r - g.ro = i /\ h = c1
          BY <1>1, <1>7, <2>1, <2>3, <2>6, <4>1 DEF j, i, Grid!Swapped
        <5> QED BY <2>2, <2>4, <3>5, <5>1
      <4>2. CASE j # c2 /\ j = c1
        <5>1. Within(w, r, c) /\ ~Within(g, r, c) /\ c - w.co = 0 /\ r - w.ro = i /\ h = c2
          BY <1>1, <1>3, <2>1, <2>3, <2>6, <4>2 DEF j, i, Grid!Swapped
        <5> QED BY <2>2, <2>4, <3>6, <5>1
      <4>3. CASE j # c2 /\ j # c1
        <5>1. ~Within(w, r, c) /\ ~Within(g, r, c) /\ h + x.co = c
          BY <2>3, <3>1, <4>3 DEF j, Grid!Swapped
        <5> QED BY <2>2, <2>4, <5>1
      <4> QED BY <4>1, <4>2, <4>3
    <3> HIDE DEF h, N
    <3> QED BY <2>6, <3>2, <3>4, <3>7 DEF j, i
  <2> QED BY <2>5, <2>6
<1>13. Written(z, x, N)
  BY <1>11, <1>12 DEF Written, Framed
<1>14. N \subseteq Places(x)
  <2>1. ASSUME NEW e \in Ones(x) PROVE <<e[1], Grid!Swapped(c1, c2, e[2])>> \in Places(x)
    <3>1. e[2] \in 0 .. x.cols - 1 /\ e[1] \in 0 .. x.rows - 1
      BY DEF Ones, Places
    <3>2. Grid!Swapped(c1, c2, e[2]) \in 0 .. x.cols - 1
      BY <3>1 DEF Grid!Swapped
    <3> QED BY <3>1, <3>2 DEF Places
  <2> QED BY <2>1
<1> HIDE DEF N
<1> QED BY <1>1, <1>2, <1>13, <1>14, PaintIs DEF N, ColumnsSwapped

(* z is x with n new rows of v at s.                                       *)
RowsInserted(z, x, s, n, v) ==
  /\ Formed(z)
  /\ Cells(z)
     = IF s < 0 \/ s > x.rows THEN Cells(x)
       ELSE Grid!Fresh(x.rows + n, x.cols,
              {<<IF p[1] < s THEN p[1] ELSE p[1] + n, p[2]>> : p \in Ones(x)}
              \cup IF v THEN (s .. s + n - 1) \X (0 .. x.cols - 1) ELSE {})

(* Inserting rows gives a new matrix in three copies.                      *)
LEMMA InsertRowsIs ==
  ASSUME LongBits = WordBits, NEW x, Region(x), NEW s \in Int, NEW n \in Nat \ {0}, NEW v \in BOOLEAN
  PROVE  RowsInserted(InsertRows(x, s, n, v), x, s, n, v)
<1>1. /\ x.rows \in Nat /\ x.cols \in Nat /\ x.ro \in Nat /\ x.co \in Nat
      /\ x.arows \in Nat /\ x.acols \in Nat /\ Formed(x) /\ n \in Nat /\ n > 0
      /\ x.ro + x.rows <= x.arows /\ x.co + x.cols <= x.acols
  BY DEF Region, Formed
<1>2. CASE s < 0 \/ s > x.rows
  BY <1>1, <1>2 DEF InsertRows, RowsInserted
<1>3. CASE ~(s < 0 \/ s > x.rows)
  <2> DEFINE H == x.rows + n
             low == x.rows - s
             N == {<<IF p[1] < s THEN p[1] ELSE p[1] + n, p[2]>> : p \in Ones(x)}
                  \cup IF v THEN (s .. s + n - 1) \X (0 .. x.cols - 1) ELSE {}
             t == Setup(H, x.cols, FALSE)
             f == Offset(t, 0, 0, s, x.cols)
             g == Offset(x, 0, 0, s, x.cols)
             h == Assign(f, g)
             k == Offset(h, s, 0, n, x.cols)
             l == Fill(k, v)
             o == Offset(l, n, 0, low, x.cols)
             u == Offset(x, s, 0, low, x.cols)
             w == Assign(o, u)
             z == Offset(w, -(s + n), 0, H, x.cols)
  <2>1. s \in Nat /\ s <= x.rows /\ H \in Nat /\ low \in Nat /\ s + low = x.rows /\ s + n + low = H
    BY <1>1, <1>3
  <2>2. InsertRows(x, s, n, v) = z
    <3>1. ~(n <= 0 \/ s < 0 \/ s > x.rows)
      BY <1>1, <1>3
    <3> QED BY <3>1 DEF InsertRows
  <2> HIDE DEF H, low, z
  <2>3. /\ Allocated(t, H, x.cols) /\ Region(t) /\ Formed(t) /\ t.rows = H /\ t.cols = x.cols
        /\ t.ro = 0 /\ t.co = 0 /\ t.arows = H /\ t.acols = x.cols
    <3>1. Allocated(t, H, x.cols)
      BY DEF Allocated
    <3> HIDE DEF t
    <3>2. /\ Formed(t) /\ t.rows = H /\ t.cols = x.cols
          /\ t.ro = 0 /\ t.co = 0 /\ t.arows = H /\ t.acols = x.cols
      BY <1>1, <2>1, <3>1, AllocatedIs
    <3>3. Region(t)
      BY <1>1, <2>1, <3>2 DEF Region
    <3> QED BY <3>1, <3>2, <3>3
  <2> HIDE DEF t
  <2>4. /\ Moved(f, t, 0, 0, s, x.cols)
        /\ Region(f) /\ Formed(f) /\ f.rows = s /\ f.cols = x.cols /\ f.ro = 0 /\ f.co = 0
        /\ f.arows = H /\ f.acols = x.cols
    <3>1. CanMove(t, 0, 0, s, x.cols)
      BY <1>1, <2>1, <2>3 DEF CanMove
    <3>2. Moved(f, t, 0, 0, s, x.cols)
      BY <2>3, <3>1, MovedIs
    <3> HIDE DEF f
    <3> QED BY <2>3, <3>2 DEF Moved
  <2> HIDE DEF f
  <2>5. /\ Moved(g, x, 0, 0, s, x.cols)
        /\ Region(g) /\ Formed(g) /\ g.rows = s /\ g.cols = x.cols /\ g.ro = x.ro /\ g.co = x.co
    <3>1. CanMove(x, 0, 0, s, x.cols)
      BY <1>1, <2>1 DEF CanMove
    <3>2. Moved(g, x, 0, 0, s, x.cols)
      BY <1>1, <3>1, MovedIs
    <3> HIDE DEF g
    <3> QED BY <1>1, <3>2 DEF Moved
  <2> HIDE DEF g
  <2>6. Written(h, f, Ones(g))
    BY <2>4, <2>5, AssignWrites DEF SameSize
  <2> HIDE DEF h
  <2>7. Formed(h) /\ h.ro = 0 /\ h.co = 0 /\ h.arows = H /\ h.acols = x.cols
    BY <2>4, <2>6 DEF Written, Framed
  <2>8. /\ Moved(k, h, s, 0, n, x.cols)
        /\ Region(k) /\ Formed(k) /\ k.rows = n /\ k.cols = x.cols /\ k.ro = s /\ k.co = 0
        /\ k.arows = H /\ k.acols = x.cols
    <3>1. CanMove(h, s, 0, n, x.cols)
      BY <1>1, <2>1, <2>7 DEF CanMove
    <3>2. Moved(k, h, s, 0, n, x.cols)
      BY <2>7, <3>1, MovedIs
    <3> HIDE DEF k
    <3> QED BY <2>1, <2>7, <3>2 DEF Moved
  <2> HIDE DEF k
  <2>9. Written(l, k, IF v THEN Places(k) ELSE {})
    BY <2>8, FillWrites
  <2> HIDE DEF l
  <2>10. Formed(l) /\ l.ro = s /\ l.co = 0 /\ l.arows = H /\ l.acols = x.cols
    BY <2>8, <2>9 DEF Written, Framed
  <2>11. /\ Moved(o, l, n, 0, low, x.cols)
         /\ Region(o) /\ Formed(o) /\ o.rows = low /\ o.cols = x.cols /\ o.ro = s + n /\ o.co = 0
         /\ o.arows = H /\ o.acols = x.cols
    <3>1. CanMove(l, n, 0, low, x.cols)
      BY <1>1, <2>1, <2>10 DEF CanMove
    <3>2. Moved(o, l, n, 0, low, x.cols)
      BY <2>10, <3>1, MovedIs
    <3> HIDE DEF o
    <3> QED BY <2>1, <2>10, <3>2 DEF Moved
  <2> HIDE DEF o
  <2>12. /\ Moved(u, x, s, 0, low, x.cols)
         /\ Region(u) /\ Formed(u) /\ u.rows = low /\ u.cols = x.cols /\ u.ro = x.ro + s /\ u.co = x.co
    <3>1. CanMove(x, s, 0, low, x.cols)
      BY <1>1, <2>1 DEF CanMove
    <3>2. Moved(u, x, s, 0, low, x.cols)
      BY <1>1, <3>1, MovedIs
    <3> HIDE DEF u
    <3> QED BY <1>1, <3>2 DEF Moved
  <2> HIDE DEF u
  <2>13. Written(w, o, Ones(u))
    BY <2>11, <2>12, AssignWrites DEF SameSize
  <2> HIDE DEF w
  <2>14. Formed(w) /\ w.ro = s + n /\ w.co = 0 /\ w.arows = H /\ w.acols = x.cols
    BY <2>11, <2>13 DEF Written, Framed
  <2>15. /\ Moved(z, w, -(s + n), 0, H, x.cols)
         /\ Formed(z) /\ z.rows = H /\ z.cols = x.cols /\ z.ro = 0 /\ z.co = 0
         /\ z.arows = H /\ z.acols = x.cols
    <3>1. CanMove(w, -(s + n), 0, H, x.cols)
      BY <1>1, <2>1, <2>14 DEF CanMove
    <3>2. Moved(z, w, -(s + n), 0, H, x.cols)
      BY <2>14, <3>1, MovedIs DEF z
    <3> QED BY <1>1, <2>1, <2>14, <3>2 DEF Moved
  (* The cells of the three windows. *)
  <2>16. ASSUME NEW r \in 0 .. H - 1, NEW c \in 0 .. x.cols - 1
         PROVE  Has(z, r, c) <=> <<r, c>> \in N
    <3>1. r \in Int /\ c \in Int /\ 0 <= r /\ r < H /\ 0 <= c /\ c < x.cols
      BY <1>1, <2>1
    <3>2. /\ Within(f, r, c) <=> r < s
          /\ Within(k, r, c) <=> (s <= r /\ r < s + n)
          /\ Within(o, r, c) <=> s + n <= r
      BY <1>1, <2>1, <2>4, <2>8, <2>11, <3>1 DEF Within
    <3>3. /\ Has(z, r, c) <=> IF Within(o, r, c) THEN <<r - (s + n), c>> \in Ones(u) ELSE Has(l, r, c)
          /\ Has(l, r, c) <=> IF Within(k, r, c) THEN v ELSE Has(h, r, c)
          /\ Has(h, r, c) <=> IF Within(f, r, c) THEN <<r, c>> \in Ones(g) ELSE Has(t, r, c)
      <4>1. /\ Has(z, r, c) <=> Has(w, r, c)
            /\ Has(o, r, c) <=> Has(l, r, c)
            /\ Has(k, r, c) <=> Has(h, r, c)
            /\ Has(f, r, c) <=> Has(t, r, c)
        BY <2>4, <2>8, <2>11, <2>15 DEF Moved
      <4>2. /\ Has(w, r, c) <=> IF Within(o, r, c) THEN <<r - o.ro, c - o.co>> \in Ones(u) ELSE Has(o, r, c)
            /\ Has(l, r, c) <=> IF Within(k, r, c)
                                THEN <<r - k.ro, c - k.co>> \in (IF v THEN Places(k) ELSE {})
                                ELSE Has(k, r, c)
            /\ Has(h, r, c) <=> IF Within(f, r, c) THEN <<r - f.ro, c - f.co>> \in Ones(g) ELSE Has(f, r, c)
        BY <2>4, <2>6, <2>8, <2>9, <2>11, <2>13 DEF Written
      <4>3. Within(k, r, c) => <<r - k.ro, c - k.co>> \in Places(k)
        BY <2>8, <3>1, WithinPlaces
      <4>4. r - o.ro = r - (s + n) /\ c - o.co = c /\ r - f.ro = r /\ c - f.co = c
        BY <2>4, <2>11, <3>1
      <4> QED BY <4>1, <4>2, <4>3, <4>4
    <3>4. <<r, c>> \in N <=> \/ \E p \in Ones(x) : r = (IF p[1] < s THEN p[1] ELSE p[1] + n) /\ c = p[2]
                             \/ v /\ s <= r /\ r < s + n
      BY <2>1, <3>1
    <3>5. \A p \in Ones(x) : /\ p = <<p[1], p[2]>>
                             /\ p[1] \in Int /\ 0 <= p[1] /\ p[1] < x.rows
                             /\ p[2] \in Int /\ 0 <= p[2] /\ p[2] < x.cols
      BY <1>1 DEF Ones, Places
    <3> HIDE DEF N
    <3>6. CASE r < s
      <4>1. <<r, c>> \in Ones(g) <=> <<r, c>> \in Ones(x)
        <5>1. /\ <<r, c>> \in Ones(g)
                   <=> (r \in 0 .. g.rows - 1 /\ c \in 0 .. g.cols - 1 /\ Has(g, r + g.ro, c + g.co))
              /\ <<r, c>> \in Ones(x)
                   <=> (r \in 0 .. x.rows - 1 /\ c \in 0 .. x.cols - 1 /\ Has(x, r + x.ro, c + x.co))
          BY <1>1, <2>5, <3>1, OnesAt
        <5>2. Has(g, r + g.ro, c + g.co) <=> Has(x, r + x.ro, c + x.co)
          BY <2>5 DEF Moved
        <5>3. r \in 0 .. g.rows - 1 /\ c \in 0 .. g.cols - 1 /\ r \in 0 .. x.rows - 1 /\ c \in 0 .. x.cols - 1
          BY <1>1, <2>1, <2>5, <3>1, <3>6
        <5> QED BY <5>1, <5>2, <5>3
      <4>2. <<r, c>> \in N <=> <<r, c>> \in Ones(x)
        <5>1. \A p \in Ones(x) : r = (IF p[1] < s THEN p[1] ELSE p[1] + n) => r = p[1]
          BY <1>1, <2>1, <3>1, <3>5, <3>6
        <5>2. <<r, c>>[1] = r /\ <<r, c>>[2] = c
          OBVIOUS
        <5>3. <<r, c>> \in Ones(x) => <<r, c>> \in N
          BY <3>4, <3>6, <5>2
        <5>4. ~(s <= r /\ r < s + n)
          BY <2>1, <3>1, <3>6
        <5> QED BY <3>4, <3>5, <5>1, <5>3, <5>4
      <4> QED BY <1>1, <2>1, <3>1, <3>2, <3>3, <3>6, <4>1, <4>2
    <3>7. CASE s <= r /\ r < s + n
      <4>1. \A p \in Ones(x) : r # (IF p[1] < s THEN p[1] ELSE p[1] + n)
        BY <1>1, <2>1, <3>1, <3>5, <3>7
      <4>2. <<r, c>> \in N <=> v
        BY <3>4, <3>7, <4>1
      <4> QED BY <1>1, <2>1, <3>1, <3>2, <3>3, <3>7, <4>2
    <3>8. CASE s + n <= r
      <4> DEFINE i == r - (s + n) e == r - n
      <4>1. /\ i \in Int /\ i \in 0 .. low - 1 /\ e \in Int /\ e \in 0 .. x.rows - 1 /\ ~(e < s)
            /\ e + n = r /\ i + s = e
        BY <1>1, <2>1, <3>1, <3>8
      <4> HIDE DEF i, e
      <4>2. <<i, c>> \in Ones(u) <=> <<e, c>> \in Ones(x)
        <5>1. /\ <<i, c>> \in Ones(u)
                   <=> (i \in 0 .. u.rows - 1 /\ c \in 0 .. u.cols - 1 /\ Has(u, i + u.ro, c + u.co))
              /\ <<e, c>> \in Ones(x)
                   <=> (e \in 0 .. x.rows - 1 /\ c \in 0 .. x.cols - 1 /\ Has(x, e + x.ro, c + x.co))
          BY <1>1, <2>12, <3>1, <4>1, OnesAt
        <5>2. i + u.ro = e + x.ro /\ c + u.co = c + x.co
          BY <1>1, <2>1, <2>12, <4>1
        <5>3. Has(u, i + u.ro, c + u.co) <=> Has(x, e + x.ro, c + x.co)
          BY <2>12, <5>2 DEF Moved
        <5> QED BY <2>12, <4>1, <5>1, <5>3
      <4>3. <<r, c>> \in N <=> <<e, c>> \in Ones(x)
        <5>1. \A p \in Ones(x) : r = (IF p[1] < s THEN p[1] ELSE p[1] + n) => e = p[1]
          BY <1>1, <2>1, <3>1, <3>5, <3>8, <4>1
        <5>2. <<e, c>>[1] = e /\ <<e, c>>[2] = c
          OBVIOUS
        <5>3. <<e, c>> \in Ones(x) => <<r, c>> \in N
          BY <3>4, <4>1, <5>2
        <5>4. ~(s <= r /\ r < s + n)
          BY <1>1, <2>1, <3>1, <3>8
        <5> QED BY <3>4, <3>5, <5>1, <5>3, <5>4
      <4> QED BY <3>2, <3>3, <3>8, <4>2, <4>3 DEF i
    <3> QED BY <1>1, <2>1, <3>1, <3>6, <3>7, <3>8
  <2>17. Fits(N, H, x.cols)
    <3>1. ASSUME NEW p \in Ones(x)
          PROVE  <<IF p[1] < s THEN p[1] ELSE p[1] + n, p[2]>> \in (0 .. H - 1) \X (0 .. x.cols - 1)
      <4>1. p[1] \in 0 .. x.rows - 1 /\ p[2] \in 0 .. x.cols - 1
        BY DEF Ones, Places
      <4>2. (IF p[1] < s THEN p[1] ELSE p[1] + n) \in 0 .. H - 1
        BY <1>1, <2>1, <4>1 DEF H
      <4> QED BY <4>1, <4>2
    <3>2. (s .. s + n - 1) \X (0 .. x.cols - 1) \subseteq (0 .. H - 1) \X (0 .. x.cols - 1)
      <4>1. s .. s + n - 1 \subseteq 0 .. H - 1
        BY <1>1, <2>1 DEF H
      <4> QED BY <4>1
    <3> QED BY <3>1, <3>2 DEF Fits
  <2> HIDE DEF N
  <2>18. Written(z, t, N)
    <3>1. ASSUME NEW r \in 0 .. t.arows - 1, NEW c \in 0 .. t.acols - 1
          PROVE  Has(z, r, c) <=> IF Within(t, r, c) THEN <<r - t.ro, c - t.co>> \in N ELSE Has(t, r, c)
      <4>1. Within(t, r, c) /\ r - t.ro = r /\ c - t.co = c
        BY <1>1, <2>1, <2>3 DEF Within
      <4> QED BY <2>3, <2>16, <4>1
    <3> QED BY <2>3, <2>15, <3>1 DEF Written, Framed
  <2>19. Formed(z) /\ Cells(z) = Grid!Fresh(H, x.cols, N)
    BY <1>1, <2>1, <2>3, <2>17, <2>18, FreshIs
  <2> QED BY <1>3, <2>2, <2>19 DEF N, H, RowsInserted
<1> QED BY <1>2, <1>3

(* z is x with n new columns of v at s.                                    *)
ColumnsInserted(z, x, s, n, v) ==
  /\ Formed(z)
  /\ Cells(z)
     = IF s < 0 \/ s > x.cols THEN Cells(x)
       ELSE Grid!Fresh(x.rows, x.cols + n, {<<p[1], IF p[2] < s THEN p[2] ELSE p[2] + n>> : p \in Ones(x)}
              \cup IF v THEN (0 .. x.rows - 1) \X (s .. s + n - 1) ELSE {})

(* Inserting columns does so, too.                                         *)
LEMMA InsertColumnsIs ==
  ASSUME LongBits = WordBits, NEW x, Region(x), NEW s \in Int, NEW n \in Nat \ {0}, NEW v \in BOOLEAN
  PROVE  ColumnsInserted(InsertColumns(x, s, n, v), x, s, n, v)
<1>1. /\ x.cols \in Nat /\ x.rows \in Nat /\ x.co \in Nat /\ x.ro \in Nat
      /\ x.acols \in Nat /\ x.arows \in Nat /\ Formed(x) /\ n \in Nat /\ n > 0
      /\ x.co + x.cols <= x.acols /\ x.ro + x.rows <= x.arows
  BY DEF Region, Formed
<1>2. CASE s < 0 \/ s > x.cols
  BY <1>1, <1>2 DEF InsertColumns, ColumnsInserted
<1>3. CASE ~(s < 0 \/ s > x.cols)
  <2> DEFINE H == x.cols + n
             low == x.cols - s
             N == {<<p[1], IF p[2] < s THEN p[2] ELSE p[2] + n>> : p \in Ones(x)}
                  \cup IF v THEN (0 .. x.rows - 1) \X (s .. s + n - 1) ELSE {}
             t == Setup(x.rows, H, FALSE)
             f == Offset(t, 0, 0, x.rows, s)
             g == Offset(x, 0, 0, x.rows, s)
             h == Assign(f, g)
             k == Offset(h, 0, s, x.rows, n)
             l == Fill(k, v)
             o == Offset(l, 0, n, x.rows, low)
             u == Offset(x, 0, s, x.rows, low)
             w == Assign(o, u)
             z == Offset(w, 0, -(s + n), x.rows, H)
  <2>1. s \in Nat /\ s <= x.cols /\ H \in Nat /\ low \in Nat /\ s + low = x.cols /\ s + n + low = H
    BY <1>1, <1>3
  <2>2. InsertColumns(x, s, n, v) = z
    <3>1. ~(n <= 0 \/ s < 0 \/ s > x.cols)
      BY <1>1, <1>3
    <3> QED BY <3>1 DEF InsertColumns
  <2> HIDE DEF H, low, z
  <2>3. /\ Allocated(t, x.rows, H) /\ Region(t) /\ Formed(t) /\ t.cols = H /\ t.rows = x.rows
        /\ t.co = 0 /\ t.ro = 0 /\ t.acols = H /\ t.arows = x.rows
    <3>1. Allocated(t, x.rows, H)
      BY DEF Allocated
    <3> HIDE DEF t
    <3>2. /\ Formed(t) /\ t.cols = H /\ t.rows = x.rows
          /\ t.co = 0 /\ t.ro = 0 /\ t.acols = H /\ t.arows = x.rows
      BY <1>1, <2>1, <3>1, AllocatedIs
    <3>3. Region(t)
      BY <1>1, <2>1, <3>2 DEF Region
    <3> QED BY <3>1, <3>2, <3>3
  <2> HIDE DEF t
  <2>4. /\ Moved(f, t, 0, 0, x.rows, s)
        /\ Region(f) /\ Formed(f) /\ f.cols = s /\ f.rows = x.rows /\ f.co = 0 /\ f.ro = 0
        /\ f.acols = H /\ f.arows = x.rows
    <3>1. CanMove(t, 0, 0, x.rows, s)
      BY <1>1, <2>1, <2>3 DEF CanMove
    <3>2. Moved(f, t, 0, 0, x.rows, s)
      BY <2>3, <3>1, MovedIs
    <3> HIDE DEF f
    <3> QED BY <2>3, <3>2 DEF Moved
  <2> HIDE DEF f
  <2>5. /\ Moved(g, x, 0, 0, x.rows, s)
        /\ Region(g) /\ Formed(g) /\ g.cols = s /\ g.rows = x.rows /\ g.co = x.co /\ g.ro = x.ro
    <3>1. CanMove(x, 0, 0, x.rows, s)
      BY <1>1, <2>1 DEF CanMove
    <3>2. Moved(g, x, 0, 0, x.rows, s)
      BY <1>1, <3>1, MovedIs
    <3> HIDE DEF g
    <3> QED BY <1>1, <3>2 DEF Moved
  <2> HIDE DEF g
  <2>6. Written(h, f, Ones(g))
    BY <2>4, <2>5, AssignWrites DEF SameSize
  <2> HIDE DEF h
  <2>7. Formed(h) /\ h.co = 0 /\ h.ro = 0 /\ h.acols = H /\ h.arows = x.rows
    BY <2>4, <2>6 DEF Written, Framed
  <2>8. /\ Moved(k, h, 0, s, x.rows, n)
        /\ Region(k) /\ Formed(k) /\ k.cols = n /\ k.rows = x.rows /\ k.co = s /\ k.ro = 0
        /\ k.acols = H /\ k.arows = x.rows
    <3>1. CanMove(h, 0, s, x.rows, n)
      BY <1>1, <2>1, <2>7 DEF CanMove
    <3>2. Moved(k, h, 0, s, x.rows, n)
      BY <2>7, <3>1, MovedIs
    <3> HIDE DEF k
    <3> QED BY <2>1, <2>7, <3>2 DEF Moved
  <2> HIDE DEF k
  <2>9. Written(l, k, IF v THEN Places(k) ELSE {})
    BY <2>8, FillWrites
  <2> HIDE DEF l
  <2>10. Formed(l) /\ l.co = s /\ l.ro = 0 /\ l.acols = H /\ l.arows = x.rows
    BY <2>8, <2>9 DEF Written, Framed
  <2>11. /\ Moved(o, l, 0, n, x.rows, low)
         /\ Region(o) /\ Formed(o) /\ o.cols = low /\ o.rows = x.rows /\ o.co = s + n /\ o.ro = 0
         /\ o.acols = H /\ o.arows = x.rows
    <3>1. CanMove(l, 0, n, x.rows, low)
      BY <1>1, <2>1, <2>10 DEF CanMove
    <3>2. Moved(o, l, 0, n, x.rows, low)
      BY <2>10, <3>1, MovedIs
    <3> HIDE DEF o
    <3> QED BY <2>1, <2>10, <3>2 DEF Moved
  <2> HIDE DEF o
  <2>12. /\ Moved(u, x, 0, s, x.rows, low)
         /\ Region(u) /\ Formed(u) /\ u.cols = low /\ u.rows = x.rows /\ u.co = x.co + s /\ u.ro = x.ro
    <3>1. CanMove(x, 0, s, x.rows, low)
      BY <1>1, <2>1 DEF CanMove
    <3>2. Moved(u, x, 0, s, x.rows, low)
      BY <1>1, <3>1, MovedIs
    <3> HIDE DEF u
    <3> QED BY <1>1, <3>2 DEF Moved
  <2> HIDE DEF u
  <2>13. Written(w, o, Ones(u))
    BY <2>11, <2>12, AssignWrites DEF SameSize
  <2> HIDE DEF w
  <2>14. Formed(w) /\ w.co = s + n /\ w.ro = 0 /\ w.acols = H /\ w.arows = x.rows
    BY <2>11, <2>13 DEF Written, Framed
  <2>15. /\ Moved(z, w, 0, -(s + n), x.rows, H)
         /\ Formed(z) /\ z.cols = H /\ z.rows = x.rows /\ z.co = 0 /\ z.ro = 0
         /\ z.acols = H /\ z.arows = x.rows
    <3>1. CanMove(w, 0, -(s + n), x.rows, H)
      BY <1>1, <2>1, <2>14 DEF CanMove
    <3>2. Moved(z, w, 0, -(s + n), x.rows, H)
      BY <2>14, <3>1, MovedIs DEF z
    <3> QED BY <1>1, <2>1, <2>14, <3>2 DEF Moved
  (* The cells of the three windows. *)
  <2>16. ASSUME NEW c \in 0 .. H - 1, NEW r \in 0 .. x.rows - 1
         PROVE  Has(z, r, c) <=> <<r, c>> \in N
    <3>1. c \in Int /\ r \in Int /\ 0 <= c /\ c < H /\ 0 <= r /\ r < x.rows
      BY <1>1, <2>1
    <3>2. /\ Within(f, r, c) <=> c < s
          /\ Within(k, r, c) <=> (s <= c /\ c < s + n)
          /\ Within(o, r, c) <=> s + n <= c
      BY <1>1, <2>1, <2>4, <2>8, <2>11, <3>1 DEF Within
    <3>3. /\ Has(z, r, c) <=> IF Within(o, r, c) THEN <<r, c - (s + n)>> \in Ones(u) ELSE Has(l, r, c)
          /\ Has(l, r, c) <=> IF Within(k, r, c) THEN v ELSE Has(h, r, c)
          /\ Has(h, r, c) <=> IF Within(f, r, c) THEN <<r, c>> \in Ones(g) ELSE Has(t, r, c)
      <4>1. /\ Has(z, r, c) <=> Has(w, r, c)
            /\ Has(o, r, c) <=> Has(l, r, c)
            /\ Has(k, r, c) <=> Has(h, r, c)
            /\ Has(f, r, c) <=> Has(t, r, c)
        BY <2>4, <2>8, <2>11, <2>15 DEF Moved
      <4>2. /\ Has(w, r, c) <=> IF Within(o, r, c) THEN <<r - o.ro, c - o.co>> \in Ones(u) ELSE Has(o, r, c)
            /\ Has(l, r, c) <=> IF Within(k, r, c)
                                THEN <<r - k.ro, c - k.co>> \in (IF v THEN Places(k) ELSE {})
                                ELSE Has(k, r, c)
            /\ Has(h, r, c) <=> IF Within(f, r, c) THEN <<r - f.ro, c - f.co>> \in Ones(g) ELSE Has(f, r, c)
        BY <2>4, <2>6, <2>8, <2>9, <2>11, <2>13 DEF Written
      <4>3. Within(k, r, c) => <<r - k.ro, c - k.co>> \in Places(k)
        BY <2>8, <3>1, WithinPlaces
      <4>4. c - o.co = c - (s + n) /\ r - o.ro = r /\ c - f.co = c /\ r - f.ro = r
        BY <2>4, <2>11, <3>1
      <4> QED BY <4>1, <4>2, <4>3, <4>4
    <3>4. <<r, c>> \in N <=> \/ \E p \in Ones(x) : c = (IF p[2] < s THEN p[2] ELSE p[2] + n) /\ r = p[1]
                             \/ v /\ s <= c /\ c < s + n
      BY <2>1, <3>1
    <3>5. \A p \in Ones(x) : /\ p = <<p[1], p[2]>>
                             /\ p[2] \in Int /\ 0 <= p[2] /\ p[2] < x.cols
                             /\ p[1] \in Int /\ 0 <= p[1] /\ p[1] < x.rows
      BY <1>1 DEF Ones, Places
    <3> HIDE DEF N
    <3>6. CASE c < s
      <4>1. <<r, c>> \in Ones(g) <=> <<r, c>> \in Ones(x)
        <5>1. /\ <<r, c>> \in Ones(g)
                   <=> (c \in 0 .. g.cols - 1 /\ r \in 0 .. g.rows - 1 /\ Has(g, r + g.ro, c + g.co))
              /\ <<r, c>> \in Ones(x)
                   <=> (c \in 0 .. x.cols - 1 /\ r \in 0 .. x.rows - 1 /\ Has(x, r + x.ro, c + x.co))
          BY <1>1, <2>5, <3>1, OnesAt
        <5>2. Has(g, r + g.ro, c + g.co) <=> Has(x, r + x.ro, c + x.co)
          BY <2>5 DEF Moved
        <5>3. c \in 0 .. g.cols - 1 /\ r \in 0 .. g.rows - 1 /\ c \in 0 .. x.cols - 1 /\ r \in 0 .. x.rows - 1
          BY <1>1, <2>1, <2>5, <3>1, <3>6
        <5> QED BY <5>1, <5>2, <5>3
      <4>2. <<r, c>> \in N <=> <<r, c>> \in Ones(x)
        <5>1. \A p \in Ones(x) : c = (IF p[2] < s THEN p[2] ELSE p[2] + n) => c = p[2]
          BY <1>1, <2>1, <3>1, <3>5, <3>6
        <5>2. <<r, c>>[2] = c /\ <<r, c>>[1] = r
          OBVIOUS
        <5>3. <<r, c>> \in Ones(x) => <<r, c>> \in N
          BY <3>4, <3>6, <5>2
        <5>4. ~(s <= c /\ c < s + n)
          BY <2>1, <3>1, <3>6
        <5> QED BY <3>4, <3>5, <5>1, <5>3, <5>4
      <4> QED BY <1>1, <2>1, <3>1, <3>2, <3>3, <3>6, <4>1, <4>2
    <3>7. CASE s <= c /\ c < s + n
      <4>1. \A p \in Ones(x) : c # (IF p[2] < s THEN p[2] ELSE p[2] + n)
        BY <1>1, <2>1, <3>1, <3>5, <3>7
      <4>2. <<r, c>> \in N <=> v
        BY <3>4, <3>7, <4>1
      <4> QED BY <1>1, <2>1, <3>1, <3>2, <3>3, <3>7, <4>2
    <3>8. CASE s + n <= c
      <4> DEFINE j == c - (s + n) e == c - n
      <4>1. /\ j \in Int /\ j \in 0 .. low - 1 /\ e \in Int /\ e \in 0 .. x.cols - 1 /\ ~(e < s)
            /\ e + n = c /\ j + s = e
        BY <1>1, <2>1, <3>1, <3>8
      <4> HIDE DEF j, e
      <4>2. <<r, j>> \in Ones(u) <=> <<r, e>> \in Ones(x)
        <5>1. /\ <<r, j>> \in Ones(u)
                   <=> (j \in 0 .. u.cols - 1 /\ r \in 0 .. u.rows - 1 /\ Has(u, r + u.ro, j + u.co))
              /\ <<r, e>> \in Ones(x)
                   <=> (e \in 0 .. x.cols - 1 /\ r \in 0 .. x.rows - 1 /\ Has(x, r + x.ro, e + x.co))
          BY <1>1, <2>12, <3>1, <4>1, OnesAt
        <5>2. j + u.co = e + x.co /\ r + u.ro = r + x.ro
          BY <1>1, <2>1, <2>12, <4>1
        <5>3. Has(u, r + u.ro, j + u.co) <=> Has(x, r + x.ro, e + x.co)
          BY <2>12, <5>2 DEF Moved
        <5> QED BY <2>12, <4>1, <5>1, <5>3
      <4>3. <<r, c>> \in N <=> <<r, e>> \in Ones(x)
        <5>1. \A p \in Ones(x) : c = (IF p[2] < s THEN p[2] ELSE p[2] + n) => e = p[2]
          BY <1>1, <2>1, <3>1, <3>5, <3>8, <4>1
        <5>2. <<r, e>>[2] = e /\ <<r, e>>[1] = r
          OBVIOUS
        <5>3. <<r, e>> \in Ones(x) => <<r, c>> \in N
          BY <3>4, <4>1, <5>2
        <5>4. ~(s <= c /\ c < s + n)
          BY <1>1, <2>1, <3>1, <3>8
        <5> QED BY <3>4, <3>5, <5>1, <5>3, <5>4
      <4> QED BY <3>2, <3>3, <3>8, <4>2, <4>3 DEF j
    <3> QED BY <1>1, <2>1, <3>1, <3>6, <3>7, <3>8
  <2>17. Fits(N, x.rows, H)
    <3>1. ASSUME NEW p \in Ones(x)
          PROVE  <<p[1], IF p[2] < s THEN p[2] ELSE p[2] + n>> \in (0 .. x.rows - 1) \X (0 .. H - 1)
      <4>1. p[2] \in 0 .. x.cols - 1 /\ p[1] \in 0 .. x.rows - 1
        BY DEF Ones, Places
      <4>2. (IF p[2] < s THEN p[2] ELSE p[2] + n) \in 0 .. H - 1
        BY <1>1, <2>1, <4>1 DEF H
      <4> QED BY <4>1, <4>2
    <3>2. (0 .. x.rows - 1) \X (s .. s + n - 1) \subseteq (0 .. x.rows - 1) \X (0 .. H - 1)
      <4>1. s .. s + n - 1 \subseteq 0 .. H - 1
        BY <1>1, <2>1 DEF H
      <4> QED BY <4>1
    <3> QED BY <3>1, <3>2 DEF Fits
  <2> HIDE DEF N
  <2>18. Written(z, t, N)
    <3>1. ASSUME NEW c \in 0 .. t.acols - 1, NEW r \in 0 .. t.arows - 1
          PROVE  Has(z, r, c) <=> IF Within(t, r, c) THEN <<r - t.ro, c - t.co>> \in N ELSE Has(t, r, c)
      <4>1. Within(t, r, c) /\ c - t.co = c /\ r - t.ro = r
        BY <1>1, <2>1, <2>3 DEF Within
      <4> QED BY <2>3, <2>16, <4>1
    <3> QED BY <2>3, <2>15, <3>1 DEF Written, Framed
  <2>19. Formed(z) /\ Cells(z) = Grid!Fresh(x.rows, H, N)
    BY <1>1, <2>1, <2>3, <2>17, <2>18, FreshIs
  <2> QED BY <1>3, <2>2, <2>19 DEF N, H, ColumnsInserted
<1> QED BY <1>2, <1>3

(* The ones of x when it has r rows and c columns, and new cells are v. *)
Extended(x, r, c, v) ==
  (Ones(x) \cap ((0 .. r - 1) \X (0 .. c - 1)))
  \cup IF v THEN ((0 .. r - 1) \X (0 .. c - 1)) \ Places(x) ELSE {}

(* A greater or smaller matrix has what it had in common with the old one. *)
LEMMA GrowIs ==
  ASSUME LongBits = WordBits, NEW x, Region(x), NEW r \in Nat, NEW c \in Nat, NEW v \in BOOLEAN
  PROVE  /\ Formed(Grow(x, r, c, v))
         /\ Cells(Grow(x, r, c, v)) = Grid!Fresh(r, c, Extended(x, r, c, v))
<1> DEFINE new == (0 .. r - 1) \X (0 .. c - 1)
           N == (Ones(x) \cap new) \cup IF v THEN new \ Places(x) ELSE {}
           k == Lesser(r, x.rows)
           l == Lesser(c, x.cols)
           old == Offset(x, 0, 0, k, l)
           t == Setup(r, c, v)
           f == Offset(t, 0, 0, k, l)
           h == Assign(f, old)
           z == Grow(x, r, c, v)
<1>1. /\ x.rows \in Nat /\ x.cols \in Nat /\ x.ro \in Nat /\ x.co \in Nat
      /\ x.arows \in Nat /\ x.acols \in Nat /\ Formed(x)
      /\ x.ro + x.rows <= x.arows /\ x.co + x.cols <= x.acols
  BY DEF Region, Formed
<1>2. k \in Nat /\ l \in Nat /\ k <= r /\ k <= x.rows /\ l <= c /\ l <= x.cols
      /\ (k = r \/ k = x.rows) /\ (l = c \/ l = x.cols)
  BY <1>1 DEF Lesser
<1> HIDE DEF k, l
<1>3. /\ Moved(old, x, 0, 0, k, l)
      /\ Region(old) /\ Formed(old) /\ old.rows = k /\ old.cols = l /\ old.ro = x.ro /\ old.co = x.co
  <2>1. CanMove(x, 0, 0, k, l)
    BY <1>1, <1>2 DEF CanMove
  <2>2. Moved(old, x, 0, 0, k, l)
    BY <1>1, <2>1, MovedIs
  <2> HIDE DEF old
  <2> QED BY <1>1, <2>2 DEF Moved
<1>4. z = [Assign(Offset(t, 0, 0, old.rows, old.cols), old)
             EXCEPT !.ro = 0, !.co = 0, !.rows = r, !.cols = c]
  BY DEF Grow, k, l
<1> HIDE DEF old
<1>5. /\ Allocated(t, r, c) /\ Formed(t) /\ t.rows = r /\ t.cols = c
      /\ t.ro = 0 /\ t.co = 0 /\ t.arows = r /\ t.acols = c
      /\ \A i \in 0 .. r - 1, j \in 0 .. c - 1 : Has(t, i, j) <=> v
  <2>1. Allocated(t, r, c)
    BY DEF Allocated
  <2>2. \A i \in 0 .. r - 1, j \in 0 .. c - 1 : Has(t, i, j) <=> v
    BY SetupIs
  <2> HIDE DEF t
  <2> QED BY <2>1, <2>2, AllocatedIs
<1>6. z = [h EXCEPT !.ro = 0, !.co = 0, !.rows = r, !.cols = c]
  BY <1>3, <1>4
<1> HIDE DEF t, z
<1>7. /\ Moved(f, t, 0, 0, k, l)
      /\ Region(f) /\ Formed(f) /\ f.rows = k /\ f.cols = l /\ f.ro = 0 /\ f.co = 0
      /\ f.arows = r /\ f.acols = c
  <2>1. CanMove(t, 0, 0, k, l)
    BY <1>2, <1>5 DEF CanMove
  <2>2. Moved(f, t, 0, 0, k, l)
    BY <1>5, <2>1, MovedIs
  <2> HIDE DEF f
  <2> QED BY <1>5, <2>2 DEF Moved
<1> HIDE DEF f
<1>8. Written(h, f, Ones(old))
  BY <1>3, <1>7, AssignWrites DEF SameSize
<1> HIDE DEF h
<1>9. Formed(h) /\ h.ro = 0 /\ h.co = 0 /\ h.arows = r /\ h.acols = c
  BY <1>7, <1>8 DEF Written, Framed
<1>10. /\ Moved(z, h, 0, 0, r, c)
       /\ Formed(z) /\ z.rows = r /\ z.cols = c /\ z.ro = 0 /\ z.co = 0
       /\ z.arows = r /\ z.acols = c
  <2>1. CanMove(h, 0, 0, r, c)
    BY <1>9 DEF CanMove
  <2>2. z = Offset(h, 0, 0, r, c)
    <3>1. h.ro + 0 = 0 /\ h.co + 0 = 0
      BY <1>9
    <3>2. Offset(h, 0, 0, r, c) = [h EXCEPT !.ro = h.ro + 0, !.co = h.co + 0, !.rows = r, !.cols = c]
      BY DEF Offset
    <3> QED BY <1>6, <3>1, <3>2
  <2>3. Moved(z, h, 0, 0, r, c)
    BY <1>9, <2>1, <2>2, MovedIs
  <2> QED BY <1>9, <2>3 DEF Moved
<1>11. ASSUME NEW i \in 0 .. r - 1, NEW j \in 0 .. c - 1
       PROVE  Has(z, i, j) <=> <<i, j>> \in N
  <2>1. i \in Int /\ j \in Int /\ 0 <= i /\ i < r /\ 0 <= j /\ j < c /\ <<i, j>> \in new
    OBVIOUS
  <2>2. Within(f, i, j) <=> (i < k /\ j < l)
    BY <1>2, <1>7, <2>1 DEF Within
  <2>3. <<i, j>> \in Places(x) <=> (i < k /\ j < l)
    BY <1>1, <1>2, <2>1 DEF Places
  <2>4. Has(z, i, j) <=> IF Within(f, i, j) THEN <<i, j>> \in Ones(old) ELSE v
    <3>1. (Has(z, i, j) <=> Has(h, i, j)) /\ (Has(f, i, j) <=> Has(t, i, j)) /\ (Has(t, i, j) <=> v)
      BY <1>5, <1>7, <1>10 DEF Moved
    <3>2. i - f.ro = i /\ j - f.co = j
      BY <1>7, <2>1
    <3>3. Has(h, i, j) <=> IF Within(f, i, j) THEN <<i - f.ro, j - f.co>> \in Ones(old) ELSE Has(f, i, j)
      BY <1>7, <1>8 DEF Written
    <3> QED BY <3>1, <3>2, <3>3
  <2>5. <<i, j>> \in Ones(x) => <<i, j>> \in Places(x)
    BY DEF Ones
  <2>6. i < k /\ j < l => (<<i, j>> \in Ones(old) <=> <<i, j>> \in Ones(x))
    <3>1. /\ <<i, j>> \in Ones(old)
              
                       <=> (i \in 0 .. old.rows - 1 /\ j \in 0 .. old.cols - 1 /\ Has(old, i + old.ro, j + old.co))
          /\ <<i, j>> \in Ones(x)
               <=> (i \in 0 .. x.rows - 1 /\ j \in 0 .. x.cols - 1 /\ Has(x, i + x.ro, j + x.co))
      BY <1>1, <1>3, <2>1, OnesAt
    <3>2. Has(old, i + old.ro, j + old.co) <=> Has(x, i + x.ro, j + x.co)
      BY <1>3 DEF Moved
    <3>3. i < k /\ j < l => /\ i \in 0 .. old.rows - 1 /\ j \in 0 .. old.cols - 1
                            /\ i \in 0 .. x.rows - 1 /\ j \in 0 .. x.cols - 1
      BY <1>1, <1>2, <1>3, <2>1
    <3> QED BY <3>1, <3>2, <3>3
  <2> HIDE DEF new
  <2>7. <<i, j>> \in N <=> (<<i, j>> \in Ones(x) \/ (v /\ <<i, j>> \notin Places(x)))
    BY <2>1
  <2> HIDE DEF N
  <2> QED BY <2>2, <2>3, <2>4, <2>5, <2>6, <2>7
<1>12. Fits(N, r, c)
  BY DEF Fits
<1> HIDE DEF N, new
<1>13. Written(z, t, N)
  <2>1. ASSUME NEW i \in 0 .. t.arows - 1, NEW j \in 0 .. t.acols - 1
        PROVE  Has(z, i, j) <=> IF Within(t, i, j) THEN <<i - t.ro, j - t.co>> \in N ELSE Has(t, i, j)
    <3>1. Within(t, i, j) /\ i - t.ro = i /\ j - t.co = j
      BY <1>5 DEF Within
    <3> QED BY <1>5, <1>11, <3>1
  <2> QED BY <1>5, <1>10, <2>1 DEF Written, Framed
<1>14. Formed(z) /\ Cells(z) = Grid!Fresh(r, c, N)
  BY <1>5, <1>12, <1>13, FreshIs
<1>15. N = Extended(x, r, c, v)
  BY DEF N, new, Extended
<1> QED BY <1>14, <1>15 DEF z
-----------------------------------------------------------------------------
(* Counts, and rows and columns of one value                               *)

(* Numbers of cells.                                                       *)

(* Parts that cover c columns, each column once. *)
Tiling(P, c) ==
  /\ \A p \in P : p \in PartSet /\ \A k \in 0 .. Size(p) - 1 : p.col + k \in 0 .. c - 1
  /\ \A j \in 0 .. c - 1 : \E p \in P : \E k \in 0 .. Size(p) - 1 : j = p.col + k
  /\ \A p, o \in P : \A k \in 0 .. Size(p) - 1, l \in 0 .. Size(o) - 1 :
       p.col + k = o.col + l => p = o

(* What parts of n rows hold, taken together, are the cells N. *)
Holds(of, n, P, N) ==
  /\ DOMAIN of = (0 .. n - 1) \X P
  /\ \A i \in 0 .. n - 1, p \in P :
       /\ of[<<i, p>>] \subseteq 0 .. Size(p) - 1
       /\ \A k \in 0 .. Size(p) - 1 : k \in of[<<i, p>>] <=> <<i, p.col + k>> \in N

(* The bits of all parts are as many as the cells.                         *)
LEMMA TotalIs ==
  ASSUME NEW n \in Nat, NEW c \in Nat, NEW P, Tiling(P, c), NEW N, Fits(N, n, c),
         NEW of, Holds(of, n, P, N)
  PROVE  Total(of) = Cardinality(N)
<1> DEFINE D == (0 .. n - 1) \X P
           U == UNION {{q} \X of[q] : q \in DOMAIN of}
           f == [e \in U |-> <<e[1][1], e[1][2].col + e[2]>>]
<1>1. IsFiniteSet(N)
  <2>1. IsFiniteSet((0 .. n - 1) \X (0 .. c - 1))
    <3>1. IsFiniteSet(0 .. n - 1) /\ IsFiniteSet(0 .. c - 1)
      BY FS_Interval
    <3> QED BY <3>1, FS_Product
  <2> QED BY <2>1, FS_Subset DEF Fits
<1>2. ASSUME NEW e \in U
      PROVE  \E i \in 0 .. n - 1, p \in P : \E k \in 0 .. Size(p) - 1 :
               /\ e = <<<<i, p>>, k>> /\ f[e] = <<i, p.col + k>> /\ f[e] \in N
  <2>1. PICK q \in D : e \in {q} \X of[q]
    BY DEF Holds
  <2>2. PICK i \in 0 .. n - 1, p \in P : q = <<i, p>>
    BY <2>1
  <2>3. e[1] = q /\ e[2] \in of[q] /\ e = <<q, e[2]>>
    BY <2>1
  <2>4. PICK k \in 0 .. Size(p) - 1 : k = e[2]
    BY <2>2, <2>3 DEF Holds
  <2>5. k \in of[<<i, p>>]
    BY <2>2, <2>3, <2>4
  <2>6. <<i, p.col + k>> \in N
    BY <2>5 DEF Holds
  <2>7. f[e] = <<e[1][1], e[1][2].col + e[2]>>
    OBVIOUS
  <2> HIDE DEF f, U
  <2>8. e[1][1] = i /\ e[1][2] = p
    BY <2>2, <2>3
  <2>9. f[e] = <<i, p.col + k>> /\ e = <<<<i, p>>, k>>
    BY <2>2, <2>3, <2>4, <2>7, <2>8
  <2> QED BY <2>6, <2>9
<1>3. f \in [U -> N]
  <2>1. \A e \in U : f[e] \in N
    BY <1>2
  <2>2. f = [e \in U |-> f[e]]
    OBVIOUS
  <2> HIDE DEF f, U
  <2> QED BY <2>1, <2>2
<1>4. ASSUME NEW e \in U, NEW o \in U, f[e] = f[o] PROVE e = o
  <2> HIDE DEF f, U
  <2>1. PICK i \in 0 .. n - 1, p \in P : \E k \in 0 .. Size(p) - 1 :
          e = <<<<i, p>>, k>> /\ f[e] = <<i, p.col + k>> /\ f[e] \in N
    BY <1>2
  <2>2. PICK k \in 0 .. Size(p) - 1 : e = <<<<i, p>>, k>> /\ f[e] = <<i, p.col + k>>
    BY <2>1
  <2>3. PICK h \in 0 .. n - 1, g \in P : \E l \in 0 .. Size(g) - 1 :
          o = <<<<h, g>>, l>> /\ f[o] = <<h, g.col + l>> /\ f[o] \in N
    BY <1>2
  <2>4. PICK l \in 0 .. Size(g) - 1 : o = <<<<h, g>>, l>> /\ f[o] = <<h, g.col + l>>
    BY <2>3
  <2>5. i = h /\ p.col + k = g.col + l
    BY <1>4, <2>2, <2>4
  <2>6. p = g
    BY <2>5 DEF Tiling
  <2>7. k = l
    <3>1. p.col \in Nat /\ Size(p) \in Nat
      BY ColumnsAre DEF Tiling
    <3>2. k \in Int /\ l \in Int
      BY <2>6, <3>1
    <3> QED BY <2>5, <2>6, <3>1, <3>2
  <2> QED BY <2>2, <2>4, <2>5, <2>6, <2>7
<1>5. ASSUME NEW q \in N PROVE \E e \in U : f[e] = q
  <2>1. q = <<q[1], q[2]>> /\ q[1] \in 0 .. n - 1 /\ q[2] \in 0 .. c - 1
    BY DEF Fits
  <2>2. PICK p \in P : \E k \in 0 .. Size(p) - 1 : q[2] = p.col + k
    BY <2>1 DEF Tiling
  <2>3. PICK k \in 0 .. Size(p) - 1 : q[2] = p.col + k
    BY <2>2
  <2> DEFINE d == <<q[1], p>>
  <2>4. k \in of[d]
    <3>1. q = <<q[1], p.col + k>>
      BY <2>1, <2>3
    <3>2. k \in of[d] <=> <<q[1], p.col + k>> \in N
      BY <2>1 DEF Holds
    <3> QED BY <3>1, <3>2
  <2>5. d \in DOMAIN of /\ d[1] = q[1] /\ d[2] = p
    BY <2>1 DEF Holds
  <2> HIDE DEF d
  <2>6. <<d, k>> \in U
    BY <2>4, <2>5
  <2>7. f[<<d, k>>] = <<d[1], d[2].col + k>>
    BY <2>6
  <2> HIDE DEF f, U
  <2>8. f[<<d, k>>] = q
    BY <2>1, <2>3, <2>5, <2>7
  <2> QED BY <2>6, <2>8
<1>6. Total(of) = Cardinality(U)
  BY DEF Total
<1> HIDE DEF f, U
<1>7. f \in Injection(U, N)
  BY <1>3, <1>4 DEF Injection, IsInjective
<1>8. f \in Surjection(U, N)
  BY <1>3, <1>5 DEF Surjection
<1>9. Cardinality(U) = Cardinality(N)
  BY <1>1, <1>7, <1>8, FS_Injection
<1> QED BY <1>6, <1>9

(* The common parts of two windows cover their columns.                    *)
LEMMA CommonPartsTile ==
  ASSUME NEW x, NEW y, Window(x), Window(y), x.cols = y.cols
  PROVE  Tiling(ToSet(CommonParts(x, y)), x.cols)
<1> DEFINE C == ToSet(CommonParts(x, y))
<1>1. /\ \A p \in C : Lies(x, p)
      /\ \A j \in 0 .. x.cols - 1 : \E p \in C : j \in Columns(p)
      /\ \A p, o \in C : (\E j \in 0 .. x.cols - 1 : j \in Columns(p) /\ j \in Columns(o)) => p = o
  BY CommonPartsLie
<1>2. x.cols \in Nat
  BY DEF Window
<1> HIDE DEF C
<1>3. ASSUME NEW p \in C PROVE p \in PartSet /\ Size(p) \in Nat
  BY <1>1, ColumnsAre DEF Lies
<1>4. ASSUME NEW p \in C, NEW k \in 0 .. Size(p) - 1
      PROVE  p.col + k \in 0 .. x.cols - 1 /\ p.col + k \in Columns(p)
  <2>1. k \in Nat /\ k < Size(p) /\ Lies(x, p)
    BY <1>1, <1>3
  <2> QED BY <2>1, InWindow, OfPart
<1>5. ASSUME NEW j \in 0 .. x.cols - 1 PROVE \E p \in C : \E k \in 0 .. Size(p) - 1 : j = p.col + k
  <2>1. PICK p \in C : j \in Columns(p)
    BY <1>1
  <2>2. PICK k \in Nat : k < Size(p) /\ j = p.col + k
    BY <1>1, <1>2, <2>1, OnPart
  <2>3. k \in 0 .. Size(p) - 1
    BY <1>3, <2>2
  <2> QED BY <2>2, <2>3
<1>6. ASSUME NEW p \in C, NEW o \in C, NEW k \in 0 .. Size(p) - 1, NEW l \in 0 .. Size(o) - 1,
             p.col + k = o.col + l
      PROVE  p = o
  <2>1. p.col + k \in 0 .. x.cols - 1 /\ p.col + k \in Columns(p) /\ p.col + k \in Columns(o)
    BY <1>4, <1>6
  <2> QED BY <1>1, <2>1
<1> QED BY <1>3, <1>4, <1>5, <1>6 DEF Tiling, C

(* The bits counted are those of the window. *)
LEMMA CountTells ==
  ASSUME LongBits = WordBits, NEW x, Region(x), Window(x)
  PROVE  Count(x) = Cardinality(Ones(x))
<1> DEFINE P == ToSet(Parts(x)) of == [q \in (0 .. x.rows - 1) \X P |-> Get(x, q[1], q[2])]
<1>1. x.rows \in Nat /\ x.cols \in Nat
  BY DEF Window
<1>2. Count(x) = Total(of)
  BY DEF Count
<1>3. Tiling(P, x.cols) /\ \A p \in P : Lies(x, p)
  <2>1. CommonParts(x, x) = Parts(x)
    BY DEF CommonParts
  <2> QED BY <2>1, CommonPartsTile, CommonPartsLie
<1>4. Fits(Ones(x), x.rows, x.cols)
  BY DEF Fits, Ones, Places
<1> HIDE DEF P
<1>5. Holds(of, x.rows, P, Ones(x))
  <2>1. ASSUME NEW i \in 0 .. x.rows - 1, NEW p \in P
        PROVE  /\ of[<<i, p>>] \subseteq 0 .. Size(p) - 1
               /\ \A k \in 0 .. Size(p) - 1 : k \in of[<<i, p>>] <=> <<i, p.col + k>> \in Ones(x)
    <3>1. of[<<i, p>>] = Get(x, i, p)
      OBVIOUS
    <3> QED BY <1>3, <3>1, GetTells
  <2> QED BY <2>1 DEF Holds
<1> QED BY <1>1, <1>2, <1>3, <1>4, <1>5, TotalIs

(* So are the bits that differ. *)
LEMMA MatchTells ==
  ASSUME LongBits = WordBits, NEW x, NEW y, Region(x), Region(y), Window(x), Window(y), SameSize(x, y)
  PROVE  Match(x, y) = Cardinality(Differ(Ones(x), Ones(y)))
<1> DEFINE P == ToSet(CommonParts(x, y))
           of == [q \in (0 .. x.rows - 1) \X P |-> Differ(Get(x, q[1], q[2]), Get(y, q[1], q[2]))]
           N == Differ(Ones(x), Ones(y))
<1>1. x.rows \in Nat /\ x.cols \in Nat /\ x.rows = y.rows /\ x.cols = y.cols
  BY DEF Window, SameSize
<1>2. Match(x, y) = Total(of)
  BY DEF Match
<1>3. Tiling(P, x.cols) /\ \A p \in P : Lies(x, p) /\ Lies(y, p)
  BY <1>1, CommonPartsTile, CommonPartsLie
<1>4. Fits(N, x.rows, x.cols)
  BY <1>1 DEF Fits, Ones, Places, Differ
<1> HIDE DEF P
<1>5. Holds(of, x.rows, P, N)
  <2>1. ASSUME NEW i \in 0 .. x.rows - 1, NEW p \in P
        PROVE  /\ of[<<i, p>>] \subseteq 0 .. Size(p) - 1
               /\ \A k \in 0 .. Size(p) - 1 : k \in of[<<i, p>>] <=> <<i, p.col + k>> \in N
    <3>1. of[<<i, p>>] = Differ(Get(x, i, p), Get(y, i, p))
      OBVIOUS
    <3>2. /\ Get(x, i, p) \subseteq 0 .. Size(p) - 1
          /\ \A k \in 0 .. Size(p) - 1 : k \in Get(x, i, p) <=> <<i, p.col + k>> \in Ones(x)
      BY <1>3, GetTells
    <3>3. /\ Get(y, i, p) \subseteq 0 .. Size(p) - 1
          /\ \A k \in 0 .. Size(p) - 1 : k \in Get(y, i, p) <=> <<i, p.col + k>> \in Ones(y)
      <4>1. i \in 0 .. y.rows - 1 /\ Lies(y, p)
        BY <1>1, <1>3
      <4> QED BY <4>1, GetTells
    <3> HIDE DEF of
    <3> QED BY <3>1, <3>2, <3>3 DEF Differ
  <2> QED BY <2>1 DEF Holds
<1> HIDE DEF N
<1> QED BY <1>1, <1>2, <1>3, <1>4, <1>5, TotalIs DEF N

(* The least and the greatest of some numbers.                             *)
LEMMA LeastIs ==
  ASSUME NEW S, S \subseteq Nat, S # {}
  PROVE  Min(S) \in S /\ \A y \in S : Min(S) <= y
<1>1. PICK i \in S : \A j \in S : ~(<<j, i>> \in OpToRel(<, Nat))
  BY NatLessThanWellFounded, WFMin
<1>2. \A j \in S : i <= j
  <2>1. \A j \in S : j \in Nat /\ i \in Nat
    OBVIOUS
  <2>2. \A j \in S : ~(j < i)
    BY <1>1, <2>1 DEF OpToRel
  <2> QED BY <2>1, <2>2
<1> QED BY <1>2 DEF Min

(* The greatest of some numbers up to n.                                   *)
LEMMA GreatestIs ==
  ASSUME NEW n \in Nat, NEW S, S \subseteq 0 .. n - 1, S # {}
  PROVE  Max(S) \in S /\ \A y \in S : y <= Max(S)
<1> DEFINE T == {n - y : y \in S}
<1>1. T \subseteq Nat /\ T # {}
  <2>1. \A y \in S : n - y \in Nat
    OBVIOUS
  <2>2. T \subseteq Nat
    BY <2>1
  <2>3. PICK y : y \in S
    OBVIOUS
  <2>4. n - y \in T
    BY <2>3
  <2> QED BY <2>2, <2>4
<1>2. Min(T) \in T /\ \A y \in T : Min(T) <= y
  <2> HIDE DEF T
  <2> QED BY <1>1, LeastIs
<1>3. PICK i \in S : Min(T) = n - i
  BY <1>2
<1>4. \A y \in S : y <= i
  <2>1. \A y \in S : n - i <= n - y
    BY <1>2, <1>3
  <2>2. \A y \in S : y \in Int /\ i \in Int
    OBVIOUS
  <2> QED BY <2>1, <2>2
<1> QED BY <1>4 DEF Max

(* A row that holds one value only. *)
LEMMA RowIsTells ==
  ASSUME LongBits = WordBits, NEW x, Region(x), NEW i \in 0 .. x.rows - 1, x.cols > 0, NEW v \in BOOLEAN
  PROVE  RowIs(x, i, v) <=> \A j \in 0 .. x.cols - 1 : <<i, j>> \in Ones(x) <=> v
<1> DEFINE w == Offset(x, i, 0, 1, x.cols)
<1>1. /\ x.rows \in Nat /\ x.cols \in Nat /\ x.ro \in Nat /\ x.co \in Nat
      /\ x.arows \in Nat /\ x.acols \in Nat /\ Formed(x) /\ i \in Int
      /\ x.ro + x.rows <= x.arows /\ x.co + x.cols <= x.acols
  BY DEF Region, Formed
<1>2. /\ Moved(w, x, i, 0, 1, x.cols)
      /\ Region(w) /\ Formed(w) /\ w.rows = 1 /\ w.cols = x.cols /\ w.ro = x.ro + i /\ w.co = x.co
  <2>1. CanMove(x, i, 0, 1, x.cols)
    BY <1>1 DEF CanMove
  <2>2. Moved(w, x, i, 0, 1, x.cols)
    BY <1>1, <2>1, MovedIs
  <2> HIDE DEF w
  <2> QED BY <1>1, <2>2 DEF Moved
<1>3. RowIs(x, i, v) <=> Count(w) = IF v THEN x.cols ELSE 0
  BY DEF RowIs
<1> HIDE DEF w
<1>4. Count(w) = Cardinality(Ones(w))
  <2>1. w.rows > 0 /\ w.cols > 0
    BY <1>2
  <2> QED BY <1>2, <2>1, RegionIs, CountTells
<1>5. IsFiniteSet(Places(w)) /\ Cardinality(Places(w)) = x.cols
  <2>1. /\ IsFiniteSet(0 .. w.rows - 1) /\ Cardinality(0 .. w.rows - 1) = w.rows
        /\ IsFiniteSet(0 .. w.cols - 1) /\ Cardinality(0 .. w.cols - 1) = w.cols
    <3>1. w.rows - 1 \in Int /\ w.cols - 1 \in Int /\ ~(0 > w.rows - 1) /\ ~(0 > w.cols - 1)
          /\ (w.rows - 1) - 0 + 1 = w.rows /\ (w.cols - 1) - 0 + 1 = w.cols
      BY <1>1, <1>2
    <3>2. ASSUME NEW k \in Int, ~(0 > k)
          PROVE  IsFiniteSet(0 .. k) /\ Cardinality(0 .. k) = k - 0 + 1
      BY <3>2, FS_Interval
    <3> QED BY <3>1, <3>2
  <2>2. /\ IsFiniteSet(Places(w))
        /\ Cardinality(Places(w)) = Cardinality(0 .. w.rows - 1) * Cardinality(0 .. w.cols - 1)
    BY <2>1, FS_Product DEF Places
  <2> QED BY <1>1, <1>2, <2>1, <2>2
<1>6. Ones(w) \in SUBSET Places(w) /\ IsFiniteSet(Ones(w))
  <2>1. Ones(w) \in SUBSET Places(w)
    BY DEF Ones
  <2> QED BY <1>5, <2>1, FS_Subset
<1>7. ASSUME NEW j \in 0 .. x.cols - 1
      PROVE  /\ <<0, j>> \in Ones(w) <=> <<i, j>> \in Ones(x)
             /\ <<0, j>> \in Places(w)
  <2>1. /\ <<0, j>> \in Ones(w)
             <=> (0 \in 0 .. w.rows - 1 /\ j \in 0 .. w.cols - 1 /\ Has(w, 0 + w.ro, j + w.co))
        /\ <<i, j>> \in Ones(x)
             <=> (i \in 0 .. x.rows - 1 /\ j \in 0 .. x.cols - 1 /\ Has(x, i + x.ro, j + x.co))
    BY <1>1, <1>2, OnesAt
  <2>2. 0 + w.ro = i + x.ro /\ j + w.co = j + x.co /\ 0 \in 0 .. w.rows - 1 /\ j \in 0 .. w.cols - 1
    BY <1>1, <1>2
  <2>3. Has(w, 0 + w.ro, j + w.co) <=> Has(x, i + x.ro, j + x.co)
    BY <1>2, <2>2 DEF Moved
  <2> QED BY <2>1, <2>2, <2>3 DEF Places
<1>8. \A q \in Places(w) : \E j \in 0 .. x.cols - 1 : q = <<0, j>>
  BY <1>2 DEF Places
<1>9. CASE v
  <2>1. Cardinality(Ones(w)) = x.cols <=> Ones(w) = Places(w)
    BY <1>5, <1>6, FS_Subset
  <2>2. Ones(w) = Places(w) <=> \A j \in 0 .. x.cols - 1 : <<0, j>> \in Ones(w)
    BY <1>6, <1>7, <1>8
  <2> QED BY <1>3, <1>4, <1>7, <1>9, <2>1, <2>2
<1>10. CASE ~v
  <2>1. Cardinality(Ones(w)) = 0 <=> Ones(w) = {}
    BY <1>6, FS_EmptySet
  <2>2. Ones(w) = {} <=> \A j \in 0 .. x.cols - 1 : <<0, j>> \notin Ones(w)
    BY <1>6, <1>8
  <2> QED BY <1>3, <1>4, <1>7, <1>10, <2>1, <2>2
<1> QED BY <1>9, <1>10

(* What trimming makes of the cells C. *)
RowsTrimmed(C, D, v) ==
  LET rest == {r \in 0 .. C.rows - 1 : ~Grid!RowIs(C, r, v)}
  IN  IF rest = {} THEN D = [C EXCEPT !.rows = 0, !.ro = D.ro]
      ELSE \E f, l \in rest :
             /\ \A r \in rest : f <= r /\ r <= l
             /\ D = [Grid!Paint([C EXCEPT !.rows = @ - f],
                                {<<p[1] - f, p[2]>> : p \in {q \in Grid!View(C) : q[1] >= f}})
                       EXCEPT !.rows = l - f + 1]

(* Trimming leaves the rows from the first to the last that differ.        *)
LEMMA TrimRowsIs ==
  ASSUME LongBits = WordBits, NEW x, Region(x), x.rows > 0, x.cols > 0, NEW v \in BOOLEAN
  PROVE  Formed(TrimRows(x, v)) /\ RowsTrimmed(Cells(x), Cells(TrimRows(x, v)), v)
<1> DEFINE z == TrimRows(x, v) C == Cells(x) T == C.on
           rest == {r \in 0 .. x.rows - 1 : ~RowIs(x, r, v)}
<1>1. /\ x.rows \in Nat /\ x.cols \in Nat /\ x.ro \in Nat /\ x.co \in Nat
      /\ x.arows \in Nat /\ x.acols \in Nat /\ Formed(x)
      /\ x.ro + x.rows <= x.arows /\ x.co + x.cols <= x.acols
      /\ x = [rows |-> x.rows, cols |-> x.cols, ro |-> x.ro, co |-> x.co,
              arows |-> x.arows, acols |-> x.acols, mem |-> x.mem]
      /\ x.mem \in [0 .. x.arows - 1 -> [0 .. RowInc(x.acols) - 1 -> SUBSET Long]]
  BY DEF Region, Formed
<1>2. /\ C = [rows |-> x.rows, cols |-> x.cols, ro |-> x.ro, co |-> x.co,
              arows |-> x.arows, acols |-> x.acols, on |-> T]
      /\ C.rows = x.rows /\ C.cols = x.cols /\ C.ro = x.ro /\ C.co = x.co
      /\ Grid!View(C) = Ones(x)
  BY <1>1, CellsAs, CellsAre, ViewIs
<1> HIDE DEF C, T
<1>3. rest = {r \in 0 .. C.rows - 1 : ~Grid!RowIs(C, r, v)}
  <2>1. ASSUME NEW r \in 0 .. x.rows - 1 PROVE RowIs(x, r, v) <=> Grid!RowIs(C, r, v)
    <3>1. RowIs(x, r, v) <=> \A j \in 0 .. x.cols - 1 : <<r, j>> \in Ones(x) <=> v
      BY RowIsTells
    <3>2. Grid!RowIs(C, r, v) <=> \A j \in 0 .. x.cols - 1 : (<<r, j>> \in Ones(x)) = v
      BY <1>2 DEF Grid!RowIs
    <3>3. \A j : (<<r, j>> \in Ones(x)) = v <=> (<<r, j>> \in Ones(x) <=> v)
      OBVIOUS
    <3> QED BY <3>1, <3>2, <3>3
  <2> QED BY <1>2, <2>1
<1>4. CASE rest = {}
  <2>1. z = [x EXCEPT !.ro = x.ro + (-1), !.co = x.co + 0, !.rows = 0, !.cols = x.cols]
    BY <1>4 DEF TrimRows, Offset
  <2> HIDE DEF z, rest
  <2>2. z = [rows |-> 0, cols |-> x.cols, ro |-> x.ro + (-1), co |-> x.co + 0,
             arows |-> x.arows, acols |-> x.acols, mem |-> x.mem]
    BY ONLY <1>1, <2>1
  <2>3. /\ z.rows = 0 /\ z.cols = x.cols /\ z.ro = x.ro + (-1) /\ z.co = x.co
        /\ z.arows = x.arows /\ z.acols = x.acols /\ z.mem = x.mem /\ z.ro \in Int
    <3>1. x.co + 0 = x.co /\ x.ro + (-1) \in Int
      BY <1>1
    <3> QED BY <2>2, <3>1
  <2>4. Formed(z)
    <3>1. z = [rows |-> z.rows, cols |-> z.cols, ro |-> z.ro, co |-> z.co,
               arows |-> z.arows, acols |-> z.acols, mem |-> z.mem]
      BY <2>2
    <3>2. z.rows \in Nat /\ ~(z.rows > 0)
      BY <2>3
    <3> QED BY <1>1, <2>3, <3>1, <3>2 DEF Formed
  <2> DEFINE D == Cells(z)
  <2>5. D = [rows |-> z.rows, cols |-> z.cols, ro |-> z.ro, co |-> z.co,
             arows |-> x.arows, acols |-> x.acols, on |-> T]
    BY <1>1, <2>3, CellsOffset DEF C, T
  <2> HIDE DEF D
  <2>6. D = [C EXCEPT !.rows = 0, !.ro = z.ro]
    <3> DEFINE E == [C EXCEPT !.rows = 0, !.ro = z.ro]
    <3>1. E = [C EXCEPT !.rows = 0, !.ro = z.ro]
      OBVIOUS
    <3> HIDE DEF E
    <3>2. E = [rows |-> 0, cols |-> x.cols, ro |-> z.ro, co |-> x.co,
               arows |-> x.arows, acols |-> x.acols, on |-> T]
      BY ONLY <1>2, <3>1
    <3> QED BY <2>3, <2>5, <3>2 DEF E
  <2>7. D.ro = z.ro
    BY <2>5
  <2> QED BY <1>3, <1>4, <2>4, <2>6, <2>7 DEF RowsTrimmed, z, C, D
<1>5. CASE rest # {}
  <2> DEFINE f == Min(rest) l == Max(rest) d == DeleteRows(x, 0, f) R == x.rows - f k == l - f + 1
             u == [x EXCEPT !.rows = R]
             N == {<<p[1] - f, p[2]>> : p \in {q \in Ones(x) : q[1] >= f}}
  <2>1. z = [d EXCEPT !.rows = k]
    BY <1>5 DEF TrimRows
  <2> HIDE DEF z
  <2>2. f \in rest /\ l \in rest /\ \A r \in rest : f <= r /\ r <= l
    <3>1. rest \subseteq Nat /\ rest \subseteq 0 .. x.rows - 1
      OBVIOUS
    <3> HIDE DEF rest
    <3> QED BY <1>1, <1>5, <3>1, LeastIs, GreatestIs
  <2>3. f \in Nat /\ f < x.rows /\ f <= l /\ l < x.rows /\ l \in Nat
        /\ R \in Nat /\ R > 0 /\ R \in 0 .. x.rows /\ k \in 0 .. R
    <3>1. f \in 0 .. x.rows - 1 /\ l \in 0 .. x.rows - 1 /\ f <= l
      BY <2>2
    <3>2. x.rows \in Nat
      BY <1>1
    <3> HIDE DEF f, l
    <3>3. f \in Nat /\ l \in Nat /\ f < x.rows /\ f <= l /\ l < x.rows
      BY <3>1, <3>2
    <3>4. R \in Nat /\ R > 0 /\ R \in 0 .. x.rows
      BY <3>2, <3>3
    <3>5. k \in 0 .. R
      BY <3>2, <3>3
    <3> QED BY <3>3, <3>4, <3>5
  <2> HIDE DEF rest, f, l, d, R, k
  <2>4. Region(u) /\ u.rows = R /\ u.cols = x.cols /\ Cells(u) = [C EXCEPT !.rows = R]
    BY <2>3, FewerRows DEF C
  <2>5. Formed(d) /\ Cells(d) = Grid!Paint(Cells(u), N)
    <3>1. CASE f = 0
      <4>1. d = x
        BY <3>1 DEF d, DeleteRows
      <4>2. N = Ones(x)
        <5>1. ASSUME NEW p \in Ones(x) PROVE p = <<p[1] - f, p[2]>> /\ p[1] >= f
          <6>1. p = <<p[1], p[2]>> /\ p[1] \in 0 .. x.rows - 1
            BY DEF Ones, Places
          <6>2. p[1] - f = p[1] /\ p[1] >= f
            BY <3>1, <6>1
          <6> QED BY <6>1, <6>2
        <5> QED BY <5>1
      <4> HIDE DEF N
      <4>3. Cells(u) = C
        <5>1. R = x.rows
          BY <1>1, <3>1 DEF R
        <5>2. Cells(u) = [C EXCEPT !.rows = x.rows]
          BY <2>4, <5>1
        <5> QED BY ONLY <1>2, <5>2
      <4>4. Written(x, x, Ones(x))
        <5>1. ASSUME NEW r \in 0 .. x.arows - 1, NEW c \in 0 .. x.acols - 1, Within(x, r, c)
              PROVE  Has(x, r, c) <=> <<r - x.ro, c - x.co>> \in Ones(x)
          <6> DEFINE i == r - x.ro j == c - x.co
          <6>1. i \in 0 .. x.rows - 1 /\ j \in 0 .. x.cols - 1 /\ i + x.ro = r /\ j + x.co = c
                /\ i \in Int /\ j \in Int
            BY <1>1, <5>1 DEF Within
          <6> HIDE DEF i, j
          <6>2. <<i, j>> \in Ones(x) <=> Has(x, r, c)
            BY <1>1, <6>1, OnesAt
          <6> QED BY <6>2 DEF i, j
        <5> QED BY <1>1, <5>1 DEF Written, Framed
      <4>5. Cells(x) = Grid!Paint(Cells(x), Ones(x))
        <5>1. Ones(x) \subseteq Places(x)
          BY DEF Ones
        <5> QED BY <1>1, <4>4, <5>1, PaintIs
      <4> QED BY <1>1, <4>1, <4>2, <4>3, <4>5 DEF C
    <3>2. CASE f # 0
      <4> DEFINE M == {p \in (0 .. x.rows - f - 1) \X (0 .. x.cols - 1) :
                         <<IF p[1] < 0 THEN p[1] ELSE p[1] + f, p[2]>> \in Ones(x)}
      <4>1. ~(0 < 0 \/ 0 + f > x.rows) /\ f \in Nat \ {0} /\ 0 \in Int
        BY <1>1, <2>3, <3>2
      <4>2. Formed(d) /\ Cells(d) = Grid!Paint([Cells(x) EXCEPT !.rows = x.rows - f], M)
        <5>1. RowsDeleted(d, x, 0, f)
          BY <4>1, DeleteRowsIs DEF d
        <5> QED BY <4>1, <5>1 DEF RowsDeleted
      <4>3. M = N
        <5>1. ASSUME NEW p \in M PROVE p \in N
          <6>1. p = <<p[1], p[2]>> /\ p[1] \in 0 .. x.rows - f - 1 /\ <<p[1] + f, p[2]>> \in Ones(x)
            BY <2>3
          <6>2. (p[1] + f) - f = p[1] /\ p[1] + f >= f
            <7>1. p[1] \in Nat /\ f \in Nat
              BY ONLY <2>3, <6>1
            <7> QED BY ONLY <7>1
          <6>3. <<p[1] + f, p[2]>>[1] = p[1] + f /\ <<p[1] + f, p[2]>>[2] = p[2]
            OBVIOUS
          <6> HIDE DEF M
          <6> QED BY <6>1, <6>2, <6>3
        <5>2. ASSUME NEW p \in Ones(x), p[1] >= f PROVE <<p[1] - f, p[2]>> \in M
          <6>1. p = <<p[1], p[2]>> /\ p[1] \in 0 .. x.rows - 1 /\ p[2] \in 0 .. x.cols - 1
            BY DEF Ones, Places
          <6> DEFINE i == p[1] - f
          <6>2. i \in 0 .. x.rows - f - 1 /\ ~(i < 0) /\ i + f = p[1]
            <7>1. \A e \in 0 .. x.rows - 1 :
                    e >= f => (e - f \in 0 .. x.rows - f - 1 /\ ~(e - f < 0) /\ (e - f) + f = e)
              <8>1. x.rows \in Nat /\ f \in Nat
                BY <1>1, <2>3
              <8> QED BY ONLY <8>1
            <7> QED BY <5>2, <6>1, <7>1
          <6>3. <<i, p[2]>>[1] = i /\ <<i, p[2]>>[2] = p[2]
            OBVIOUS
          <6> HIDE DEF i
          <6>4. <<i, p[2]>> \in M
            BY <6>1, <6>2, <6>3
          <6> QED BY <6>4 DEF i
        <5> QED BY <5>1, <5>2
      <4> HIDE DEF M, N
      <4> QED BY <2>4, <4>2, <4>3 DEF C, R
    <3> QED BY <3>1, <3>2
  <2>6. d.rows = R /\ d.cols = x.cols
    <3> HIDE DEF N, u
    <3>1. Cells(d) = [rows |-> u.rows, cols |-> u.cols, ro |-> u.ro, co |-> u.co,
                      arows |-> u.arows, acols |-> u.acols, on |-> Painted(u, N)]
      BY <2>5, PaintAre
    <3>2. Cells(d).rows = u.rows /\ Cells(d).cols = u.cols
      BY <3>1
    <3> QED BY <2>4, <3>2, CellsAre
  <2> HIDE DEF u, N
  <2>7. Region(d)
    <3>1. d.rows > 0 /\ d.cols > 0
      BY <2>3, <2>6
    <3> QED BY <2>5, <3>1, RegionIs
  <2>8. Formed(z) /\ Cells(z) = [Cells(d) EXCEPT !.rows = k]
    BY <2>1, <2>3, <2>6, <2>7, FewerRows DEF Region
  <2>9. Cells(z) = [Grid!Paint([C EXCEPT !.rows = @ - f],
                      {<<p[1] - f, p[2]>> : p \in {q \in Grid!View(C) : q[1] >= f}})
                    EXCEPT !.rows = l - f + 1]
    BY <1>2, <2>4, <2>5, <2>8 DEF N, R, k
  <2>10. \E i, j \in rest :
           /\ \A r \in rest : i <= r /\ r <= j
           /\ Cells(z) = [Grid!Paint([C EXCEPT !.rows = @ - i],
                            {<<p[1] - i, p[2]>> : p \in {q \in Grid!View(C) : q[1] >= i}})
                          EXCEPT !.rows = j - i + 1]
    BY <2>2, <2>9
  <2> QED BY <1>3, <1>5, <2>8, <2>10 DEF RowsTrimmed, z, C
<1> QED BY <1>4, <1>5

(* A column that holds one value only. *)
LEMMA ColumnIsTells ==
  ASSUME LongBits = WordBits, NEW x, Region(x), NEW j \in 0 .. x.cols - 1, x.rows > 0, NEW v \in BOOLEAN
  PROVE  ColumnIs(x, j, v) <=> \A i \in 0 .. x.rows - 1 : <<i, j>> \in Ones(x) <=> v
<1> DEFINE w == Offset(x, 0, j, x.rows, 1)
<1>1. /\ x.cols \in Nat /\ x.rows \in Nat /\ x.co \in Nat /\ x.ro \in Nat
      /\ x.acols \in Nat /\ x.arows \in Nat /\ Formed(x) /\ j \in Int
      /\ x.co + x.cols <= x.acols /\ x.ro + x.rows <= x.arows
  BY DEF Region, Formed
<1>2. /\ Moved(w, x, 0, j, x.rows, 1)
      /\ Region(w) /\ Formed(w) /\ w.cols = 1 /\ w.rows = x.rows /\ w.co = x.co + j /\ w.ro = x.ro
  <2>1. CanMove(x, 0, j, x.rows, 1)
    BY <1>1 DEF CanMove
  <2>2. Moved(w, x, 0, j, x.rows, 1)
    BY <1>1, <2>1, MovedIs
  <2> HIDE DEF w
  <2> QED BY <1>1, <2>2 DEF Moved
<1>3. ColumnIs(x, j, v) <=> Count(w) = IF v THEN x.rows ELSE 0
  BY DEF ColumnIs
<1> HIDE DEF w
<1>4. Count(w) = Cardinality(Ones(w))
  <2>1. w.cols > 0 /\ w.rows > 0
    BY <1>2
  <2> QED BY <1>2, <2>1, RegionIs, CountTells
<1>5. IsFiniteSet(Places(w)) /\ Cardinality(Places(w)) = x.rows
  <2>1. /\ IsFiniteSet(0 .. w.cols - 1) /\ Cardinality(0 .. w.cols - 1) = w.cols
        /\ IsFiniteSet(0 .. w.rows - 1) /\ Cardinality(0 .. w.rows - 1) = w.rows
    <3>1. w.cols - 1 \in Int /\ w.rows - 1 \in Int /\ ~(0 > w.cols - 1) /\ ~(0 > w.rows - 1)
          /\ (w.cols - 1) - 0 + 1 = w.cols /\ (w.rows - 1) - 0 + 1 = w.rows
      BY <1>1, <1>2
    <3>2. ASSUME NEW k \in Int, ~(0 > k)
          PROVE  IsFiniteSet(0 .. k) /\ Cardinality(0 .. k) = k - 0 + 1
      BY <3>2, FS_Interval
    <3> QED BY <3>1, <3>2
  <2>2. /\ IsFiniteSet(Places(w))
        /\ Cardinality(Places(w)) = Cardinality(0 .. w.rows - 1) * Cardinality(0 .. w.cols - 1)
    BY <2>1, FS_Product DEF Places
  <2> QED BY <1>1, <1>2, <2>1, <2>2
<1>6. Ones(w) \in SUBSET Places(w) /\ IsFiniteSet(Ones(w))
  <2>1. Ones(w) \in SUBSET Places(w)
    BY DEF Ones
  <2> QED BY <1>5, <2>1, FS_Subset
<1>7. ASSUME NEW i \in 0 .. x.rows - 1
      PROVE  /\ <<i, 0>> \in Ones(w) <=> <<i, j>> \in Ones(x)
             /\ <<i, 0>> \in Places(w)
  <2>1. /\ <<i, 0>> \in Ones(w)
             <=> (0 \in 0 .. w.cols - 1 /\ i \in 0 .. w.rows - 1 /\ Has(w, i + w.ro, 0 + w.co))
        /\ <<i, j>> \in Ones(x)
             <=> (j \in 0 .. x.cols - 1 /\ i \in 0 .. x.rows - 1 /\ Has(x, i + x.ro, j + x.co))
    BY <1>1, <1>2, OnesAt
  <2>2. 0 + w.co = j + x.co /\ i + w.ro = i + x.ro /\ 0 \in 0 .. w.cols - 1 /\ i \in 0 .. w.rows - 1
    BY <1>1, <1>2
  <2>3. Has(w, i + w.ro, 0 + w.co) <=> Has(x, i + x.ro, j + x.co)
    BY <1>2, <2>2 DEF Moved
  <2> QED BY <2>1, <2>2, <2>3 DEF Places
<1>8. \A q \in Places(w) : \E i \in 0 .. x.rows - 1 : q = <<i, 0>>
  BY <1>2 DEF Places
<1>9. CASE v
  <2>1. Cardinality(Ones(w)) = x.rows <=> Ones(w) = Places(w)
    BY <1>5, <1>6, FS_Subset
  <2>2. Ones(w) = Places(w) <=> \A i \in 0 .. x.rows - 1 : <<i, 0>> \in Ones(w)
    BY <1>6, <1>7, <1>8
  <2> QED BY <1>3, <1>4, <1>7, <1>9, <2>1, <2>2
<1>10. CASE ~v
  <2>1. Cardinality(Ones(w)) = 0 <=> Ones(w) = {}
    BY <1>6, FS_EmptySet
  <2>2. Ones(w) = {} <=> \A i \in 0 .. x.rows - 1 : <<i, 0>> \notin Ones(w)
    BY <1>6, <1>8
  <2> QED BY <1>3, <1>4, <1>7, <1>10, <2>1, <2>2
<1> QED BY <1>9, <1>10

(* What trimming makes of the cells C. *)
ColumnsTrimmed(C, D, v) ==
  LET rest == {c \in 0 .. C.cols - 1 : ~Grid!ColIs(C, c, v)}
  IN  IF rest = {} THEN D = [C EXCEPT !.cols = 0, !.co = D.co]
      ELSE \E f, l \in rest :
             /\ \A c \in rest : f <= c /\ c <= l
             /\ D = [Grid!Paint([C EXCEPT !.cols = @ - f],
                                {<<p[1], p[2] - f>> : p \in {q \in Grid!View(C) : q[2] >= f}})
                       EXCEPT !.cols = l - f + 1]

(* Trimming leaves the columns from the first to the last that differ.     *)
LEMMA TrimColumnsIs ==
  ASSUME LongBits = WordBits, NEW x, Region(x), x.cols > 0, x.rows > 0, NEW v \in BOOLEAN
  PROVE  Formed(TrimColumns(x, v)) /\ ColumnsTrimmed(Cells(x), Cells(TrimColumns(x, v)), v)
<1> DEFINE z == TrimColumns(x, v) C == Cells(x) T == C.on
           rest == {c \in 0 .. x.cols - 1 : ~ColumnIs(x, c, v)}
<1>1. /\ x.cols \in Nat /\ x.rows \in Nat /\ x.co \in Nat /\ x.ro \in Nat
      /\ x.acols \in Nat /\ x.arows \in Nat /\ Formed(x)
      /\ x.co + x.cols <= x.acols /\ x.ro + x.rows <= x.arows
      /\ x = [rows |-> x.rows, cols |-> x.cols, ro |-> x.ro, co |-> x.co,
              arows |-> x.arows, acols |-> x.acols, mem |-> x.mem]
      /\ x.mem \in [0 .. x.arows - 1 -> [0 .. RowInc(x.acols) - 1 -> SUBSET Long]]
  BY DEF Region, Formed
<1>2. /\ C = [rows |-> x.rows, cols |-> x.cols, ro |-> x.ro, co |-> x.co,
              arows |-> x.arows, acols |-> x.acols, on |-> T]
      /\ C.cols = x.cols /\ C.rows = x.rows /\ C.co = x.co /\ C.ro = x.ro
      /\ Grid!View(C) = Ones(x)
  BY <1>1, CellsAs, CellsAre, ViewIs
<1> HIDE DEF C, T
<1>3. rest = {c \in 0 .. C.cols - 1 : ~Grid!ColIs(C, c, v)}
  <2>1. ASSUME NEW c \in 0 .. x.cols - 1 PROVE ColumnIs(x, c, v) <=> Grid!ColIs(C, c, v)
    <3>1. ColumnIs(x, c, v) <=> \A i \in 0 .. x.rows - 1 : <<i, c>> \in Ones(x) <=> v
      BY ColumnIsTells
    <3>2. Grid!ColIs(C, c, v) <=> \A i \in 0 .. x.rows - 1 : (<<i, c>> \in Ones(x)) = v
      BY <1>2 DEF Grid!ColIs
    <3>3. \A i : (<<i, c>> \in Ones(x)) = v <=> (<<i, c>> \in Ones(x) <=> v)
      OBVIOUS
    <3> QED BY <3>1, <3>2, <3>3
  <2> QED BY <1>2, <2>1
<1>4. CASE rest = {}
  <2>1. z = [x EXCEPT !.co = x.co + (-1), !.ro = x.ro + 0, !.cols = 0, !.rows = x.rows]
    BY <1>4 DEF TrimColumns, Offset
  <2> HIDE DEF z, rest
  <2>2. z = [rows |-> x.rows, cols |-> 0, ro |-> x.ro + 0, co |-> x.co + (-1),
             arows |-> x.arows, acols |-> x.acols, mem |-> x.mem]
    BY ONLY <1>1, <2>1
  <2>3. /\ z.cols = 0 /\ z.rows = x.rows /\ z.co = x.co + (-1) /\ z.ro = x.ro
        /\ z.acols = x.acols /\ z.arows = x.arows /\ z.mem = x.mem /\ z.co \in Int
    <3>1. x.ro + 0 = x.ro /\ x.co + (-1) \in Int
      BY <1>1
    <3> QED BY <2>2, <3>1
  <2>4. Formed(z)
    <3>1. z = [rows |-> z.rows, cols |-> z.cols, ro |-> z.ro, co |-> z.co,
               arows |-> z.arows, acols |-> z.acols, mem |-> z.mem]
      BY <2>2
    <3>2. z.cols \in Nat /\ ~(z.cols > 0)
      BY <2>3
    <3> QED BY <1>1, <2>3, <3>1, <3>2 DEF Formed
  <2> DEFINE D == Cells(z)
  <2>5. D = [rows |-> z.rows, cols |-> z.cols, ro |-> z.ro, co |-> z.co,
             arows |-> x.arows, acols |-> x.acols, on |-> T]
    BY <1>1, <2>3, CellsOffset DEF C, T
  <2> HIDE DEF D
  <2>6. D = [C EXCEPT !.cols = 0, !.co = z.co]
    <3> DEFINE E == [C EXCEPT !.cols = 0, !.co = z.co]
    <3>1. E = [C EXCEPT !.cols = 0, !.co = z.co]
      OBVIOUS
    <3> HIDE DEF E
    <3>2. E = [rows |-> x.rows, cols |-> 0, ro |-> x.ro, co |-> z.co,
               arows |-> x.arows, acols |-> x.acols, on |-> T]
      BY ONLY <1>2, <3>1
    <3> QED BY <2>3, <2>5, <3>2 DEF E
  <2>7. D.co = z.co
    BY <2>5
  <2> QED BY <1>3, <1>4, <2>4, <2>6, <2>7 DEF ColumnsTrimmed, z, C, D
<1>5. CASE rest # {}
  <2> DEFINE f == Min(rest) l == Max(rest) d == DeleteColumns(x, 0, f) R == x.cols - f k == l - f + 1
             u == [x EXCEPT !.cols = R]
             N == {<<p[1], p[2] - f>> : p \in {q \in Ones(x) : q[2] >= f}}
  <2>1. z = [d EXCEPT !.cols = k]
    BY <1>5 DEF TrimColumns
  <2> HIDE DEF z
  <2>2. f \in rest /\ l \in rest /\ \A c \in rest : f <= c /\ c <= l
    <3>1. rest \subseteq Nat /\ rest \subseteq 0 .. x.cols - 1
      OBVIOUS
    <3> HIDE DEF rest
    <3> QED BY <1>1, <1>5, <3>1, LeastIs, GreatestIs
  <2>3. f \in Nat /\ f < x.cols /\ f <= l /\ l < x.cols /\ l \in Nat
        /\ R \in Nat /\ R > 0 /\ R \in 0 .. x.cols /\ k \in 0 .. R
    <3>1. f \in 0 .. x.cols - 1 /\ l \in 0 .. x.cols - 1 /\ f <= l
      BY <2>2
    <3>2. x.cols \in Nat
      BY <1>1
    <3> HIDE DEF f, l
    <3>3. f \in Nat /\ l \in Nat /\ f < x.cols /\ f <= l /\ l < x.cols
      BY <3>1, <3>2
    <3>4. R \in Nat /\ R > 0 /\ R \in 0 .. x.cols
      BY <3>2, <3>3
    <3>5. k \in 0 .. R
      BY <3>2, <3>3
    <3> QED BY <3>3, <3>4, <3>5
  <2> HIDE DEF rest, f, l, d, R, k
  <2>4. Region(u) /\ u.cols = R /\ u.rows = x.rows /\ Cells(u) = [C EXCEPT !.cols = R]
    BY <2>3, FewerColumns DEF C
  <2>5. Formed(d) /\ Cells(d) = Grid!Paint(Cells(u), N)
    <3>1. CASE f = 0
      <4>1. d = x
        BY <3>1 DEF d, DeleteColumns
      <4>2. N = Ones(x)
        <5>1. ASSUME NEW p \in Ones(x) PROVE p = <<p[1], p[2] - f>> /\ p[2] >= f
          <6>1. p = <<p[1], p[2]>> /\ p[2] \in 0 .. x.cols - 1
            BY DEF Ones, Places
          <6>2. p[2] - f = p[2] /\ p[2] >= f
            BY <3>1, <6>1
          <6> QED BY <6>1, <6>2
        <5> QED BY <5>1
      <4> HIDE DEF N
      <4>3. Cells(u) = C
        <5>1. R = x.cols
          BY <1>1, <3>1 DEF R
        <5>2. Cells(u) = [C EXCEPT !.cols = x.cols]
          BY <2>4, <5>1
        <5> QED BY ONLY <1>2, <5>2
      <4>4. Written(x, x, Ones(x))
        <5>1. ASSUME NEW c \in 0 .. x.acols - 1, NEW r \in 0 .. x.arows - 1, Within(x, r, c)
              PROVE  Has(x, r, c) <=> <<r - x.ro, c - x.co>> \in Ones(x)
          <6> DEFINE j == c - x.co i == r - x.ro
          <6>1. j \in 0 .. x.cols - 1 /\ i \in 0 .. x.rows - 1 /\ j + x.co = c /\ i + x.ro = r
                /\ j \in Int /\ i \in Int
            BY <1>1, <5>1 DEF Within
          <6> HIDE DEF j, i
          <6>2. <<i, j>> \in Ones(x) <=> Has(x, r, c)
            BY <1>1, <6>1, OnesAt
          <6> QED BY <6>2 DEF j, i
        <5> QED BY <1>1, <5>1 DEF Written, Framed
      <4>5. Cells(x) = Grid!Paint(Cells(x), Ones(x))
        <5>1. Ones(x) \subseteq Places(x)
          BY DEF Ones
        <5> QED BY <1>1, <4>4, <5>1, PaintIs
      <4> QED BY <1>1, <4>1, <4>2, <4>3, <4>5 DEF C
    <3>2. CASE f # 0
      <4> DEFINE M == {p \in (0 .. x.rows - 1) \X (0 .. x.cols - f - 1) :
                         <<p[1], IF p[2] < 0 THEN p[2] ELSE p[2] + f>> \in Ones(x)}
      <4>1. ~(0 < 0 \/ 0 + f > x.cols) /\ f \in Nat \ {0} /\ 0 \in Int
        BY <1>1, <2>3, <3>2
      <4>2. Formed(d) /\ Cells(d) = Grid!Paint([Cells(x) EXCEPT !.cols = x.cols - f], M)
        <5>1. ColumnsDeleted(d, x, 0, f)
          BY <4>1, DeleteColumnsIs DEF d
        <5> QED BY <4>1, <5>1 DEF ColumnsDeleted
      <4>3. M = N
        <5>1. ASSUME NEW p \in M PROVE p \in N
          <6>1. p = <<p[1], p[2]>> /\ p[2] \in 0 .. x.cols - f - 1 /\ <<p[1], p[2] + f>> \in Ones(x)
            BY <2>3
          <6>2. (p[2] + f) - f = p[2] /\ p[2] + f >= f
            <7>1. p[2] \in Nat /\ f \in Nat
              BY ONLY <2>3, <6>1
            <7> QED BY ONLY <7>1
          <6>3. <<p[1], p[2] + f>>[2] = p[2] + f /\ <<p[1], p[2] + f>>[1] = p[1]
            OBVIOUS
          <6> HIDE DEF M
          <6> QED BY <6>1, <6>2, <6>3
        <5>2. ASSUME NEW p \in Ones(x), p[2] >= f PROVE <<p[1], p[2] - f>> \in M
          <6>1. p = <<p[1], p[2]>> /\ p[2] \in 0 .. x.cols - 1 /\ p[1] \in 0 .. x.rows - 1
            BY DEF Ones, Places
          <6> DEFINE j == p[2] - f
          <6>2. j \in 0 .. x.cols - f - 1 /\ ~(j < 0) /\ j + f = p[2]
            <7>1. \A e \in 0 .. x.cols - 1 :
                    e >= f => (e - f \in 0 .. x.cols - f - 1 /\ ~(e - f < 0) /\ (e - f) + f = e)
              <8>1. x.cols \in Nat /\ f \in Nat
                BY <1>1, <2>3
              <8> QED BY ONLY <8>1
            <7> QED BY <5>2, <6>1, <7>1
          <6>3. <<p[1], j>>[2] = j /\ <<p[1], j>>[1] = p[1]
            OBVIOUS
          <6> HIDE DEF j
          <6>4. <<p[1], j>> \in M
            BY <6>1, <6>2, <6>3
          <6> QED BY <6>4 DEF j
        <5> QED BY <5>1, <5>2
      <4> HIDE DEF M, N
      <4> QED BY <2>4, <4>2, <4>3 DEF C, R
    <3> QED BY <3>1, <3>2
  <2>6. d.cols = R /\ d.rows = x.rows
    <3> HIDE DEF N, u
    <3>1. Cells(d) = [rows |-> u.rows, cols |-> u.cols, ro |-> u.ro, co |-> u.co,
                      arows |-> u.arows, acols |-> u.acols, on |-> Painted(u, N)]
      BY <2>5, PaintAre
    <3>2. Cells(d).cols = u.cols /\ Cells(d).rows = u.rows
      BY <3>1
    <3> QED BY <2>4, <3>2, CellsAre
  <2> HIDE DEF u, N
  <2>7. Region(d)
    <3>1. d.cols > 0 /\ d.rows > 0
      BY <2>3, <2>6
    <3> QED BY <2>5, <3>1, RegionIs
  <2>8. Formed(z) /\ Cells(z) = [Cells(d) EXCEPT !.cols = k]
    BY <2>1, <2>3, <2>6, <2>7, FewerColumns DEF Region
  <2>9. Cells(z) = [Grid!Paint([C EXCEPT !.cols = @ - f],
                      {<<p[1], p[2] - f>> : p \in {q \in Grid!View(C) : q[2] >= f}})
                    EXCEPT !.cols = l - f + 1]
    BY <1>2, <2>4, <2>5, <2>8 DEF N, R, k
  <2>10. \E j, i \in rest :
           /\ \A c \in rest : j <= c /\ c <= i
           /\ Cells(z) = [Grid!Paint([C EXCEPT !.cols = @ - j],
                            {<<p[1], p[2] - j>> : p \in {q \in Grid!View(C) : q[2] >= j}})
                          EXCEPT !.cols = i - j + 1]
    BY <2>2, <2>9
  <2> QED BY <1>3, <1>5, <2>8, <2>10 DEF ColumnsTrimmed, z, C
<1> QED BY <1>4, <1>5
-----------------------------------------------------------------------------
(* The calls                                                               *)

(* Every call does to the cells what it promises.                          *)

(* The name of a call and its arguments. *)
LEMMA CallIs ==
  ASSUME NEW n
  PROVE  /\ (<<n>> \o <<>>)[1] = n
         /\ \A a : (<<n>> \o <<a>>)[1] = n /\ (<<n>> \o <<a>>)[2] = a
         /\ \A a, e : /\ (<<n>> \o <<a, e>>)[1] = n
                      /\ (<<n>> \o <<a, e>>)[2] = a /\ (<<n>> \o <<a, e>>)[3] = e
         /\ \A a, e, i : /\ (<<n>> \o <<a, e, i>>)[1] = n /\ (<<n>> \o <<a, e, i>>)[2] = a
                         /\ (<<n>> \o <<a, e, i>>)[3] = e /\ (<<n>> \o <<a, e, i>>)[4] = i
         /\ \A a, e, i, o :
              /\ (<<n>> \o <<a, e, i, o>>)[1] = n /\ (<<n>> \o <<a, e, i, o>>)[2] = a
              /\ (<<n>> \o <<a, e, i, o>>)[3] = e /\ (<<n>> \o <<a, e, i, o>>)[4] = i
              /\ (<<n>> \o <<a, e, i, o>>)[5] = o
OBVIOUS

(* The matrix is well formed after the call, which did what it is to do. *)
Kept == Formed(m') /\ Grid!Does(call')

(* Cells are a function of the matrix only.                                *)
LEMMA Primed == Cells(m') = Cells(m)'
BY DEF Cells

(* The window is the whole allocation.                                     *)
LEMMA RestoreDoes == ASSUME Formed(m), Restore PROVE Kept
<1>1. call'[1] = "reset" /\ m' = Reset(m)
  BY CallIs DEF Restore, Does
<1>2. Formed(m') /\ Grid!Reset
  BY <1>1, ResetIs, Primed DEF Grid!Reset
<1> QED BY <1>1, <1>2 DEF Kept, Grid!Does

(* m is given b, as it is, negated, or transposed.                         *)
LEMMA GiveDoes == ASSUME LongBits = WordBits, Formed(m), Formed(b), Give PROVE Kept
<1>1. Cells(b).rows = b.rows /\ Cells(b).cols = b.cols
  BY CellsAre
<1>2. CASE Does("=", <<>>, Assign(m, b), 0)
  <2>1. call'[1] = "=" /\ m' = Assign(m, b)
    BY <1>2, CallIs DEF Does
  <2>2. Formed(m') /\ Grid!Assign
    BY <1>1, <2>1, AssignIs, Primed DEF Grid!Assign
  <2> QED BY <2>1, <2>2 DEF Kept, Grid!Does
<1>3. CASE Does("equalsNot", <<>>, EqualsNot(m, b), 0)
  <2>1. call'[1] = "equalsNot" /\ m' = EqualsNot(m, b)
    BY <1>3, CallIs DEF Does
  <2>2. Formed(m') /\ Grid!AssignNot
    BY <1>1, <2>1, EqualsNotIs, Primed DEF Grid!AssignNot
  <2> QED BY <2>1, <2>2 DEF Kept, Grid!Does
<1>4. CASE Does("transpose_", <<>>, Transposed(m, b), 0)
  <2>1. call'[1] = "transpose_" /\ m' = Transposed(m, b)
    BY <1>4, CallIs DEF Does
  <2>2. Formed(m') /\ Grid!AssignTransposed
    BY <1>1, <2>1, TransposedIs, Primed DEF Grid!AssignTransposed
  <2> QED BY <2>1, <2>2 DEF Kept, Grid!Does
<1> QED BY <1>2, <1>3, <1>4 DEF Give

(* The window moves, its cells do not.                                     *)
LEMMA MoveWindowDoes == ASSUME Region(m), MoveWindow PROVE Kept
<1>1. PICK dr \in -1 .. 1, dc \in -1 .. 1, r \in {m.rows - 1, m.rows}, c \in {m.cols - 1, m.cols} :
        /\ m.ro + dr >= 0 /\ m.ro + dr + r <= m.arows /\ r > 0
        /\ m.co + dc >= 0 /\ m.co + dc + c <= m.acols /\ c > 0
        /\ Does("offset", <<dr, dc, r, c>>, Offset(m, dr, dc, r, c), 0)
  BY DEF MoveWindow
<1>2. /\ call'[1] = "offset" /\ call'[2] = dr /\ call'[3] = dc /\ call'[4] = r /\ call'[5] = c
      /\ m' = Offset(m, dr, dc, r, c)
  BY <1>1, CallIs DEF Does
<1>3. dr \in Int /\ dc \in Int /\ r \in Nat /\ c \in Nat /\ Formed(m)
  <2>1. m.rows \in Nat /\ m.cols \in Nat /\ Formed(m)
    BY DEF Region, Formed
  <2> QED BY <1>1, <2>1
<1>4. CanMove(m, dr, dc, r, c)
  BY <1>1, <1>3 DEF CanMove
<1>5. Moved(m', m, dr, dc, r, c)
  BY <1>2, <1>3, <1>4, MovedIs
<1>6. Cells(m') = [Cells(m) EXCEPT !.ro = @ + dr, !.co = @ + dc, !.rows = r, !.cols = c]
  <2> DEFINE C == Cells(m) T == C.on D == Cells(m')
             E == [C EXCEPT !.ro = m.ro + dr, !.co = m.co + dc, !.rows = r, !.cols = c]
  <2>1. /\ m'.rows = r /\ m'.cols = c /\ m'.ro = m.ro + dr /\ m'.co = m.co + dc
        /\ m'.arows = m.arows /\ m'.acols = m.acols /\ m'.mem = m.mem
    BY <1>5 DEF Moved
  <2>2. D = [rows |-> r, cols |-> c, ro |-> m.ro + dr, co |-> m.co + dc,
             arows |-> m.arows, acols |-> m.acols, on |-> T]
    BY <1>3, <2>1, CellsOffset
  <2>3. C = [rows |-> m.rows, cols |-> m.cols, ro |-> m.ro, co |-> m.co,
             arows |-> m.arows, acols |-> m.acols, on |-> T]
    BY CellsAs
  <2>4. C.ro = m.ro /\ C.co = m.co
    BY <2>3
  <2>5. E = [C EXCEPT !.ro = m.ro + dr, !.co = m.co + dc, !.rows = r, !.cols = c]
    OBVIOUS
  <2> HIDE DEF C, T, D, E
  <2>6. E = [rows |-> r, cols |-> c, ro |-> m.ro + dr, co |-> m.co + dc,
             arows |-> m.arows, acols |-> m.acols, on |-> T]
    BY ONLY <2>3, <2>5
  <2>7. D = E
    BY <2>2, <2>6
  <2> QED BY <2>4, <2>5, <2>7 DEF C, D
<1>7. Grid!Window(dr, dc, r, c)
  BY <1>6, Primed DEF Grid!Window
<1>8. Formed(m')
  BY <1>5 DEF Moved
<1> QED BY <1>2, <1>7, <1>8 DEF Kept, Grid!Does

(* A cell is set.                                                          *)
LEMMA PokeDoes == ASSUME Region(m), Poke PROVE Kept
<1>1. PICK r \in {-1, 0, m.rows}, c \in {-1, 0, m.cols - 1, m.cols}, v \in BOOLEAN :
        Does("setBit", <<r, c, v>>, SetBit(m, r, c, v), 0)
  BY DEF Poke
<1>2. /\ call'[1] = "setBit" /\ call'[2] = r /\ call'[3] = c /\ call'[4] = v
      /\ m' = SetBit(m, r, c, v)
  BY <1>1, CallIs DEF Does
<1>3. r \in Int /\ c \in Int
  BY DEF Region, Formed
<1>4. Formed(m') /\ Grid!Set(r, c, v)
  <2>1. /\ Cells(m).ro = m.ro /\ Cells(m).co = m.co
        /\ Cells(m).arows = m.arows /\ Cells(m).acols = m.acols
    BY CellsAre
  <2>2. /\ Formed(m')
        /\ Cells(m') = IF r < 0 \/ c < 0 \/ r + m.ro >= m.arows \/ c + m.co >= m.acols THEN Cells(m)
                       ELSE [Cells(m) EXCEPT !.on = IF v THEN @ \cup {<<r + m.ro, c + m.co>>}
                                                   ELSE @ \ {<<r + m.ro, c + m.co>>}]
    BY <1>2, <1>3, PokeIs
  <2>3. <<r + m.ro, c + m.co>>[1] = r + m.ro /\ <<r + m.ro, c + m.co>>[2] = c + m.co
    OBVIOUS
  <2> QED BY <2>1, <2>2, <2>3, Primed DEF Grid!Set
<1> QED BY <1>2, <1>4 DEF Kept, Grid!Does

(* The window is filled or negated.                                        *)
LEMMA PaintDoes == ASSUME LongBits = WordBits, Region(m), Paint PROVE Kept
<1>1. ASSUME NEW v \in BOOLEAN, Does("=bool", <<v>>, Fill(m, v), 0) PROVE Kept
  <2>1. call'[1] = "=bool" /\ call'[2] = v /\ m' = Fill(m, v)
    BY <1>1, CallIs DEF Does
  <2>2. Formed(m') /\ Grid!Fill(v)
    BY <2>1, FillIs, Primed DEF Grid!Fill
  <2> QED BY <2>1, <2>2 DEF Kept, Grid!Does
<1>2. CASE Does("~", <<>>, Negate(m), 0)
  <2>1. call'[1] = "~" /\ m' = Negate(m)
    BY <1>2, CallIs DEF Does
  <2>2. Formed(m') /\ Grid!Negate
    BY <2>1, NegateIs, Primed DEF Grid!Negate
  <2> QED BY <2>1, <2>2 DEF Kept, Grid!Does
<1> QED BY <1>1, <1>2 DEF Paint

(* Two matrices of one size.                                               *)
LEMMA SameIs == ASSUME NEW x, NEW y PROVE Grid!Same(Cells(x), Cells(y)) <=> SameSize(x, y)
BY CellsAre DEF Grid!Same, SameSize

(* m is combined with b.                                                   *)
LEMMA MixDoes == ASSUME LongBits = WordBits, Region(m), Formed(b), Mix PROVE Kept
<1>1. PICK op \in {"&=", "|=", "^="} : Does(op, <<>>, Combine(m, b, op), 0)
  BY DEF Mix
<1>2. call'[1] = op /\ m' = Combine(m, b, op)
  BY <1>1, CallIs DEF Does
<1>3. /\ Formed(m')
      /\ Cells(m)' = IF Grid!Same(Cells(m), Cells(b))
                     THEN Grid!Paint(Cells(m), Combined(op, Grid!View(Cells(m)), Grid!View(Cells(b))))
                     ELSE Cells(m)
  BY <1>2, CombineIs, SameIs, Primed
<1>4. CASE op = "&="
  <2>1. Grid!And
    BY <1>3, <1>4 DEF Grid!And, Combined
  <2> QED BY <1>2, <1>3, <1>4, <2>1 DEF Kept, Grid!Does
<1>5. CASE op = "|="
  <2>1. Grid!Or
    BY <1>3, <1>5 DEF Grid!Or, Combined
  <2> QED BY <1>2, <1>3, <1>5, <2>1 DEF Kept, Grid!Does
<1>6. CASE op = "^="
  <2>1. Grid!ExOr
    BY <1>3, <1>6 DEF Grid!ExOr, Grid!Xor, Combined, Differ
  <2> QED BY <1>2, <1>3, <1>6, <2>1 DEF Kept, Grid!Does
<1> QED BY <1>4, <1>5, <1>6

(* Into m is or'ed what it has in common with b when turned.               *)
LEMMA MixInDoes == ASSUME LongBits = WordBits, Region(m), m.rows > 0, Formed(b), MixIn PROVE Kept
<1>1. PICK op \in {"orAnd", "orExor"} : Does(op, <<>>, OrIn(m, Rotate(m, 180), b, op), 0)
  BY DEF MixIn
<1>2. call'[1] = op /\ m' = OrIn(m, Rotate(m, 180), b, op)
  BY <1>1, CallIs DEF Does
<1>3. /\ Formed(m')
      /\ Cells(m)' = IF Grid!Same(Cells(m), Cells(b))
                     THEN Grid!Paint(Cells(m), Grid!View(Cells(m))
                            \cup Mixed(op, Grid!Turned(Cells(m)), Grid!View(Cells(b))))
                     ELSE Cells(m)
  <2>1. OrInGives(OrIn(m, Rotate(m, 180), b, op), m, b, op)
    BY OrInIs
  <2> QED BY <1>2, <2>1, SameIs, Primed DEF OrInGives
<1>4. CASE op = "orAnd"
  <2>1. Grid!OrAnd
    BY <1>3, <1>4 DEF Grid!OrAnd, Mixed
  <2> QED BY <1>2, <1>3, <1>4, <2>1 DEF Kept, Grid!Does
<1>5. CASE op = "orExor"
  <2>1. Grid!OrExor
    BY <1>3, <1>5 DEF Grid!OrExor, Grid!Xor, Mixed, Differ
  <2> QED BY <1>2, <1>3, <1>5, <2>1 DEF Kept, Grid!Does
<1> QED BY <1>4, <1>5

(* Rows or columns are deleted.                                            *)
LEMMA DeleteDoes == ASSUME LongBits = WordBits, Region(m), Delete PROVE Kept
<1>1. /\ Grid!View(Cells(m)) = Ones(m) /\ Cells(m).rows = m.rows /\ Cells(m).cols = m.cols
      /\ m.rows \in Nat /\ m.cols \in Nat
  BY ViewIs, CellsAre DEF Region, Formed
<1>2. ASSUME NEW n \in 1 .. 4, NEW s \in -1 .. m.rows,
             Does("deleteRows", <<s, n>>, DeleteRows(m, s, n), 0)
      PROVE  Kept
  <2>1. call'[1] = "deleteRows" /\ call'[2] = s /\ call'[3] = n /\ m' = DeleteRows(m, s, n)
    BY <1>2, CallIs DEF Does
  <2>2. RowsDeleted(m', m, s, n)
    <3>1. s \in Int /\ n \in Nat \ {0}
      BY <1>1
    <3> QED BY <2>1, <3>1, DeleteRowsIs
  <2>3. [Cells(m) EXCEPT !.rows = m.rows - n] = [Cells(m) EXCEPT !.rows = @ - n]
    BY <1>1
  <2>4. Formed(m') /\ Grid!DeleteRows(s, n)
    BY <1>1, <2>2, <2>3, Primed DEF RowsDeleted, Grid!DeleteRows
  <2> QED BY <2>1, <2>4 DEF Kept, Grid!Does
<1>3. ASSUME NEW n \in 1 .. 4, NEW s \in -1 .. m.cols,
             Does("deleteColumns", <<s, n>>, DeleteColumns(m, s, n), 0)
      PROVE  Kept
  <2>1. call'[1] = "deleteColumns" /\ call'[2] = s /\ call'[3] = n /\ m' = DeleteColumns(m, s, n)
    BY <1>3, CallIs DEF Does
  <2>2. ColumnsDeleted(m', m, s, n)
    <3>1. s \in Int /\ n \in Nat \ {0}
      BY <1>1
    <3> QED BY <2>1, <3>1, DeleteColumnsIs
  <2>3. [Cells(m) EXCEPT !.cols = m.cols - n] = [Cells(m) EXCEPT !.cols = @ - n]
    BY <1>1
  <2>4. Formed(m') /\ Grid!DeleteColumns(s, n)
    BY <1>1, <2>2, <2>3, Primed DEF ColumnsDeleted, Grid!DeleteColumns
  <2> QED BY <2>1, <2>4 DEF Kept, Grid!Does
<1> QED BY <1>2, <1>3 DEF Delete

(* Rows or columns are inserted.                                           *)
LEMMA InsertDoes == ASSUME LongBits = WordBits, Region(m), Insert PROVE Kept
<1>1. /\ Grid!View(Cells(m)) = Ones(m) /\ Cells(m).rows = m.rows /\ Cells(m).cols = m.cols
      /\ m.rows \in Nat /\ m.cols \in Nat
  BY ViewIs, CellsAre DEF Region, Formed
<1>2. ASSUME NEW n \in {1, 3}, NEW v \in BOOLEAN, NEW s \in -1 .. m.rows + 1,
             Does("insertRows", <<s, n, v>>, InsertRows(m, s, n, v), 0)
      PROVE  Kept
  <2>1. /\ call'[1] = "insertRows" /\ call'[2] = s /\ call'[3] = n /\ call'[4] = v
        /\ m' = InsertRows(m, s, n, v)
    BY <1>2, CallIs DEF Does
  <2>2. s \in Int /\ n \in Nat \ {0}
    BY <1>1
  <2>3. RowsInserted(m', m, s, n, v)
    BY <2>1, <2>2, InsertRowsIs
  <2>4. Formed(m') /\ Grid!InsertRows(s, n, v)
    BY <1>1, <2>3, Primed DEF RowsInserted, Grid!InsertRows
  <2> QED BY <2>1, <2>4 DEF Kept, Grid!Does
<1>3. ASSUME NEW n \in {1, 3}, NEW v \in BOOLEAN, NEW s \in -1 .. m.cols + 1,
             Does("insertColumns", <<s, n, v>>, InsertColumns(m, s, n, v), 0)
      PROVE  Kept
  <2>1. /\ call'[1] = "insertColumns" /\ call'[2] = s /\ call'[3] = n /\ call'[4] = v
        /\ m' = InsertColumns(m, s, n, v)
    BY <1>3, CallIs DEF Does
  <2>2. s \in Int /\ n \in Nat \ {0}
    BY <1>1
  <2>3. ColumnsInserted(m', m, s, n, v)
    BY <2>1, <2>2, InsertColumnsIs
  <2>4. Formed(m') /\ Grid!InsertColumns(s, n, v)
    BY <1>1, <2>3, Primed DEF ColumnsInserted, Grid!InsertColumns
  <2> QED BY <2>1, <2>4 DEF Kept, Grid!Does
<1> QED BY <1>2, <1>3 DEF Insert

(* m grows or shrinks.                                                     *)
LEMMA ExtendDoes == ASSUME LongBits = WordBits, Region(m), Extend PROVE Kept
<1>1. PICK r \in {1, m.rows + 1}, c \in {1, m.cols, m.cols + 2}, v \in BOOLEAN :
        Does("grow", <<r, c, v>>, Grow(m, r, c, v), 0)
  BY DEF Extend
<1>2. /\ call'[1] = "grow" /\ call'[2] = r /\ call'[3] = c /\ call'[4] = v
      /\ m' = Grow(m, r, c, v)
  BY <1>1, CallIs DEF Does
<1>3. Grid!View(Cells(m)) = Ones(m) /\ Grid!All(Cells(m)) = Places(m) /\ r \in Nat /\ c \in Nat
  <2>1. Formed(m) /\ m.rows \in Nat /\ m.cols \in Nat
    BY DEF Region, Formed
  <2>2. r \in Nat /\ c \in Nat
    BY <2>1
  <2> QED BY <2>1, <2>2, ViewIs
<1>4. Formed(m') /\ Grid!Grow(r, c, v)
  <2>1. Formed(Grow(m, r, c, v)) /\ Cells(Grow(m, r, c, v)) = Grid!Fresh(r, c, Extended(m, r, c, v))
    <3>1. r \in Nat /\ c \in Nat /\ v \in BOOLEAN
      BY <1>1, <1>3
    <3> QED BY <3>1, GrowIs
  <2>2. Formed(m') /\ Cells(m)' = Grid!Fresh(r, c, Extended(m, r, c, v))
    <3>1. Formed(m') /\ Cells(m') = Grid!Fresh(r, c, Extended(m, r, c, v))
      BY <1>2, <2>1
    <3> QED BY <3>1, Primed
  <2>3. Grid!Grow(r, c, v) <=> Cells(m)' = Grid!Fresh(r, c, Extended(m, r, c, v))
    BY <1>3 DEF Grid!Grow, Extended
  <2> QED BY <2>2, <2>3
<1> QED BY <1>2, <1>4 DEF Kept, Grid!Does

(* Rows or columns are swapped.                                            *)
LEMMA SwapDoes ==
  ASSUME LongBits = WordBits, Region(m), m.rows > 0, m.cols > 0, Swap PROVE Kept
<1>1. Grid!View(Cells(m)) = Ones(m)
  BY ViewIs DEF Region
<1>2. ASSUME NEW i \in 0 .. m.rows - 1, NEW j \in 0 .. m.rows - 1,
             Does("swapRows", <<i, j>>, SwapRows(m, i, j), 0)
      PROVE  Kept
  <2>1. call'[1] = "swapRows" /\ call'[2] = i /\ call'[3] = j /\ m' = SwapRows(m, i, j)
    BY <1>2, CallIs DEF Does
  <2>2. RowsSwapped(m', m, i, j)
    BY <2>1, SwapRowsIs
  <2>3. Formed(m') /\ Grid!SwapRows(i, j)
    BY <1>1, <2>2, Primed DEF RowsSwapped, Grid!SwapRows
  <2> QED BY <2>1, <2>3 DEF Kept, Grid!Does
<1>3. ASSUME NEW i \in 0 .. m.cols - 1, NEW j \in 0 .. m.cols - 1,
             Does("swapColumns", <<i, j>>, SwapColumns(m, i, j), 0)
      PROVE  Kept
  <2>1. call'[1] = "swapColumns" /\ call'[2] = i /\ call'[3] = j /\ m' = SwapColumns(m, i, j)
    BY <1>3, CallIs DEF Does
  <2>2. ColumnsSwapped(m', m, i, j)
    BY <2>1, SwapColumnsIs
  <2>3. Formed(m') /\ Grid!SwapColumns(i, j)
    BY <1>1, <2>2, Primed DEF ColumnsSwapped, Grid!SwapColumns
  <2> QED BY <2>1, <2>3 DEF Kept, Grid!Does
<1> QED BY <1>2, <1>3 DEF Swap

(* m is turned.                                                            *)
LEMMA TurnDoes == ASSUME LongBits = WordBits, Region(m), m.rows > 0, Turn PROVE Kept
<1>1. /\ Grid!View(Cells(m)) = Ones(m) /\ Cells(m).rows = m.rows /\ Cells(m).cols = m.cols
      /\ Formed(m)
  BY ViewIs, CellsAre DEF Region
<1>2. CASE Does("transpose", <<>>, Transpose(m), 0)
  <2>1. call'[1] = "transpose" /\ m' = Transpose(m)
    BY <1>2, CallIs DEF Does
  <2>2. Formed(m') /\ Grid!Transpose
    BY <1>1, <2>1, TransposeIs, Primed DEF Grid!Transpose
  <2> QED BY <2>1, <2>2 DEF Kept, Grid!Does
<1>3. ASSUME NEW angle \in {-90, 0, 90, 180}, Does("rotate", <<angle>>, Rotate(m, angle), 0)
      PROVE  Kept
  <2>1. call'[1] = "rotate" /\ call'[2] = angle /\ m' = Rotate(m, angle)
    BY <1>3, CallIs DEF Does
  <2>2. TurnGives(m', m, angle)
    BY <1>1, <2>1, TurnIs
  <2>3. Formed(m') /\ Grid!Rotate(angle)
    BY <1>1, <2>2, Primed DEF TurnGives, Grid!Rotate, Grid!Turned
  <2> QED BY <2>1, <2>3 DEF Kept, Grid!Does
<1> QED BY <1>2, <1>3 DEF Turn

(* m is trimmed.                                                           *)
LEMMA TrimDoes ==
  ASSUME LongBits = WordBits, Region(m), m.rows > 0, m.cols > 0, Trim PROVE Kept
<1>1. PICK v, r :
        /\ v \in BOOLEAN
        /\ \/ Does("trimRows", <<v>>, TrimRows(m, v), r)
           \/ Does("trimColumns", <<v>>, TrimColumns(m, v), r)
  BY DEF Trim
<1>2. CASE Does("trimRows", <<v>>, TrimRows(m, v), r)
  <2>1. call'[1] = "trimRows" /\ call'[2] = v /\ m' = TrimRows(m, v)
    BY <1>2, CallIs DEF Does
  <2>2. Formed(m') /\ RowsTrimmed(Cells(m), Cells(m)', v)
    BY <1>1, <2>1, TrimRowsIs, Primed
  <2>3. Grid!TrimRows(v)
    BY <2>2 DEF RowsTrimmed, Grid!TrimRows
  <2> QED BY <2>1, <2>2, <2>3 DEF Kept, Grid!Does
<1>3. CASE Does("trimColumns", <<v>>, TrimColumns(m, v), r)
  <2>1. call'[1] = "trimColumns" /\ call'[2] = v /\ m' = TrimColumns(m, v)
    BY <1>3, CallIs DEF Does
  <2>2. Formed(m') /\ ColumnsTrimmed(Cells(m), Cells(m)', v)
    BY <1>1, <2>1, TrimColumnsIs, Primed
  <2>3. Grid!TrimColumns(v)
    BY <2>2 DEF ColumnsTrimmed, Grid!TrimColumns
  <2> QED BY <2>1, <2>2, <2>3 DEF Kept, Grid!Does
<1> QED BY <1>1, <1>2, <1>3

(* Questions change nothing.                                               *)
LEMMA AskDoes == ASSUME Formed(m), Ask PROVE Kept
<1>1. PICK r : \E args, n : /\ n \in {"==", ">=", "count", "match", "logicAnd", "rowTest",
                                      "rowEqualTo", "rowGreaterThan"}
                            /\ Does(n, args, m, r) /\ args \in {<<>>} \cup {<<i>> : i \in 0 .. m.rows - 1}
  BY DEF Ask
<1>2. PICK args, n : /\ n \in {"==", ">=", "count", "match", "logicAnd", "rowTest",
                               "rowEqualTo", "rowGreaterThan"}
                     /\ Does(n, args, m, r) /\ args \in {<<>>} \cup {<<i>> : i \in 0 .. m.rows - 1}
  BY <1>1
<1>3. call'[1] = n /\ m' = m
  BY <1>2, CallIs DEF Does
<1>4. Cells(m)' = Cells(m)
  BY <1>3 DEF Cells
<1> QED BY <1>2, <1>3, <1>4 DEF Kept, Grid!Does
-----------------------------------------------------------------------------
(* The matrix keeps what it promises                                       *)

(* Every step keeps both matrices well formed, and the cells of m become   *)
(* what the call promises.                                                 *)
LEMMA NextKeeps ==
  ASSUME LongBits = WordBits, TypeOK, Next
  PROVE  TypeOK' /\ Kept /\ b' = b
<1>1. Formed(m) /\ Formed(b) /\ calls \in Nat
  BY DEF TypeOK
<1>2. calls' = calls + 1 /\ b' = b
  BY DEF Next
<1>3. Kept
  <2>1. CASE Restore
    BY <1>1, <2>1, RestoreDoes
  <2>2. CASE Give
    BY <1>1, <2>2, GiveDoes
  <2>3. CASE m.rows > 0 /\ m.cols > 0
    <3>1. Region(m)
      BY <1>1, <2>3, RegionIs
    <3>2. CASE MoveWindow
      BY <3>1, <3>2, MoveWindowDoes
    <3>3. CASE Poke
      BY <3>1, <3>3, PokeDoes
    <3>4. CASE Paint
      BY <3>1, <3>4, PaintDoes
    <3>5. CASE Mix
      BY <1>1, <3>1, <3>5, MixDoes
    <3>6. CASE MixIn
      BY <1>1, <2>3, <3>1, <3>6, MixInDoes
    <3>7. CASE Delete
      BY <3>1, <3>7, DeleteDoes
    <3>8. CASE Insert
      BY <3>1, <3>8, InsertDoes
    <3>9. CASE Extend
      BY <3>1, <3>9, ExtendDoes
    <3>10. CASE Swap
      BY <2>3, <3>1, <3>10, SwapDoes
    <3>11. CASE Turn
      BY <2>3, <3>1, <3>11, TurnDoes
    <3>12. CASE Trim
      BY <2>3, <3>1, <3>12, TrimDoes
    <3>13. CASE Ask
      BY <1>1, <3>13, AskDoes
    <3> QED BY <2>1, <2>2, <3>2, <3>3, <3>4, <3>5, <3>6, <3>7, <3>8, <3>9, <3>10, <3>11, <3>12,
               <3>13 DEF Next
  <2> QED BY <2>1, <2>2, <2>3 DEF Next
<1>4. Formed(m') /\ Formed(b') /\ calls' \in Nat
  BY <1>1, <1>2, <1>3 DEF Kept
<1> QED BY <1>2, <1>3, <1>4 DEF TypeOK, Formed

(* Whatever is called, both matrices stay such as a call may be given: the *)
(* window lies within the allocation, and the allocation holds as many     *)
(* longs as its rows and columns take, in every order of calls, whatever   *)
(* the size of the matrices.                                               *)
THEOREM MatrixTypeCorrect ==
  ASSUME LongBits = WordBits
  PROVE  Spec => []TypeOK
<1>1. Init => TypeOK
  BY StartsAssumption DEF Init, TypeOK
<1>2. TypeOK /\ [Next]_vars => TypeOK'
  <2>1. ASSUME TypeOK, Next PROVE TypeOK'
    BY <2>1, NextKeeps
  <2>2. ASSUME TypeOK, UNCHANGED vars PROVE TypeOK'
    BY <2>2 DEF TypeOK, vars, Formed
  <2> QED BY <2>1, <2>2
<1> QED BY <1>1, <1>2, PTL DEF Spec

(* Words, masks and copies within one allocation do to the cells what the  *)
(* operations promise, and to no cell beside the window anything at all:   *)
(* BinaryMatrix implements CellGrid, for matrices of every size and every  *)
(* window in them.                                                         *)
THEOREM MatrixKeepsPromises ==
  ASSUME LongBits = WordBits
  PROVE  Spec => CellsAsPromised
<1>1. ASSUME TypeOK, [Next]_vars
      PROVE  [Grid!Does(call') /\ UNCHANGED Cells(b)]_<<Cells(m), Cells(b), call>>
  <2>1. CASE Next
    <3>1. Kept /\ b' = b
      BY <1>1, <2>1, NextKeeps
    <3>2. Cells(b)' = Cells(b)
      BY <3>1 DEF Cells
    <3> QED BY <3>1, <3>2 DEF Kept
  <2>2. CASE UNCHANGED vars
    <3>1. Cells(m)' = Cells(m) /\ Cells(b)' = Cells(b) /\ call' = call
      BY <2>2 DEF vars, Cells
    <3> QED BY <3>1
  <2> QED BY <1>1, <2>1, <2>2
<1>2. Spec => []TypeOK
  BY MatrixTypeCorrect
<1>3. [][Next]_vars /\ []TypeOK => CellsAsPromised
  BY <1>1, PTL DEF CellsAsPromised, Grid!GridSpec
<1> QED BY <1>2, <1>3, PTL DEF Spec
-----------------------------------------------------------------------------
(* Rows as numbers                                                         *)

(* The number a row is, column by column. *)
LEMMA ValueGoes ==
  ASSUME NEW x, NEW r, NEW columns, x.cols \in Nat
  PROVE  \E done : /\ done[0] = 0
                   /\ \A k \in 1 .. x.cols : done[k] = 2 * done[k - 1] + (IF Bit(x, r, columns[k]) THEN 1 ELSE 0)
                   /\ Value(x, r, columns) = done[x.cols]
<1> DEFINE top == x.cols
           Is(f, n) == f = [k \in 0 .. n |-> IF k = 0 THEN 0 ELSE 2 * f[k - 1] + (IF Bit(x, r, columns[k]) THEN 1 ELSE 0)]
           S == {n \in Nat : \E f : Is(f, n)}
<1>1. 0 \in S
  <2> DEFINE f == [k \in 0 .. 0 |-> 0]
  <2>1. Is(f, 0)
    BY \A k \in 0 .. 0 : k = 0
  <2> QED BY <2>1
<1>2. ASSUME NEW n \in Nat, n \in S PROVE n + 1 \in S
  <2>1. PICK g : Is(g, n)
    BY <1>2
  <2> DEFINE f == [k \in 0 .. n + 1 |-> IF k = n + 1 THEN 2 * g[n] + (IF Bit(x, r, columns[k]) THEN 1 ELSE 0) ELSE g[k]]
  <2>2. \A k \in 0 .. n : g[k] = IF k = 0 THEN 0 ELSE 2 * g[k - 1] + (IF Bit(x, r, columns[k]) THEN 1 ELSE 0)
    BY <2>1
  <2>3. ASSUME NEW k \in 0 .. n + 1
        PROVE  f[k] = IF k = 0 THEN 0 ELSE 2 * f[k - 1] + (IF Bit(x, r, columns[k]) THEN 1 ELSE 0)
    <3>1. CASE k = n + 1
      <4>1. k # 0 /\ k - 1 = n /\ n \in 0 .. n + 1 /\ n # n + 1
        BY <3>1
      <4>2. f[k] = 2 * g[n] + (IF Bit(x, r, columns[k]) THEN 1 ELSE 0) /\ f[k - 1] = g[n]
        BY <3>1, <4>1
      <4> QED BY <4>1, <4>2
    <3>2. CASE k # n + 1
      <4>1. k \in 0 .. n
        BY <3>2
      <4>2. k # 0 => k - 1 \in 0 .. n + 1 /\ k - 1 # n + 1
        BY <3>2
      <4>3. f[k] = g[k] /\ (k # 0 => f[k - 1] = g[k - 1])
        BY <3>2, <4>2
      <4> QED BY <2>2, <4>1, <4>3
    <3> QED BY <3>1, <3>2
  <2>4. Is(f, n + 1)
    <3>1. f = [k \in 0 .. n + 1 |-> f[k]]
      OBVIOUS
    <3> HIDE DEF f
    <3> QED BY <2>3, <3>1
  <2>5. n + 1 \in Nat
    OBVIOUS
  <2> QED BY <2>4, <2>5
<1>3. top \in S
  <2>1. top \in Nat
    OBVIOUS
  <2> HIDE DEF S, top
  <2> QED BY <1>1, <1>2, <2>1, EveryNumber
<1> DEFINE done == CHOOSE f : Is(f, top)
<1>4. Is(done, top)
  BY <1>3
<1>5. Value(x, r, columns) = done[top]
  BY DEF Value
<1> HIDE DEF done
<1>6. \A k \in 0 .. top : done[k] = IF k = 0 THEN 0 ELSE 2 * done[k - 1] + (IF Bit(x, r, columns[k]) THEN 1 ELSE 0)
  BY <1>4
<1>7. top \in Nat
  OBVIOUS
<1> HIDE DEF top
<1>8. 0 \in 0 .. top /\ \A k \in 1 .. top : k \in 0 .. top /\ k # 0
  BY <1>7
<1>9. done[0] = 0
  BY <1>6, <1>8
<1>10. \A k \in 1 .. top : done[k] = 2 * done[k - 1] + (IF Bit(x, r, columns[k]) THEN 1 ELSE 0)
  BY <1>6, <1>8
<1> QED BY <1>5, <1>9, <1>10 DEF top

(* f is how the number of n bits, those of A being 1, comes about.         *)
Counts(f, n, A) ==
  f[0] = 0 /\ \A k \in 1 .. n : f[k] = 2 * f[k - 1] + (IF k \in A THEN 1 ELSE 0)

(* It is a natural number all the time.                                    *)
LEMMA CountsNat ==
  ASSUME NEW n \in Nat, NEW f, NEW A, Counts(f, n, A)
  PROVE  \A k \in 0 .. n : f[k] \in Nat
<1> DEFINE S == {k \in Nat : k <= n => f[k] \in Nat}
<1>1. 0 \in S
  BY DEF Counts
<1>2. ASSUME NEW k \in Nat, k \in S PROVE k + 1 \in S
  <2>1. CASE k + 1 <= n
    <3>1. k + 1 \in 1 .. n /\ (k + 1) - 1 = k /\ f[k] \in Nat
      BY <1>2, <2>1
    <3>2. f[k + 1] = 2 * f[k] + (IF k + 1 \in A THEN 1 ELSE 0)
      BY <3>1 DEF Counts
    <3>3. f[k + 1] \in Nat
      BY <3>1, <3>2
    <3> QED BY <3>3
  <2> QED BY <2>1
<1>3. Nat \subseteq S
  <2> HIDE DEF S
  <2> QED BY <1>1, <1>2, EveryNumber
<1> QED BY <1>3

(* Numbers of the same bits are the same.                                  *)
LEMMA CountsAlike ==
  ASSUME NEW n \in Nat, NEW f, NEW g, NEW A, NEW B, Counts(f, n, A), Counts(g, n, B),
         NEW d \in 0 .. n, \A k \in 1 .. d : k \in A <=> k \in B
  PROVE  f[d] = g[d]
<1> DEFINE S == {k \in Nat : k <= d => f[k] = g[k]}
<1>1. 0 \in S
  BY DEF Counts
<1>2. ASSUME NEW k \in Nat, k \in S PROVE k + 1 \in S
  <2>1. CASE k + 1 <= d
    <3>1. k + 1 \in 1 .. d /\ k + 1 \in 1 .. n /\ (k + 1) - 1 = k /\ f[k] = g[k]
      BY <1>2, <2>1
    <3>2. /\ f[k + 1] = 2 * f[k] + (IF k + 1 \in A THEN 1 ELSE 0)
          /\ g[k + 1] = 2 * g[k] + (IF k + 1 \in B THEN 1 ELSE 0)
      BY <3>1 DEF Counts
    <3>3. f[k + 1] = g[k + 1]
      BY <3>1, <3>2
    <3> QED BY <3>3
  <2> QED BY <2>1
<1>3. Nat \subseteq S
  <2> HIDE DEF S
  <2> QED BY <1>1, <1>2, EveryNumber
<1> QED BY <1>3

(* The first bit that differs decides which number is the greater one.     *)
LEMMA CountsAbove ==
  ASSUME NEW n \in Nat, NEW f, NEW g, NEW A, NEW B, Counts(f, n, A), Counts(g, n, B),
         NEW d \in 1 .. n, d \in A, d \notin B, \A k \in 1 .. d - 1 : k \in A <=> k \in B
  PROVE  f[n] > g[n]
<1> DEFINE S == {k \in Nat : k >= d /\ k <= n => f[k] > g[k]}
<1>1. \A k \in 0 .. n : f[k] \in Nat /\ g[k] \in Nat
  BY CountsNat
<1>2. f[d] > g[d]
  <2>1. d - 1 \in 0 .. n
    OBVIOUS
  <2>2. f[d - 1] = g[d - 1]
    BY <2>1, CountsAlike
  <2>3. f[d] = 2 * f[d - 1] + 1 /\ g[d] = 2 * g[d - 1] + 0
    BY DEF Counts
  <2> QED BY <1>1, <2>1, <2>2, <2>3
<1>3. 0 \in S
  OBVIOUS
<1>4. ASSUME NEW k \in Nat, k \in S PROVE k + 1 \in S
  <2>1. CASE k + 1 = d
    BY <1>2, <2>1
  <2>2. CASE k + 1 > d /\ k + 1 <= n
    <3>1. /\ k + 1 \in 1 .. n /\ (k + 1) - 1 = k /\ f[k] > g[k]
          /\ k \in 0 .. n
      BY <1>4, <2>2
    <3>2. /\ f[k + 1] = 2 * f[k] + (IF k + 1 \in A THEN 1 ELSE 0)
          /\ g[k + 1] = 2 * g[k] + (IF k + 1 \in B THEN 1 ELSE 0)
      BY <3>1 DEF Counts
    <3>3. f[k + 1] > g[k + 1]
      BY <1>1, <3>1, <3>2
    <3> QED BY <3>3
  <2>3. CASE k + 1 < d \/ k + 1 > n
    BY <2>3
  <2> QED BY <2>1, <2>2, <2>3
<1>5. Nat \subseteq S
  <2> HIDE DEF S
  <2> QED BY <1>3, <1>4, EveryNumber
<1>6. n \in S /\ n >= d /\ n <= n
  BY <1>5
<1> QED BY <1>6

(* So do rows of one length, their columns taken in one order.             *)
LEMMA ValueAlike ==
  ASSUME NEW x, NEW y, NEW r, NEW h, NEW columns, x.cols \in Nat, x.cols = y.cols,
         \A k \in 1 .. x.cols : Bit(x, r, columns[k]) <=> Bit(y, h, columns[k])
  PROVE  Value(x, r, columns) = Value(y, h, columns)
<1> DEFINE A == {k \in 1 .. x.cols : Bit(x, r, columns[k])}
           B == {k \in 1 .. x.cols : Bit(y, h, columns[k])}
<1>1. PICK f : /\ f[0] = 0
               /\ \A k \in 1 .. x.cols : f[k] = 2 * f[k - 1] + (IF Bit(x, r, columns[k]) THEN 1 ELSE 0)
               /\ Value(x, r, columns) = f[x.cols]
  BY ValueGoes
<1>2. PICK g : /\ g[0] = 0
               /\ \A k \in 1 .. y.cols : g[k] = 2 * g[k - 1] + (IF Bit(y, h, columns[k]) THEN 1 ELSE 0)
               /\ Value(y, h, columns) = g[y.cols]
  BY ValueGoes
<1>3. Counts(f, x.cols, A) /\ Counts(g, x.cols, B)
  BY <1>1, <1>2 DEF Counts
<1>4. \A k \in 1 .. x.cols : k \in A <=> k \in B
  OBVIOUS
<1> HIDE DEF A, B
<1>5. f[x.cols] = g[x.cols]
  BY <1>3, <1>4, CountsAlike
<1> QED BY <1>1, <1>2, <1>5

(* And the first column that differs decides.                              *)
LEMMA ValueAbove ==
  ASSUME NEW x, NEW y, NEW r, NEW h, NEW columns, x.cols \in Nat, x.cols = y.cols,
         NEW d \in 1 .. x.cols, Bit(x, r, columns[d]), ~Bit(y, h, columns[d]),
         \A k \in 1 .. d - 1 : Bit(x, r, columns[k]) <=> Bit(y, h, columns[k])
  PROVE  Value(x, r, columns) > Value(y, h, columns)
<1> DEFINE A == {k \in 1 .. x.cols : Bit(x, r, columns[k])}
           B == {k \in 1 .. x.cols : Bit(y, h, columns[k])}
<1>1. PICK f : /\ f[0] = 0
               /\ \A k \in 1 .. x.cols : f[k] = 2 * f[k - 1] + (IF Bit(x, r, columns[k]) THEN 1 ELSE 0)
               /\ Value(x, r, columns) = f[x.cols]
  BY ValueGoes
<1>2. PICK g : /\ g[0] = 0
               /\ \A k \in 1 .. y.cols : g[k] = 2 * g[k - 1] + (IF Bit(y, h, columns[k]) THEN 1 ELSE 0)
               /\ Value(y, h, columns) = g[y.cols]
  BY ValueGoes
<1>3. Counts(f, x.cols, A) /\ Counts(g, x.cols, B)
  BY <1>1, <1>2 DEF Counts
<1>4. d \in A /\ d \notin B /\ \A k \in 1 .. d - 1 : k \in A <=> k \in B
  OBVIOUS
<1> HIDE DEF A, B
<1>5. f[x.cols] > g[x.cols]
  BY <1>3, <1>4, CountsAbove
<1> QED BY <1>1, <1>2, <1>5

(* Rows are natural numbers.                                               *)
LEMMA ValueNat ==
  ASSUME NEW x, NEW r, NEW columns, x.cols \in Nat
  PROVE  Value(x, r, columns) \in Nat
<1> DEFINE A == {k \in 1 .. x.cols : Bit(x, r, columns[k])}
<1>1. PICK f : /\ f[0] = 0
               /\ \A k \in 1 .. x.cols : f[k] = 2 * f[k - 1] + (IF Bit(x, r, columns[k]) THEN 1 ELSE 0)
               /\ Value(x, r, columns) = f[x.cols]
  BY ValueGoes
<1>2. Counts(f, x.cols, A)
  BY <1>1 DEF Counts
<1> HIDE DEF A
<1>3. f[x.cols] \in Nat
  BY <1>2, CountsNat
<1> QED BY <1>1, <1>3

(* In both orders of the columns.                                          *)
LEMMA NumberNat ==
  ASSUME NEW x, NEW r, x.cols \in Nat
  PROVE  Number(x, r) \in Nat /\ NumberLow(x, r) \in Nat
BY ValueNat DEF Number, NumberLow

(* Rows that are alike are one number. *)
LEMMA NumberAlike ==
  ASSUME NEW x, NEW y, NEW r, NEW h, x.cols \in Nat, x.cols = y.cols, Alike(x, r, y, h)
  PROVE  Number(x, r) = Number(y, h) /\ NumberLow(x, r) = NumberLow(y, h)
<1> DEFINE high == [k \in 1 .. x.cols |-> x.cols - k] low == [k \in 1 .. x.cols |-> k - 1]
<1>1. /\ \A k \in 1 .. x.cols : Bit(x, r, high[k]) <=> Bit(y, h, high[k])
      /\ \A k \in 1 .. x.cols : Bit(x, r, low[k]) <=> Bit(y, h, low[k])
  <2>1. \A k \in 1 .. x.cols : high[k] \in 0 .. x.cols - 1 /\ low[k] \in 0 .. x.cols - 1
    OBVIOUS
  <2> QED BY <2>1 DEF Alike
<1>2. /\ Number(x, r) = Value(x, r, high) /\ Number(y, h) = Value(y, h, high)
      /\ NumberLow(x, r) = Value(x, r, low) /\ NumberLow(y, h) = Value(y, h, low)
  BY DEF Number, NumberLow
<1> HIDE DEF high, low
<1> QED BY <1>1, <1>2, ValueAlike

(* Of all columns in which two rows differ j is the highest, or the lowest. *)
Highest(x, r, y, h, j) ==
  /\ ~(Bit(x, r, j) <=> Bit(y, h, j))
  /\ \A l \in 0 .. x.cols - 1 : l > j => (Bit(x, r, l) <=> Bit(y, h, l))
Lowest(x, r, y, h, j) ==
  /\ ~(Bit(x, r, j) <=> Bit(y, h, j))
  /\ \A l \in 0 .. x.cols - 1 : l < j => (Bit(x, r, l) <=> Bit(y, h, l))

(* A row with a 1 in that column is the greater number.                    *)
LEMMA NumberAbove ==
  ASSUME NEW x, NEW y, NEW r, NEW h, x.cols \in Nat, x.cols = y.cols,
         NEW j \in 0 .. x.cols - 1, Bit(x, r, j)
  PROVE  /\ Highest(x, r, y, h, j) => Number(x, r) > Number(y, h)
         /\ Lowest(x, r, y, h, j) => NumberLow(x, r) > NumberLow(y, h)
<1> DEFINE high == [k \in 1 .. x.cols |-> x.cols - k] low == [k \in 1 .. x.cols |-> k - 1]
<1>1. /\ Number(x, r) = Value(x, r, high) /\ Number(y, h) = Value(y, h, high)
      /\ NumberLow(x, r) = Value(x, r, low) /\ NumberLow(y, h) = Value(y, h, low)
  BY DEF Number, NumberLow
<1>2. ASSUME Highest(x, r, y, h, j) PROVE Number(x, r) > Number(y, h)
  <2>1. x.cols - j \in 1 .. x.cols /\ high[x.cols - j] = j
    OBVIOUS
  <2>2. \A k \in 1 .. (x.cols - j) - 1 : Bit(x, r, high[k]) <=> Bit(y, h, high[k])
    <3>1. \A k \in 1 .. (x.cols - j) - 1 : high[k] \in 0 .. x.cols - 1 /\ high[k] > j
      OBVIOUS
    <3> HIDE DEF high
    <3> QED BY <1>2, <3>1 DEF Highest
  <2>3. Bit(x, r, high[x.cols - j]) /\ ~Bit(y, h, high[x.cols - j])
    BY <1>2, <2>1 DEF Highest
  <2> HIDE DEF high, low
  <2>4. Value(x, r, high) > Value(y, h, high)
    BY <2>1, <2>2, <2>3, ValueAbove
  <2> QED BY <1>1, <2>4
<1>3. ASSUME Lowest(x, r, y, h, j) PROVE NumberLow(x, r) > NumberLow(y, h)
  <2>1. j + 1 \in 1 .. x.cols /\ low[j + 1] = j
    OBVIOUS
  <2>2. \A k \in 1 .. (j + 1) - 1 : Bit(x, r, low[k]) <=> Bit(y, h, low[k])
    <3>1. \A k \in 1 .. (j + 1) - 1 : low[k] \in 0 .. x.cols - 1 /\ low[k] < j
      OBVIOUS
    <3> HIDE DEF low
    <3> QED BY <1>3, <3>1 DEF Lowest
  <2>3. Bit(x, r, low[j + 1]) /\ ~Bit(y, h, low[j + 1])
    BY <1>3, <2>1 DEF Lowest
  <2> HIDE DEF high, low
  <2>4. Value(x, r, low) > Value(y, h, low)
    BY <2>1, <2>2, <2>3, ValueAbove
  <2> QED BY <1>1, <2>4
<1> QED BY <1>2, <1>3

(* Rows that are not alike have a highest and a lowest such column.        *)
LEMMA SomeDiffer ==
  ASSUME NEW x, NEW y, NEW r, NEW h, x.cols \in Nat, ~Alike(x, r, y, h)
  PROVE  /\ \E j \in 0 .. x.cols - 1 : Highest(x, r, y, h, j)
         /\ \E j \in 0 .. x.cols - 1 : Lowest(x, r, y, h, j)
<1> DEFINE D == {j \in 0 .. x.cols - 1 : ~(Bit(x, r, j) <=> Bit(y, h, j))}
<1>1. D # {} /\ D \subseteq 0 .. x.cols - 1 /\ D \subseteq Nat
  BY DEF Alike
<1>2. \A l \in 0 .. x.cols - 1 : l \notin D => (Bit(x, r, l) <=> Bit(y, h, l))
  OBVIOUS
<1>3. \A j \in D : ~(Bit(x, r, j) <=> Bit(y, h, j))
  OBVIOUS
<1> HIDE DEF D
<1>4. PICK top \in D : \A l \in D : l <= top
  BY <1>1, GreatestIs
<1>5. PICK least \in D : \A l \in D : least <= l
  BY <1>1, LeastIs
<1>6. Highest(x, r, y, h, top)
  <2>1. ASSUME NEW l \in 0 .. x.cols - 1, l > top PROVE Bit(x, r, l) <=> Bit(y, h, l)
    <3>1. top \in Int /\ l \in Int
      BY <1>1, <1>4
    <3>2. l \in D => l <= top
      BY <1>4
    <3> QED BY <1>2, <2>1, <3>1, <3>2
  <2> QED BY <1>3, <1>4, <2>1 DEF Highest
<1>7. Lowest(x, r, y, h, least)
  <2>1. ASSUME NEW l \in 0 .. x.cols - 1, l < least PROVE Bit(x, r, l) <=> Bit(y, h, l)
    <3>1. least \in Int /\ l \in Int
      BY <1>1, <1>5
    <3>2. l \in D => least <= l
      BY <1>5
    <3> QED BY <1>2, <2>1, <3>1, <3>2
  <2> QED BY <1>3, <1>5, <2>1 DEF Lowest
<1> QED BY <1>1, <1>4, <1>5, <1>6, <1>7

(* The other way round. *)
LEMMA Turnabout ==
  ASSUME NEW x, NEW y, NEW r, NEW h, x.cols = y.cols, NEW j
  PROVE  /\ Highest(x, r, y, h, j) => Highest(y, h, x, r, j)
         /\ Lowest(x, r, y, h, j) => Lowest(y, h, x, r, j)
BY DEF Highest, Lowest

(* So one of the two is the greater number.                                *)
LEMMA NumberDiffers ==
  ASSUME NEW x, NEW y, NEW r, NEW h, x.cols \in Nat, x.cols = y.cols,
         NEW j \in 0 .. x.cols - 1
  PROVE  /\ Highest(x, r, y, h, j) =>
              IF Bit(x, r, j) THEN Number(x, r) > Number(y, h) ELSE Number(y, h) > Number(x, r)
         /\ Lowest(x, r, y, h, j) =>
              IF Bit(x, r, j) THEN NumberLow(x, r) > NumberLow(y, h)
              ELSE NumberLow(y, h) > NumberLow(x, r)
<1>1. CASE Bit(x, r, j)
  BY <1>1, NumberAbove
<1>2. CASE ~Bit(x, r, j)
  <2>1. ASSUME Highest(x, r, y, h, j) PROVE Number(y, h) > Number(x, r)
    <3>1. Bit(y, h, j) /\ Highest(y, h, x, r, j)
      BY <1>2, <2>1, Turnabout DEF Highest
    <3>2. y.cols \in Nat /\ y.cols = x.cols /\ j \in 0 .. y.cols - 1
      OBVIOUS
    <3> QED BY <3>1, <3>2, NumberAbove
  <2>2. ASSUME Lowest(x, r, y, h, j) PROVE NumberLow(y, h) > NumberLow(x, r)
    <3>1. Bit(y, h, j) /\ Lowest(y, h, x, r, j)
      BY <1>2, <2>2, Turnabout DEF Lowest
    <3>2. y.cols \in Nat /\ y.cols = x.cols /\ j \in 0 .. y.cols - 1
      OBVIOUS
    <3> QED BY <3>1, <3>2, NumberAbove
  <2> QED BY <1>2, <2>1, <2>2
<1> QED BY <1>1, <1>2

(* The comparisons of rows tell of the numbers that the rows are.          *)
LEMMA RowTestTells ==
  ASSUME LongBits = WordBits, NEW x, NEW y, Window(x), Window(y), x.cols = y.cols,
         NEW r \in 0 .. x.rows - 1
  PROVE  RowTest(x, r, y) = IF Number(x, r) > Number(y, 0) THEN -1
                            ELSE IF Number(x, r) < Number(y, 0) THEN 1 ELSE 0
<1>1. x.cols \in Nat /\ Number(x, r) \in Nat /\ Number(y, 0) \in Nat
  <2>1. x.cols \in Nat /\ y.cols \in Nat
    BY DEF Window
  <2> QED BY <2>1, NumberNat
<1>2. CASE Alike(x, r, y, 0)
  <2>1. Number(x, r) = Number(y, 0)
    BY <1>1, <1>2, NumberAlike
  <2>2. RowTest(x, r, y) = 0
    BY <1>2, RowTestTellsCells
  <2> QED BY <1>1, <2>1, <2>2
<1>3. CASE ~Alike(x, r, y, 0)
  <2>1. PICK j \in 0 .. x.cols - 1 : Highest(x, r, y, 0, j)
    BY <1>1, <1>3, SomeDiffer
  <2>2. IF Bit(x, r, j) THEN Number(x, r) > Number(y, 0) ELSE Number(y, 0) > Number(x, r)
    BY <1>1, <2>1, NumberDiffers
  <2>3. RowTest(x, r, y) = IF Bit(x, r, j) THEN -1 ELSE 1
    BY <2>1, RowTestTellsCells DEF Highest
  <2> QED BY <1>1, <2>2, <2>3
<1> QED BY <1>2, <1>3

(* Rows are equal if they are one number.                                  *)
LEMMA RowEqualToTells ==
  ASSUME LongBits = WordBits, NEW x, NEW y, Window(x), Window(y), x.cols = y.cols,
         NEW r \in 0 .. x.rows - 1
  PROVE  RowEqualTo(x, r, y) <=> Number(x, r) = Number(y, 0)
<1>1. x.cols \in Nat /\ Number(x, r) \in Nat /\ Number(y, 0) \in Nat
  <2>1. x.cols \in Nat /\ y.cols \in Nat
    BY DEF Window
  <2> QED BY <2>1, NumberNat
<1>2. RowEqualTo(x, r, y) <=> Alike(x, r, y, 0)
  BY RowEqualToTellsCells
<1>3. CASE Alike(x, r, y, 0)
  BY <1>1, <1>2, <1>3, NumberAlike
<1>4. CASE ~Alike(x, r, y, 0)
  <2>1. PICK j \in 0 .. x.cols - 1 : Highest(x, r, y, 0, j)
    BY <1>1, <1>4, SomeDiffer
  <2>2. IF Bit(x, r, j) THEN Number(x, r) > Number(y, 0) ELSE Number(y, 0) > Number(x, r)
    BY <1>1, <2>1, NumberDiffers
  <2> QED BY <1>1, <1>2, <1>4, <2>2
<1> QED BY <1>3, <1>4

(* A window narrower than a long, which may still reach into two, is read  *)
(* bit by bit.                                                             *)
LEMMA NarrowParts ==
  ASSUME NEW x, NEW y, Window(x), x.cols < WordBits, NEW p \in ToSet(CommonParts(x, y))
  PROVE  ~p.long
<1>1. PICK t \in Nat, n \in Nat :
        /\ GetIndex(x) = [top |-> t, last |-> t + WordBits * n, longs |-> n]
        /\ t + WordBits * n <= x.cols
  BY IndexIs
<1>2. x.cols \in Nat
  BY DEF Window
<1>3. n = 0
  <2>1. CASE n >= 1
    <3>1. WordBits * n >= WordBits
      BY <2>1, Words
    <3>2. WordBits * n \in Nat
      BY Words
    <3> QED BY <1>1, <1>2, <3>1, <3>2, Words
  <2> QED BY <2>1
<1>4. \A k \in 1 .. Len(Parts(x)) : ~Parts(x)[k].long
  <2>1. WordBits * n = 0
    BY <1>3, Words
  <2>2. GetIndex(x) = [top |-> t, last |-> t, longs |-> 0] /\ t <= x.cols /\ t = t + WordBits * 0
    BY <1>1, <1>3, <2>1
  <2>3. Composed(Parts(x), t, 0, t, x.cols)
    BY <1>2, <2>2, PartsAre
  <2>4. /\ Len(Parts(x)) = (t + 0) + (x.cols - t)
        /\ \A i \in 1 .. t : Parts(x)[i] = [col |-> i - 1, long |-> FALSE]
        /\ \A k \in 1 .. x.cols - t : Parts(x)[(t + 0) + k] = [col |-> t + k - 1, long |-> FALSE]
    BY <2>3 DEF Composed
  <2>5. ASSUME NEW k \in 1 .. Len(Parts(x)) PROVE ~Parts(x)[k].long
    <3>1. CASE k <= t
      <4>1. k \in 1 .. t
        BY <3>1
      <4>2. Parts(x)[k] = [col |-> k - 1, long |-> FALSE]
        BY <2>4, <4>1
      <4> QED BY <4>2
    <3>2. CASE k > t
      <4>1. k - t \in 1 .. x.cols - t /\ (t + 0) + (k - t) = k
        BY <1>2, <2>2, <2>4, <3>2
      <4>2. Parts(x)[k] = [col |-> t + (k - t) - 1, long |-> FALSE]
        BY <2>4, <4>1
      <4> QED BY <4>2
    <3> QED BY <3>1, <3>2
  <2> QED BY <2>5
<1>5. \A k \in 1 .. Len(Singly(0, x.cols)) : ~Singly(0, x.cols)[k].long
  <2>1. /\ Len(Singly(0, x.cols)) = x.cols - 0
        /\ \A k \in 1 .. x.cols - 0 : Singly(0, x.cols)[k] = [col |-> 0 + k - 1, long |-> FALSE]
    <3>1. 0 \in Nat /\ 0 <= x.cols
      BY <1>2
    <3> QED BY <1>2, <3>1, SinglyIs
  <2>2. ASSUME NEW k \in 1 .. Len(Singly(0, x.cols)) PROVE ~Singly(0, x.cols)[k].long
    <3>1. k \in 1 .. x.cols - 0
      BY <2>1
    <3>2. Singly(0, x.cols)[k] = [col |-> 0 + k - 1, long |-> FALSE]
      BY <2>1, <3>1
    <3> QED BY <3>2
  <2> QED BY <2>2
<1>6. p \in ToSet(Parts(x)) \/ p \in ToSet(Singly(0, x.cols))
  BY DEF CommonParts
<1>7. Parts(x) \in Seq(PartSet) /\ Singly(0, x.cols) \in Seq(PartSet)
  <2>1. t + WordBits * n \in Nat
    BY Words
  <2>2. Composed(Parts(x), t, n, t + WordBits * n, x.cols)
    BY <1>1, <1>2, <2>1, PartsAre
  <2>3. 0 \in Nat /\ 0 <= x.cols
    BY <1>2
  <2> QED BY <1>2, <2>2, <2>3, SinglyIs DEF Composed
<1> QED BY <1>4, <1>5, <1>6, <1>7 DEF ToSet
-----------------------------------------------------------------------------
(* The answers                                                             *)

(* rowGreaterThan reads the lowest column that differs, in windows narrower than a long. *)
LEMMA RowGreaterThanTells ==
  ASSUME LongBits = WordBits, NEW x, NEW y, Window(x), Window(y), x.cols = y.cols,
         x.cols < WordBits, NEW r \in 0 .. x.rows - 1
  PROVE  RowGreaterThan(x, r, y) <=> NumberLow(x, r) > NumberLow(y, 0)
<1> DEFINE C == ToSet(CommonParts(x, y)) D == Differing(x, r, y)
           Low(p) == \A o \in D : p.col <= o.col
<1>1. x.cols \in Nat /\ NumberLow(x, r) \in Nat /\ NumberLow(y, 0) \in Nat
  <2>1. x.cols \in Nat /\ y.cols \in Nat
    BY DEF Window
  <2> QED BY <2>1, NumberNat
<1>2. RowGreaterThan(x, r, y) <=> \E p \in D : Low(p) /\ Above(Get(x, r, p), Get(y, 0, p))
  <2>1. y.rows >= 1 /\ x.rows > r
    BY DEF Window
  <2> QED BY <2>1 DEF RowGreaterThan
<1>3. D = {p \in C : Get(x, r, p) # Get(y, 0, p)}
  BY DEF Differing
<1>4. ASSUME NEW p \in C
      PROVE  /\ p.col \in 0 .. x.cols - 1 /\ Columns(p) = {p.col}
             /\ Get(x, r, p) = IF Bit(x, r, p.col) THEN {0} ELSE {}
             /\ Get(y, 0, p) = IF Bit(y, 0, p.col) THEN {0} ELSE {}
  <2>1. ~p.long /\ Lies(x, p)
    BY <1>4, NarrowParts, CommonPartsLie
  <2>2. Columns(p) = {p.col} /\ Columns(p) \subseteq 0 .. x.cols - 1
    BY <2>1 DEF Columns, Lies
  <2> QED BY <2>1, <2>2 DEF Get
<1>5. \A j \in 0 .. x.cols - 1 : \E p \in C : j \in Columns(p)
  BY CommonPartsLie
<1> HIDE DEF C, D
<1>6. ASSUME NEW p \in C
      PROVE  /\ p \in D <=> ~(Bit(x, r, p.col) <=> Bit(y, 0, p.col))
             /\ p \in D => (Above(Get(x, r, p), Get(y, 0, p)) <=> Bit(x, r, p.col))
  <2> DEFINE u == Get(x, r, p) v == Get(y, 0, p)
  <2>1. u = (IF Bit(x, r, p.col) THEN {0} ELSE {}) /\ v = (IF Bit(y, 0, p.col) THEN {0} ELSE {})
    BY <1>4
  <2>2. p \in D <=> u # v
    BY <1>3
  <2> HIDE DEF u, v
  <2>3. /\ 0 \in u <=> Bit(x, r, p.col)
        /\ 0 \in v <=> Bit(y, 0, p.col)
        /\ u # v <=> ~(0 \in u <=> 0 \in v)
        /\ u \in SUBSET Nat /\ v \in SUBSET Nat
        /\ \A i \in Nat : i > 0 => (i \in u <=> i \in v)
    BY <2>1
  <2>4. u # v => (Above(u, v) <=> 0 \in u)
    BY <2>3, AboveIs
  <2> QED BY <2>2, <2>3, <2>4 DEF u, v
<1>7. CASE Alike(x, r, y, 0)
  <2>1. NumberLow(x, r) = NumberLow(y, 0)
    BY <1>1, <1>7, NumberAlike
  <2>2. \A p \in D : FALSE
    BY <1>3, <1>4, <1>6, <1>7 DEF Alike
  <2> QED BY <1>1, <1>2, <2>1, <2>2
<1>8. CASE ~Alike(x, r, y, 0)
  <2>1. PICK j \in 0 .. x.cols - 1 : Lowest(x, r, y, 0, j)
    BY <1>1, <1>8, SomeDiffer
  <2>2. IF Bit(x, r, j) THEN NumberLow(x, r) > NumberLow(y, 0)
        ELSE NumberLow(y, 0) > NumberLow(x, r)
    BY <1>1, <2>1, NumberDiffers
  <2>3. PICK p \in C : p.col = j
    BY <1>4, <1>5
  <2>4. p \in D
    BY <1>6, <2>1, <2>3 DEF Lowest
  <2>5. ASSUME NEW o \in D PROVE o.col >= j /\ o \in C /\ o.col \in Nat
    <3>1. o \in C /\ o.col \in 0 .. x.cols - 1 /\ ~(Bit(x, r, o.col) <=> Bit(y, 0, o.col))
      BY <1>3, <1>4, <1>6
    <3>2. ~(o.col < j)
      BY <2>1, <3>1 DEF Lowest
    <3> QED BY <3>1, <3>2
  <2>6. Low(p)
    BY <2>3, <2>5
  <2>7. ASSUME NEW o \in D, Low(o) PROVE Above(Get(x, r, o), Get(y, 0, o)) <=> Bit(x, r, j)
    <3>1. o.col = j
      BY <2>3, <2>4, <2>5, <2>7
    <3> QED BY <1>6, <2>5, <3>1
  <2> HIDE DEF Low
  <2>8. RowGreaterThan(x, r, y) <=> Bit(x, r, j)
    BY <1>2, <2>4, <2>6, <2>7
  <2> QED BY <1>1, <2>2, <2>8
<1> QED BY <1>7, <1>8

(* >= says whether every 1 of the other matrix is one here. *)
LEMMA IncludesTells ==
  ASSUME LongBits = WordBits, NEW x, NEW y, Formed(x), Formed(y), x.rows > 0, x.cols > 0,
         SameSize(x, y)
  PROVE  Includes(x, y) <=> Ones(y) \subseteq Ones(x)
<1> DEFINE c == Assign(NoMatrix, y) z == Combine(c, x, "&=")
<1>1. /\ Formed(c) /\ c.rows = y.rows /\ c.cols = y.cols /\ Ones(c) = Ones(y)
      /\ y.rows > 0 /\ y.cols > 0
  BY CopyIs DEF SameSize
<1>2. Includes(x, y) <=> Equal(z, y)
  BY DEF Includes
<1> HIDE DEF c
<1>3. Region(c) /\ Region(x) /\ Window(x) /\ Window(y) /\ SameSize(c, x)
  <2>1. SameSize(c, x) /\ c.rows > 0 /\ c.cols > 0
    BY <1>1 DEF SameSize
  <2> QED BY <1>1, <2>1, RegionIs
<1>4. Written(z, c, Combined("&=", Ones(c), Ones(x)))
  <2>1. "&=" \in {"&=", "|=", "^="}
    OBVIOUS
  <2> QED BY <1>3, <2>1, CombineWrites
<1> HIDE DEF z
<1>5. /\ Formed(z) /\ z.rows = y.rows /\ z.cols = y.cols
      /\ \A i \in 0 .. y.rows - 1, j \in 0 .. y.cols - 1 :
           <<i, j>> \in Ones(z) <=> (<<i, j>> \in Ones(y) /\ <<i, j>> \in Ones(x))
  <2>1. Combined("&=", Ones(c), Ones(x)) = Ones(y) \cap Ones(x)
    BY <1>1 DEF Combined
  <2>2. Written(z, c, Ones(y) \cap Ones(x))
    BY <1>4, <2>1
  <2> QED BY <1>1, <2>2, WrittenOnes
<1>6. Ones(z) = Ones(y) \cap Ones(x)
  <2>1. \A q : q \in Ones(z) => q \in Places(y)
    BY <1>5 DEF Ones, Places
  <2>2. \A q : q \in Ones(y) => q \in Places(y)
    BY DEF Ones
  <2>3. \A q \in Places(y) : q = <<q[1], q[2]>> /\ q[1] \in 0 .. y.rows - 1 /\ q[2] \in 0 .. y.cols - 1
    BY DEF Places
  <2>4. \A q \in Places(y) : q \in Ones(z) <=> (q \in Ones(y) /\ q \in Ones(x))
    BY <1>5, <2>3
  <2> QED BY <2>1, <2>2, <2>4
<1>7. Window(z) /\ SameSize(z, y)
  <2>1. z.rows > 0 /\ z.cols > 0
    BY <1>1, <1>5
  <2> QED BY <1>5, <2>1, RegionIs DEF SameSize
<1>8. Equal(z, y) <=> Ones(z) = Ones(y)
  BY <1>3, <1>7, EqualTellsCells
<1> QED BY <1>2, <1>6, <1>8

(* r is the right answer to the call c. *)
Right(c, r) ==
  /\ c[1] = "count" => r = Cardinality(Ones(m))
  /\ SameSize(m, b) =>
       /\ c[1] = "==" => r = (Ones(m) = Ones(b))
       /\ c[1] = ">=" => r = (Ones(b) \subseteq Ones(m))
       /\ c[1] = "match" => r = Cardinality(Differ(Ones(m), Ones(b)))
       /\ c[1] = "logicAnd" => r = (Ones(m) \cap Ones(b) # {})
       /\ c[1] = "rowTest" =>
            r = IF Number(m, c[2]) > Number(b, 0) THEN -1
                ELSE IF Number(m, c[2]) < Number(b, 0) THEN 1 ELSE 0
       /\ c[1] = "rowEqualTo" => r = (Number(m, c[2]) = Number(b, 0))
       /\ c[1] = "rowGreaterThan" /\ m.cols < WordBits =>
            r = (NumberLow(m, c[2]) > NumberLow(b, 0))

(* Answers are right if the matrices did not change.                       *)
LEMMA AnswersAre ==
  /\ AnswersRight <=> Right(call, result)
  /\ m' = m /\ b' = b /\ Right(call', result') => AnswersRight'
<1>1. AnswersRight <=> Right(call, result)
  BY DEF AnswersRight, Right
<1>2. ASSUME m' = m, b' = b, Right(call', result') PROVE AnswersRight'
  <2>1. /\ Ones(m)' = Ones(m) /\ Ones(b)' = Ones(b) /\ (SameSize(m, b))' <=> SameSize(m, b)
        /\ m'.cols = m.cols
    BY <1>2 DEF Ones, Places, Bit, Exists, SameSize
  <2>2. /\ Number(m, call[2])' = Number(m, call'[2]) /\ Number(b, 0)' = Number(b, 0)
        /\ NumberLow(m, call[2])' = NumberLow(m, call'[2]) /\ NumberLow(b, 0)' = NumberLow(b, 0)
    BY <1>2 DEF Number, NumberLow, Value, Bit, Exists
  <2>3. Differ(Ones(m), Ones(b))' = Differ(Ones(m), Ones(b))
    BY <1>2 DEF Differ, Ones, Places, Bit, Exists
  <2> QED BY <1>2, <2>1, <2>2, <2>3 DEF AnswersRight, Right
<1> QED BY <1>1, <1>2

(* Every call but these eight returns nothing that has to be right.        *)
Asking == {"==", ">=", "count", "match", "logicAnd", "rowTest", "rowEqualTo", "rowGreaterThan"}

(* Other calls than Ask have other names.                                  *)
LEMMA OthersAnswer ==
  ASSUME Next, ~(m.rows > 0 /\ m.cols > 0 /\ Ask)
  PROVE  call'[1] \notin Asking
<1>1. CASE Restore \/ Give
  BY <1>1, CallIs DEF Restore, Give, Does, Asking
<1>2. CASE MoveWindow
  <2>1. PICK dr, dc, r, c : Does("offset", <<dr, dc, r, c>>, Offset(m, dr, dc, r, c), 0)
    BY <1>2 DEF MoveWindow
  <2> QED BY <2>1, CallIs DEF Does, Asking
<1>3. CASE Poke
  <2>1. PICK r, c, v : Does("setBit", <<r, c, v>>, SetBit(m, r, c, v), 0)
    BY <1>3 DEF Poke
  <2> QED BY <2>1, CallIs DEF Does, Asking
<1>4. CASE Paint
  <2>1. PICK v : \/ Does("=bool", <<v>>, Fill(m, v), 0)
                \/ Does("~", <<>>, Negate(m), 0)
    BY <1>4 DEF Paint
  <2> QED BY <2>1, CallIs DEF Does, Asking
<1>5. CASE Mix \/ MixIn
  BY <1>5, CallIs DEF Mix, MixIn, Does, Asking
<1>6. CASE Delete
  <2>1. PICK s, n : \/ Does("deleteRows", <<s, n>>, DeleteRows(m, s, n), 0)
                   \/ Does("deleteColumns", <<s, n>>, DeleteColumns(m, s, n), 0)
    BY <1>6 DEF Delete
  <2> QED BY <2>1, CallIs DEF Does, Asking
<1>7. CASE Insert
  <2>1. PICK s, n, v : \/ Does("insertRows", <<s, n, v>>, InsertRows(m, s, n, v), 0)
                      \/ Does("insertColumns", <<s, n, v>>, InsertColumns(m, s, n, v), 0)
    BY <1>7 DEF Insert
  <2> QED BY <2>1, CallIs DEF Does, Asking
<1>8. CASE Extend
  <2>1. PICK r, c, v : Does("grow", <<r, c, v>>, Grow(m, r, c, v), 0)
    BY <1>8 DEF Extend
  <2> QED BY <2>1, CallIs DEF Does, Asking
<1>9. CASE Swap
  <2>1. PICK i, j : \/ Does("swapRows", <<i, j>>, SwapRows(m, i, j), 0)
                   \/ Does("swapColumns", <<i, j>>, SwapColumns(m, i, j), 0)
    BY <1>9 DEF Swap
  <2> QED BY <2>1, CallIs DEF Does, Asking
<1>10. CASE Turn
  BY <1>10, CallIs DEF Turn, Does, Asking
<1>11. CASE Trim
  <2>1. PICK v, r : \/ Does("trimRows", <<v>>, TrimRows(m, v), r)
                   \/ Does("trimColumns", <<v>>, TrimColumns(m, v), r)
    BY <1>11 DEF Trim
  <2> QED BY <2>1, CallIs DEF Does, Asking
<1> QED BY <1>1, <1>2, <1>3, <1>4, <1>5, <1>6, <1>7, <1>8, <1>9, <1>10, <1>11 DEF Next

(* Every question is answered rightly.                                     *)
LEMMA AskAnswers ==
  ASSUME LongBits = WordBits, Formed(m), Formed(b), m.rows > 0, m.cols > 0, Ask
  PROVE  Right(call', result')
<1>1. Region(m) /\ Window(m)
  BY RegionIs
<1>2. ASSUME SameSize(m, b) PROVE Region(b) /\ Window(b) /\ m.cols = b.cols
  <2>1. b.rows > 0 /\ b.cols > 0 /\ m.cols = b.cols
    BY <1>2 DEF SameSize
  <2> QED BY <2>1, RegionIs
<1>3. CASE Does("==", <<>>, m, Equal(m, b))
  <2>1. call'[1] = "==" /\ result' = Equal(m, b)
    BY <1>3, CallIs DEF Does
  <2>2. SameSize(m, b) => Equal(m, b) = (Ones(m) = Ones(b))
    BY <1>1, <1>2, EqualTellsCells DEF Equal
  <2> QED BY <2>1, <2>2 DEF Right
<1>4. CASE Does(">=", <<>>, m, Includes(m, b))
  <2>1. call'[1] = ">=" /\ result' = Includes(m, b)
    BY <1>4, CallIs DEF Does
  <2>2. SameSize(m, b) => (Includes(m, b) <=> Ones(b) \subseteq Ones(m))
    BY IncludesTells
  <2>3. Includes(m, b) \in BOOLEAN
    BY DEF Includes, Equal
  <2> QED BY <2>1, <2>2, <2>3 DEF Right
<1>5. CASE Does("count", <<>>, m, Count(m))
  <2>1. call'[1] = "count" /\ result' = Count(m)
    BY <1>5, CallIs DEF Does
  <2> QED BY <1>1, <2>1, CountTells DEF Right
<1>6. CASE Does("match", <<>>, m, Match(m, b))
  <2>1. call'[1] = "match" /\ result' = Match(m, b)
    BY <1>6, CallIs DEF Does
  <2>2. SameSize(m, b) => Match(m, b) = Cardinality(Differ(Ones(m), Ones(b)))
    BY <1>1, <1>2, MatchTells
  <2> QED BY <2>1, <2>2 DEF Right
<1>7. CASE Does("logicAnd", <<>>, m, LogicAnd(m, b))
  <2>1. call'[1] = "logicAnd" /\ result' = LogicAnd(m, b)
    BY <1>7, CallIs DEF Does
  <2>2. SameSize(m, b) => LogicAnd(m, b) = (Ones(m) \cap Ones(b) # {})
    BY <1>1, <1>2, LogicAndTellsCells DEF LogicAnd
  <2> QED BY <2>1, <2>2 DEF Right
<1>8. ASSUME NEW i \in 0 .. m.rows - 1, Does("rowTest", <<i>>, m, RowTest(m, i, b))
      PROVE  Right(call', result')
  <2>1. call'[1] = "rowTest" /\ call'[2] = i /\ result' = RowTest(m, i, b)
    BY <1>8, CallIs DEF Does
  <2>2. SameSize(m, b) =>
          RowTest(m, i, b) = IF Number(m, i) > Number(b, 0) THEN -1
                             ELSE IF Number(m, i) < Number(b, 0) THEN 1 ELSE 0
    BY <1>1, <1>2, RowTestTells
  <2> QED BY <2>1, <2>2 DEF Right
<1>9. ASSUME NEW i \in 0 .. m.rows - 1, Does("rowEqualTo", <<i>>, m, RowEqualTo(m, i, b))
      PROVE  Right(call', result')
  <2>1. call'[1] = "rowEqualTo" /\ call'[2] = i /\ result' = RowEqualTo(m, i, b)
    BY <1>9, CallIs DEF Does
  <2>2. SameSize(m, b) => (RowEqualTo(m, i, b) <=> Number(m, i) = Number(b, 0))
    BY <1>1, <1>2, RowEqualToTells
  <2>3. RowEqualTo(m, i, b) \in BOOLEAN
    BY DEF RowEqualTo
  <2> QED BY <2>1, <2>2, <2>3 DEF Right
<1>10. ASSUME NEW i \in 0 .. m.rows - 1, Does("rowGreaterThan", <<i>>, m, RowGreaterThan(m, i, b))
       PROVE  Right(call', result')
  <2>1. call'[1] = "rowGreaterThan" /\ call'[2] = i /\ result' = RowGreaterThan(m, i, b)
    BY <1>10, CallIs DEF Does
  <2>2. SameSize(m, b) /\ m.cols < WordBits =>
          (RowGreaterThan(m, i, b) <=> NumberLow(m, i) > NumberLow(b, 0))
    BY <1>1, <1>2, RowGreaterThanTells
  <2>3. RowGreaterThan(m, i, b) \in BOOLEAN
    BY DEF RowGreaterThan
  <2> QED BY <2>1, <2>2, <2>3 DEF Right
<1> QED BY <1>3, <1>4, <1>5, <1>6, <1>7, <1>8, <1>9, <1>10 DEF Ask

(* What is read of a window in longs is what is read of its cells: counts  *)
(* and comparisons tell of the bits in the window and of nothing else in   *)
(* memory, whatever was done to the matrix before.                         *)
THEOREM MatrixAnswersRight ==
  ASSUME LongBits = WordBits
  PROVE  Spec => []AnswersRight
<1>1. Init => AnswersRight
  <2>1. ASSUME Init PROVE Right(call, result)
    <3>1. call[1] = "none"
      BY <2>1 DEF Init
    <3> QED BY <3>1 DEF Right
  <2> QED BY <2>1, AnswersAre
<1>2. TypeOK /\ AnswersRight /\ [Next]_vars => AnswersRight'
  <2>1. ASSUME TypeOK, Next PROVE AnswersRight'
    <3>1. CASE m.rows > 0 /\ m.cols > 0 /\ Ask
      <4>1. m' = m
        BY <3>1 DEF Ask, Does
      <4>2. b' = b
        BY <2>1 DEF Next
      <4>3. Right(call', result')
        BY <2>1, <3>1, AskAnswers DEF TypeOK
      <4> QED BY <4>1, <4>2, <4>3, AnswersAre
    <3>2. CASE ~(m.rows > 0 /\ m.cols > 0 /\ Ask)
      <4>1. call'[1] \notin Asking
        BY <2>1, <3>2, OthersAnswer
      <4> QED BY <4>1 DEF Asking, AnswersRight
    <3> QED BY <3>1, <3>2
  <2>2. ASSUME AnswersRight, UNCHANGED vars PROVE AnswersRight'
    <3>1. m' = m /\ b' = b /\ call' = call /\ result' = result
      BY <2>2 DEF vars
    <3>2. Right(call', result')
      BY <2>2, <3>1, AnswersAre
    <3> QED BY <3>1, <3>2, AnswersAre
  <2> QED BY <2>1, <2>2
<1>3. Spec => []TypeOK
  BY MatrixTypeCorrect
<1> QED BY <1>1, <1>2, <1>3, PTL DEF Spec
=============================================================================
