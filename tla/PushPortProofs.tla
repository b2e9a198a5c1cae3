--------------------------- MODULE PushPortProofs ---------------------------
(***************************************************************************)
(* Theorems about the hash table of a thread space and a port that pushes  *)
(* to the indices in it, for any addresses, table sizes and number of      *)
(* subscriptions.                                                          *)
(*                                                                         *)
(* Everything rests on what a table owes its addresses until makePermanent *)
(* moves one: each address with an index is in the bucket of that index,   *)
(* once, with no address that has none, and no two have the same index.    *)
(* Resizing keeps this because the walk over the old indices comes upon    *)
(* every address exactly once.                                             *)
(*                                                                         *)
(* The last part is about the other address that pushes, a DataSlotAddress *)
(* with its queue and its thread, for any writers, clients and data.       *)
(***************************************************************************)
EXTENDS PushPort, SlotPusher, TLAPS, FiniteSetTheorems, WellFoundedInduction, SequenceTheorems

-----------------------------------------------------------------------------
(* A nonempty set of numbers has a least one. *)
LEMMA LeastOf ==
  ASSUME NEW S \in SUBSET Nat, S # {}
  PROVE  Min(S) \in S /\ \A j \in S : Min(S) <= j
<1>1. PICK i \in S : \A j \in S : ~(<<j, i>> \in OpToRel(<, Nat))
  BY WFMin, NatLessThanWellFounded
<1>2. \A j \in S : ~(j < i)
  BY <1>1 DEF OpToRel
<1>3. \A j \in S : i <= j
  BY <1>2
<1> QED
  BY <1>3 DEF Min

(* The numbers 1 to n count the members of a finite set of numbers from    *)
(* the smallest to the largest.                                            *)
Rank(S, i) == Cardinality({j \in S : j <= i})

LEMMA RankIsPlace ==
  ASSUME NEW S \in SUBSET Nat, IsFiniteSet(S), NEW i \in S
  PROVE  Rank(S, i) \in 1 .. Cardinality(S) /\ \A j \in S : Rank(S, j) = Rank(S, i) => j = i
<1> DEFINE Below(j) == {k \in S : k <= j}
<1>1. \A j \in S : IsFiniteSet(Below(j)) /\ Cardinality(Below(j)) \in Nat
                   /\ Cardinality(Below(j)) <= Cardinality(S)
  BY FS_Subset, FS_CardinalityType
<1>2. Below(i) # {}
  OBVIOUS
<1>3. Cardinality(Below(i)) # 0
  BY <1>1, <1>2, FS_EmptySet
<1>4. Cardinality(S) \in Nat
  BY FS_CardinalityType
<1>5. ASSUME NEW j \in S, NEW k \in S, j < k, Cardinality(Below(j)) = Cardinality(Below(k))
      PROVE  FALSE
  <2>1. (\A x \in S : x <= j => x <= k) /\ k <= k /\ ~(k <= j)
    BY <1>5
  <2>2. Below(j) \in SUBSET Below(k) /\ k \in Below(k) /\ k \notin Below(j)
    BY <2>1
  <2>3. Below(j) = Below(k)
    BY <1>1, <1>5, <2>2, FS_Subset
  <2> QED BY <2>2, <2>3
<1>6. \A j \in S : Cardinality(Below(j)) = Cardinality(Below(i)) => j = i
  <2> HIDE DEF Below
  <2> QED BY <1>5
<1> QED
  BY <1>1, <1>3, <1>4, <1>6 DEF Rank

LEMMA NthHasRank ==
  ASSUME NEW S \in SUBSET Nat, IsFiniteSet(S)
  PROVE  /\ \A n \in 1 .. Cardinality(S) : Nth(S, n) \in S /\ Rank(S, Nth(S, n)) = n
         /\ \A i \in S : Rank(S, i) \in 1 .. Cardinality(S) /\ Nth(S, Rank(S, i)) = i
<1>1. \A i \in S : Rank(S, i) \in 1 .. Cardinality(S)
  BY RankIsPlace
<1>2. ASSUME NEW n \in 1 .. Cardinality(S)
      PROVE  \E i \in S : Rank(S, i) = n
  <2> SUFFICES ASSUME \A i \in S : Rank(S, i) # n PROVE FALSE
    OBVIOUS
  <2> DEFINE T == (1 .. Cardinality(S)) \ {n}
             f == [i \in S |-> Rank(S, i)]
  <2>1. Cardinality(S) \in Nat
    BY FS_CardinalityType
  <2>2. IsFiniteSet(1 .. Cardinality(S)) /\ Cardinality(1 .. Cardinality(S)) = Cardinality(S)
    BY <2>1, FS_Interval
  <2> HIDE DEF f
  <2>3. IsFiniteSet(T) /\ Cardinality(T) = Cardinality(1 .. Cardinality(S)) - 1
    BY <2>2, FS_RemoveElement
  <2>4. f \in [S -> T]
    BY <1>1 DEF f
  <2>5. Cardinality(T) < Cardinality(S)
    BY <2>1, <2>2, <2>3
  <2>6. \E x, y \in S : x # y /\ f[x] = f[y]
    <3> HIDE DEF T
    <3> QED BY <2>3, <2>4, <2>5, FS_PigeonHole
  <2> QED
    BY <2>6, RankIsPlace DEF f
<1>3. \A n : Nth(S, n) = CHOOSE i \in S : Rank(S, i) = n
  BY DEF Nth, Rank
<1> QED
  BY <1>1, <1>2, <1>3, RankIsPlace, ZenonT(30)

(* Taking the first occurrence out of a list closes the gap it leaves. *)
ClosedUp(r, l, k) ==
  /\ Len(r) = Len(l) - 1
  /\ \A m \in 1 .. Len(r) : r[m] = IF m < k THEN l[m] ELSE l[m + 1]

LEMMA RemovedFirst ==
  ASSUME NEW S, NEW l \in Seq(S), NEW a
  PROVE  /\ RemoveFirst(l, a) \in Seq(S)
         /\ \/ RemoveFirst(l, a) = l /\ \A n \in 1 .. Len(l) : l[n] # a
            \/ \E k \in 1 .. Len(l) : l[k] = a /\ ClosedUp(RemoveFirst(l, a), l, k)
<1> DEFINE at == {i \in 1 .. Len(l) : l[i] = a}
<1>1. CASE at = {}
  BY <1>1 DEF RemoveFirst
<1>2. CASE at # {}
  <2> DEFINE k == Min(at)
             r == RemoveFirst(l, a)
  <2>1. at \in SUBSET Nat
    OBVIOUS
  <2>2. k \in at
    <3> HIDE DEF at
    <3> QED BY <1>2, <2>1, LeastOf
  <2>3. r = SubSeq(l, 1, k - 1) \o SubSeq(l, k + 1, Len(l))
    BY <1>2 DEF RemoveFirst, RemoveAt, SelectInSeq
  <2>4. k \in 1 .. Len(l) /\ l[k] = a /\ Len(l) \in Nat
    BY <2>2
  <2> HIDE DEF at, k
  <2>5. /\ SubSeq(l, 1, k - 1) \in Seq(S) /\ Len(SubSeq(l, 1, k - 1)) = k - 1
        /\ \A m \in 1 .. k - 1 : SubSeq(l, 1, k - 1)[m] = l[m]
    BY <2>4
  <2>6. /\ SubSeq(l, k + 1, Len(l)) \in Seq(S) /\ Len(SubSeq(l, k + 1, Len(l))) = Len(l) - k
        /\ \A m \in 1 .. Len(l) - k : SubSeq(l, k + 1, Len(l))[m] = l[k + m]
    BY <2>4
  <2> DEFINE s == SubSeq(l, 1, k - 1)
             t == SubSeq(l, k + 1, Len(l))
  <2>7. /\ r \in Seq(S) /\ Len(r) = Len(l) - 1
        /\ \A m \in 1 .. Len(r) : r[m] = IF m < k THEN s[m] ELSE t[m - (k - 1)]
    <3> HIDE DEF r, s, t
    <3>1. r = s \o t
      BY <2>3 DEF s, t
    <3>2. s \in Seq(S) /\ t \in Seq(S) /\ Len(s) = k - 1 /\ Len(t) = Len(l) - k
      BY <2>5, <2>6 DEF s, t
    <3>3. /\ r \in Seq(S) /\ Len(r) = Len(s) + Len(t)
          /\ \A m \in 1 .. Len(s) + Len(t) : r[m] = IF m <= Len(s) THEN s[m] ELSE t[m - Len(s)]
      BY <3>1, <3>2, ConcatProperties
    <3>4. Len(r) = Len(l) - 1
      BY <2>4, <3>2, <3>3
    <3>5. \A m \in 1 .. Len(r) : m <= Len(s) <=> m < k
      BY <2>4, <3>2, <3>4
    <3> QED BY <3>2, <3>3, <3>4, <3>5
  <2>8. \A m \in 1 .. Len(r) : r[m] = IF m < k THEN l[m] ELSE l[m + 1]
    <3> SUFFICES ASSUME NEW m \in 1 .. Len(r) PROVE r[m] = IF m < k THEN l[m] ELSE l[m + 1]
      OBVIOUS
    <3>1. CASE m < k
      BY <2>4, <2>5, <2>7, <3>1
    <3>2. CASE ~(m < k)
      <4>1. m - (k - 1) \in 1 .. Len(l) - k /\ k + (m - (k - 1)) = m + 1
        BY <2>4, <2>7, <3>2
      <4> QED BY <2>6, <2>7, <3>2, <4>1
    <3> QED BY <3>1, <3>2
  <2> QED
    BY <2>4, <2>7, <2>8 DEF ClosedUp
<1> QED
  BY <1>1, <1>2

-----------------------------------------------------------------------------
IsBank(b) ==
  /\ b \in [size : Nat \ {0}, bucket : {b.bucket}, next : Nat \ {0},
            perm : SUBSET Nat, index : [Addrs -> Nat]]
  /\ b.bucket \in [Slots(b) -> Seq(Addrs \cup {Null})]

(* What is in a bucket belongs there, and is there once. *)
Placed(b) ==
  \A k \in Slots(b) : \A n \in DOMAIN b.bucket[k] :
    /\ b.bucket[k][n] \in Addrs
    /\ b.index[b.bucket[k][n]] # 0
    /\ Slot(b, b.index[b.bucket[k][n]]) = k

Once(b) ==
  \A k \in Slots(b) : \A m, n \in DOMAIN b.bucket[k] :
    b.bucket[k][m] = b.bucket[k][n] => m = n

(* What has an index is in the bucket of it, and has it alone. *)
Held(b) ==
  \A a \in Addrs : b.index[a] # 0 =>
    \E n \in DOMAIN b.bucket[Slot(b, b.index[a])] : b.bucket[Slot(b, b.index[a])][n] = a

Owned(b) ==
  \A a \in Addrs :
    /\ b.index[a] < b.next
    /\ \A c \in Addrs : b.index[a] # 0 /\ b.index[c] = b.index[a] => c = a

Sound(b) == Placed(b) /\ Once(b) /\ Held(b) /\ Owned(b)

LEMMA SlotInTable ==
  ASSUME NEW b, IsBank(b), NEW i \in Nat
  PROVE  Slot(b, i) \in Slots(b)
BY DEF IsBank, Slot, Slots

(* What AddressList::get answers is an address in that bucket with that    *)
(* index.                                                                  *)
LEMMA GetAnswers ==
  ASSUME NEW b, IsBank(b), NEW i \in Nat, Get(b, i) # None
  PROVE  /\ Get(b, i) \in Addrs /\ b.index[Get(b, i)] = i
         /\ \E n \in DOMAIN b.bucket[Slot(b, i)] : b.bucket[Slot(b, i)][n] = Get(b, i)
<1> DEFINE l == b.bucket[Slot(b, i)]
           at == {n \in DOMAIN l : l[n] # Null /\ b.index[l[n]] = i}
<1>1. l \in Seq(Addrs \cup {Null})
  BY SlotInTable DEF IsBank
<1>2. at \in SUBSET Nat
  BY <1>1
<1>3. at # {} /\ Get(b, i) = l[Min(at)]
  BY DEF Get
<1>4. Min(at) \in at
  <2> HIDE DEF at
  <2> QED BY <1>2, <1>3, LeastOf
<1>5. PICK n \in DOMAIN l : l[n] = Get(b, i) /\ l[n] # Null /\ b.index[l[n]] = i
  BY <1>3, <1>4
<1>6. l[n] \in Addrs \cup {Null}
  BY <1>1, <1>5
<1> QED
  BY <1>5, <1>6

(* In a sound table every address is found under its index, and under the  *)
(* others nothing.                                                         *)
LEMMA GetFinds ==
  ASSUME NEW b, IsBank(b), Sound(b), NEW a \in Addrs, b.index[a] # 0
  PROVE  Get(b, b.index[a]) = a
<1> DEFINE i == b.index[a]
           l == b.bucket[Slot(b, i)]
           at == {n \in DOMAIN l : l[n] # Null /\ b.index[l[n]] = i}
<1>1. i \in Nat
  BY DEF IsBank
<1>2. PICK n \in DOMAIN l : l[n] = a
  BY DEF Sound, Held
<1>3. n \in at
  BY <1>2, BankAssumption
<1>5. at # {} /\ Get(b, i) = l[Min(at)]
  BY <1>3 DEF Get
<1>6. l \in Seq(Addrs \cup {Null})
  BY <1>1, SlotInTable DEF IsBank
<1>7. at \in SUBSET Nat
  BY <1>6
<1>8. Min(at) \in at
  <2> HIDE DEF at
  <2> QED BY <1>5, <1>7, LeastOf
<1>9. PICK m \in DOMAIN l : l[m] = Get(b, i) /\ l[m] # Null /\ b.index[l[m]] = i
  BY <1>5, <1>8
<1>10. l[m] \in Addrs \cup {Null}
  BY <1>6, <1>9
<1> QED
  BY <1>9, <1>10 DEF Sound, Owned

LEMMA GetFindsNone ==
  ASSUME NEW b, IsBank(b), Sound(b), NEW i \in Nat, Get(b, i) # None
  PROVE  i # 0
<1>1. PICK n \in DOMAIN b.bucket[Slot(b, i)] : b.bucket[Slot(b, i)][n] = Get(b, i)
  BY GetAnswers
<1> QED
  BY <1>1, GetAnswers, SlotInTable DEF Sound, Placed

(* So what a sound table answers depends on the indices alone. *)
LEMMA LookUpFollowsIndex ==
  ASSUME NEW b, IsBank(b), Sound(b), NEW i \in Nat, NEW a \in Addrs
  PROVE  LookUp(b, i) = a <=> i # 0 /\ b.index[a] = i
BY GetFinds, GetAnswers, BankAssumption DEF LookUp

LEMMA LookUpRange ==
  ASSUME NEW b, IsBank(b), NEW i \in Nat
  PROVE  LookUp(b, i) \in Addrs \cup {None}
BY GetAnswers DEF LookUp

-----------------------------------------------------------------------------
(* A pinned address stands first in a marked bucket. *)
Pinned(b, S) ==
  \A a \in S :
    /\ a \in Addrs /\ b.index[a] # 0
    /\ Slot(b, b.index[a]) \in b.perm
    /\ IsFirst(b, a)

LEMMA AddToEffect ==
  ASSUME NEW b, IsBank(b), NEW a \in Addrs, b.index[a] = 0
  PROVE  LET r == AddTo(b, a)
             k == Slot(b, b.next)
         IN  /\ IsBank(r)
             /\ r.size = b.size /\ r.perm = b.perm /\ r.next = b.next + 1
             /\ r.index = [b.index EXCEPT ![a] = b.next]
             /\ r.bucket = [b.bucket EXCEPT ![k] = Append(@, a)]
             /\ k \in Slots(b)
<1> DEFINE r == AddTo(b, a)
           k == Slot(b, b.next)
<1>1. k \in Slots(b)
  BY SlotInTable DEF IsBank
<1>2. /\ r = [size |-> b.size, bucket |-> [b.bucket EXCEPT ![k] = Append(@, a)],
             next |-> b.next + 1, perm |-> b.perm, index |-> [b.index EXCEPT ![a] = b.next]]
  BY DEF AddTo, IsBank
<1>3. b.bucket[k] \in Seq(Addrs \cup {Null})
  BY <1>1 DEF IsBank
<1>4. Append(b.bucket[k], a) \in Seq(Addrs \cup {Null})
  BY <1>3
<1>5. [b.bucket EXCEPT ![k] = Append(@, a)] \in [Slots(b) -> Seq(Addrs \cup {Null})]
  BY <1>4 DEF IsBank
<1>6. IsBank(r)
  BY <1>2, <1>5 DEF IsBank, Slots
<1> QED
  BY <1>1, <1>2, <1>6

LEMMA AddIsSound ==
  ASSUME NEW b, IsBank(b), NEW a \in Addrs, b.index[a] = 0
  PROVE  /\ Sound(b) => Sound(AddTo(b, a))
         /\ \A S : Pinned(b, S) => Pinned(AddTo(b, a), S)
<1> DEFINE r == AddTo(b, a)
           k == Slot(b, b.next)
<1>1. /\ IsBank(r)
      /\ r.size = b.size /\ r.perm = b.perm /\ r.next = b.next + 1
      /\ r.index = [b.index EXCEPT ![a] = b.next]
      /\ r.bucket = [b.bucket EXCEPT ![k] = Append(@, a)]
      /\ k \in Slots(b)
  BY AddToEffect
<1> HIDE DEF r
<1>2. Slots(r) = Slots(b) /\ \A i : Slot(r, i) = Slot(b, i)
  BY <1>1 DEF Slots, Slot
<1>3. /\ b.index \in [Addrs -> Nat] /\ b.next \in Nat \ {0}
      /\ b.bucket \in [Slots(b) -> Seq(Addrs \cup {Null})]
  BY DEF IsBank
<1>4. \A c \in Addrs : r.index[c] = IF c = a THEN b.next ELSE b.index[c]
  BY <1>1, <1>3
<1>5. \A j \in Slots(b) : j # k => r.bucket[j] = b.bucket[j]
  BY <1>1, <1>3
<1>6. /\ r.bucket[k] = Append(b.bucket[k], a) /\ b.bucket[k] \in Seq(Addrs \cup {Null})
  BY <1>1, <1>3
<1>7. /\ Len(r.bucket[k]) = Len(b.bucket[k]) + 1 /\ r.bucket[k] \in Seq(Addrs \cup {Null})
      /\ r.bucket[k][Len(b.bucket[k]) + 1] = a
      /\ \A n \in DOMAIN b.bucket[k] : n \in DOMAIN r.bucket[k] /\ r.bucket[k][n] = b.bucket[k][n]
      /\ \A n \in DOMAIN r.bucket[k] : n \in DOMAIN b.bucket[k] \/ n = Len(b.bucket[k]) + 1
  BY <1>6
<1>8. ASSUME Sound(b) PROVE Sound(r)
  <2>1. \A n \in DOMAIN b.bucket[k] : b.bucket[k][n] # a
    BY <1>1, <1>8 DEF Sound, Placed
  <2>2. \A j \in Slots(b) : j # k => \A n \in DOMAIN b.bucket[j] : b.bucket[j][n] # a
    BY <1>8 DEF Sound, Placed
  <2>3. Placed(r)
    <3> SUFFICES ASSUME NEW j \in Slots(b), NEW n \in DOMAIN r.bucket[j]
                 PROVE  /\ r.bucket[j][n] \in Addrs
                        /\ r.index[r.bucket[j][n]] # 0
                        /\ Slot(b, r.index[r.bucket[j][n]]) = j
      BY <1>2 DEF Placed
    <3>1. CASE j # k
      BY <1>4, <1>5, <1>8, <2>2, <3>1 DEF Sound, Placed
    <3>2. CASE j = k /\ n \in DOMAIN b.bucket[k]
      BY <1>4, <1>7, <1>8, <2>1, <3>2 DEF Sound, Placed
    <3>3. CASE j = k /\ n = Len(b.bucket[k]) + 1
      BY <1>3, <1>4, <1>7, <3>3
    <3> QED BY <1>7, <3>1, <3>2, <3>3
  <2>4. Once(r)
    <3> SUFFICES ASSUME NEW j \in Slots(b), NEW m \in DOMAIN r.bucket[j], NEW n \in DOMAIN r.bucket[j],
                        r.bucket[j][m] = r.bucket[j][n]
                 PROVE  m = n
      BY <1>2 DEF Once
    <3>1. CASE j # k
      BY <1>5, <1>8, <3>1 DEF Sound, Once
    <3>2. CASE j = k
      BY <1>1, <1>7, <1>8, <2>1, <3>2, SMTT(30) DEF Sound, Once
    <3> QED BY <3>1, <3>2
  <2>5. Held(r)
    <3> SUFFICES ASSUME NEW c \in Addrs, r.index[c] # 0
                 PROVE  \E n \in DOMAIN r.bucket[Slot(b, r.index[c])] : r.bucket[Slot(b, r.index[c])][n] = c
      BY <1>2 DEF Held
    <3>1. CASE c = a
      <4>1. Len(b.bucket[k]) + 1 \in DOMAIN r.bucket[k]
        BY <1>6, <1>7
      <4> QED BY <1>4, <1>7, <3>1, <4>1
    <3>2. CASE c # a
      <4>1. r.index[c] = b.index[c]
        BY <1>4, <3>2
      <4>2. PICK n \in DOMAIN b.bucket[Slot(b, b.index[c])] : b.bucket[Slot(b, b.index[c])][n] = c
        BY <1>8, <4>1 DEF Sound, Held
      <4>3. Slot(b, b.index[c]) \in Slots(b)
        BY <1>3, SlotInTable
      <4> QED BY <1>5, <1>7, <4>1, <4>2, <4>3
    <3> QED BY <3>1, <3>2
  <2>6. Owned(r)
    BY <1>1, <1>3, <1>4, <1>8 DEF Sound, Owned
  <2> QED BY <2>3, <2>4, <2>5, <2>6 DEF Sound
<1>9. ASSUME NEW S, Pinned(b, S) PROVE Pinned(r, S)
  <2> SUFFICES ASSUME NEW c \in S
               PROVE  /\ c \in Addrs /\ r.index[c] # 0
                      /\ Slot(r, r.index[c]) \in r.perm
                      /\ IsFirst(r, c)
    BY DEF Pinned
  <2>1. /\ c \in Addrs /\ b.index[c] # 0 /\ r.index[c] = b.index[c]
        /\ Slot(b, b.index[c]) \in b.perm /\ Slot(b, b.index[c]) \in Slots(b)
    BY <1>3, <1>4, <1>9, SlotInTable DEF Pinned
  <2> DEFINE j == Slot(b, b.index[c])
  <2>2. b.bucket[j] # <<>> /\ b.bucket[j][1] = c /\ b.bucket[j] \in Seq(Addrs \cup {Null})
    BY <1>3, <1>9, <2>1 DEF Pinned, IsFirst
  <2>3. r.bucket[j] # <<>> /\ r.bucket[j][1] = c
    <3>1. CASE j # k
      BY <1>5, <2>1, <2>2, <3>1
    <3>2. CASE j = k
      BY <1>7, <2>2, <3>2
    <3> QED BY <3>1, <3>2
  <2>4. r.bucket[j] \in Seq(Addrs \cup {Null})
    BY <1>1, <1>2, <2>1 DEF IsBank
  <2> QED BY <1>1, <1>2, <2>1, <2>3, <2>4 DEF IsFirst
<1> QED
  BY <1>8, <1>9 DEF r

LEMMA RemoveFromEffect ==
  ASSUME NEW b, IsBank(b), NEW a \in Addrs, b.index[a] # 0
  PROVE  LET r == RemoveFrom(b, a)
             k == Slot(b, b.index[a])
         IN  /\ IsBank(r)
             /\ r.size = b.size /\ r.perm = b.perm /\ r.next = b.next
             /\ r.index = [b.index EXCEPT ![a] = 0]
             /\ r.bucket = [b.bucket EXCEPT ![k] = RemoveFirst(@, a)]
             /\ k \in Slots(b)
<1> DEFINE r == RemoveFrom(b, a)
           k == Slot(b, b.index[a])
<1>1. k \in Slots(b)
  BY SlotInTable DEF IsBank
<1>2. /\ r = [size |-> b.size, bucket |-> [b.bucket EXCEPT ![k] = RemoveFirst(@, a)],
             next |-> b.next, perm |-> b.perm, index |-> [b.index EXCEPT ![a] = 0]]
  BY DEF RemoveFrom, IsBank
<1>3. b.bucket[k] \in Seq(Addrs \cup {Null})
  BY <1>1 DEF IsBank
<1>4. RemoveFirst(b.bucket[k], a) \in Seq(Addrs \cup {Null})
  BY <1>3, RemovedFirst
<1>5. [b.bucket EXCEPT ![k] = RemoveFirst(@, a)] \in [Slots(b) -> Seq(Addrs \cup {Null})]
  BY <1>4 DEF IsBank
<1>6. IsBank(r)
  BY <1>2, <1>5 DEF IsBank, Slots
<1> QED
  BY <1>1, <1>2, <1>6

LEMMA RemovalIsSound ==
  ASSUME NEW b, IsBank(b), NEW a \in Addrs, b.index[a] # 0
  PROVE  /\ Sound(b) => Sound(RemoveFrom(b, a))
         /\ \A S : Pinned(b, S) => Pinned(RemoveFrom(b, a), S \ {a})
<1> DEFINE r == RemoveFrom(b, a)
           k == Slot(b, b.index[a])
           l == b.bucket[k]
<1>1. /\ IsBank(r)
      /\ r.size = b.size /\ r.perm = b.perm /\ r.next = b.next
      /\ r.index = [b.index EXCEPT ![a] = 0]
      /\ r.bucket = [b.bucket EXCEPT ![k] = RemoveFirst(@, a)]
      /\ k \in Slots(b)
  BY RemoveFromEffect
<1> HIDE DEF r
<1>2. Slots(r) = Slots(b) /\ \A i : Slot(r, i) = Slot(b, i)
  BY <1>1 DEF Slots, Slot
<1>3. /\ b.index \in [Addrs -> Nat] /\ b.next \in Nat \ {0}
      /\ b.bucket \in [Slots(b) -> Seq(Addrs \cup {Null})]
  BY DEF IsBank
<1>4. \A c \in Addrs : r.index[c] = IF c = a THEN 0 ELSE b.index[c]
  BY <1>1, <1>3
<1>5. \A j \in Slots(b) : j # k => r.bucket[j] = b.bucket[j]
  BY <1>1, <1>3
<1>6. l \in Seq(Addrs \cup {Null}) /\ r.bucket[k] = RemoveFirst(l, a)
  BY <1>1, <1>3
<1>7. /\ r.bucket[k] \in Seq(Addrs \cup {Null})
      /\ \/ r.bucket[k] = l /\ \A n \in 1 .. Len(l) : l[n] # a
         \/ \E x \in 1 .. Len(l) : l[x] = a /\ ClosedUp(r.bucket[k], l, x)
  BY <1>6, RemovedFirst
<1>8. ASSUME Sound(b) PROVE Sound(r)
  <2>1. PICK x \in DOMAIN l : l[x] = a
    BY <1>8 DEF Sound, Held
  <2>2. PICK y \in 1 .. Len(l) : l[y] = a /\ ClosedUp(r.bucket[k], l, y)
    BY <1>6, <1>7, <2>1, SMTT(30)
  <2> HIDE DEF l
  <2>3. \A n \in DOMAIN l : l[n] = a => n = y
    BY <1>1, <1>6, <1>8, <2>2 DEF Sound, Once, l
  <2>4. \A n \in DOMAIN r.bucket[k] :
          /\ n < y => n \in DOMAIN l /\ r.bucket[k][n] = l[n]
          /\ ~(n < y) => n + 1 \in DOMAIN l /\ r.bucket[k][n] = l[n + 1] /\ n + 1 # y
    BY <1>6, <1>7, <2>2 DEF ClosedUp
  <2>5. \A n \in DOMAIN r.bucket[k] : r.bucket[k][n] # a /\ \E m \in DOMAIN l : r.bucket[k][n] = l[m]
    BY <1>6, <1>7, <2>2, <2>3, <2>4
  <2>6. \A n \in DOMAIN l : l[n] # a => \E m \in DOMAIN r.bucket[k] : r.bucket[k][m] = l[n]
    <3> SUFFICES ASSUME NEW n \in DOMAIN l, l[n] # a
                 PROVE  \E m \in DOMAIN r.bucket[k] : r.bucket[k][m] = l[n]
      OBVIOUS
    <3>1. n # y
      BY <2>2
    <3>2. n < y => n \in 1 .. Len(r.bucket[k]) /\ r.bucket[k][n] = l[n]
      BY <1>6, <2>2 DEF ClosedUp
    <3>3. ~(n < y) => n - 1 \in 1 .. Len(r.bucket[k]) /\ r.bucket[k][n - 1] = l[n]
      BY <1>6, <2>2, <3>1 DEF ClosedUp
    <3> QED BY <1>7, <3>2, <3>3
  <2>7. \A j \in Slots(b) : j # k => \A n \in DOMAIN b.bucket[j] : b.bucket[j][n] # a
    BY <1>8 DEF Sound, Placed
  <2>8. Placed(r)
    <3> SUFFICES ASSUME NEW j \in Slots(b), NEW n \in DOMAIN r.bucket[j]
                 PROVE  /\ r.bucket[j][n] \in Addrs
                        /\ r.index[r.bucket[j][n]] # 0
                        /\ Slot(b, r.index[r.bucket[j][n]]) = j
      BY <1>2 DEF Placed
    <3>1. CASE j # k
      BY <1>4, <1>5, <1>8, <2>7, <3>1 DEF Sound, Placed
    <3>2. CASE j = k
      BY <1>4, <1>8, <2>5, <3>2, SMTT(30) DEF Sound, Placed, l
    <3> QED BY <3>1, <3>2
  <2>9. Once(r)
    <3> SUFFICES ASSUME NEW j \in Slots(b), NEW m \in DOMAIN r.bucket[j], NEW n \in DOMAIN r.bucket[j],
                        r.bucket[j][m] = r.bucket[j][n]
                 PROVE  m = n
      BY <1>2 DEF Once
    <3>1. CASE j # k
      BY <1>5, <1>8, <3>1 DEF Sound, Once
    <3>2. CASE j = k
      <4>1. \A u, v \in DOMAIN l : l[u] = l[v] => u = v
        BY <1>1, <1>8 DEF Sound, Once, l
      <4>2. m \in Nat /\ n \in Nat /\ y \in Nat
        BY <1>7, <3>2
      <4> QED BY <2>4, <3>2, <4>1, <4>2
    <3> QED BY <3>1, <3>2
  <2>10. Held(r)
    <3> SUFFICES ASSUME NEW c \in Addrs, r.index[c] # 0
                 PROVE  \E n \in DOMAIN r.bucket[Slot(b, r.index[c])] : r.bucket[Slot(b, r.index[c])][n] = c
      BY <1>2 DEF Held
    <3>1. c # a /\ r.index[c] = b.index[c]
      BY <1>4
    <3>2. PICK n \in DOMAIN b.bucket[Slot(b, b.index[c])] : b.bucket[Slot(b, b.index[c])][n] = c
      BY <1>8, <3>1 DEF Sound, Held
    <3>3. Slot(b, b.index[c]) \in Slots(b)
      BY <1>3, SlotInTable
    <3>4. CASE Slot(b, b.index[c]) # k
      BY <1>5, <3>1, <3>2, <3>3, <3>4
    <3>5. CASE Slot(b, b.index[c]) = k
      BY <2>6, <3>1, <3>2, <3>5 DEF l
    <3> QED BY <3>4, <3>5
  <2>11. Owned(r)
    BY <1>1, <1>3, <1>4, <1>8 DEF Sound, Owned
  <2> QED BY <2>8, <2>9, <2>10, <2>11 DEF Sound
<1>9. ASSUME NEW S, Pinned(b, S) PROVE Pinned(r, S \ {a})
  <2> SUFFICES ASSUME NEW c \in S \ {a}
               PROVE  /\ c \in Addrs /\ r.index[c] # 0
                      /\ Slot(r, r.index[c]) \in r.perm
                      /\ IsFirst(r, c)
    BY DEF Pinned
  <2>1. /\ c \in Addrs /\ b.index[c] # 0 /\ r.index[c] = b.index[c] /\ c # a
        /\ Slot(b, b.index[c]) \in b.perm /\ Slot(b, b.index[c]) \in Slots(b)
    BY <1>3, <1>4, <1>9, SlotInTable DEF Pinned
  <2> DEFINE j == Slot(b, b.index[c])
  <2>2. b.bucket[j] # <<>> /\ b.bucket[j][1] = c /\ b.bucket[j] \in Seq(Addrs \cup {Null})
    BY <1>3, <1>9, <2>1 DEF Pinned, IsFirst
  <2>3. r.bucket[j] # <<>> /\ r.bucket[j][1] = c
    <3>1. CASE j # k
      BY <1>5, <2>1, <2>2, <3>1
    <3>2. CASE j = k
      BY <1>7, <2>1, <2>2, <3>2, SMTT(30) DEF ClosedUp
    <3> QED BY <3>1, <3>2
  <2>4. r.bucket[j] \in Seq(Addrs \cup {Null})
    BY <1>1, <1>2, <2>1 DEF IsBank
  <2> QED BY <1>1, <1>2, <2>1, <2>3, <2>4 DEF IsFirst
<1> QED
  BY <1>8, <1>9 DEF r

LEMMA KeptIsFinite ==
  ASSUME NEW b, IsBank(b), NEW size \in Nat \ {0}, NEW k
  PROVE  /\ Kept(b, size, k) \in SUBSET Nat /\ IsFiniteSet(Kept(b, size, k))
         /\ Cardinality(Kept(b, size, k)) \in Nat
<1>1. Kept(b, size, k) \in SUBSET OldIndices(b)
  BY DEF Kept
<1>2. OldIndices(b) \subseteq Nat /\ b.next - 1 \in Int
  BY DEF OldIndices, IsBank
<1>3. IsFiniteSet(OldIndices(b))
  BY <1>2, FS_Interval DEF OldIndices
<1> QED
  BY <1>1, <1>2, <1>3, FS_Subset, FS_CardinalityType

LEMMA RehashEffect ==
  ASSUME NEW b, IsBank(b), NEW size \in Nat \ {0}
  PROVE  LET r == Rehash(b, size)
         IN  /\ IsBank(r)
             /\ r.size = size /\ r.perm = {} /\ r.next = b.next /\ r.index = b.index
             /\ r.bucket = [k \in 0 .. size - 1 |->
                  [n \in 1 .. Cardinality(Kept(b, size, k)) |-> Get(b, Nth(Kept(b, size, k), n))]]
<1> DEFINE r == Rehash(b, size)
           list(k) == [n \in 1 .. Cardinality(Kept(b, size, k)) |-> Get(b, Nth(Kept(b, size, k), n))]
           table == [k \in 0 .. size - 1 |-> list(k)]
<1>1. r = [size |-> size, bucket |-> table, next |-> b.next, perm |-> {}, index |-> b.index]
  <2>1. r = [b EXCEPT !.size = size, !.bucket = table, !.perm = {}]
    BY DEF Rehash
  <2> HIDE DEF r, table
  <2> QED BY <2>1 DEF IsBank
<1>2. ASSUME NEW k PROVE list(k) \in Seq(Addrs \cup {Null})
  <2>1. /\ Kept(b, size, k) \in SUBSET Nat /\ IsFiniteSet(Kept(b, size, k))
        /\ Cardinality(Kept(b, size, k)) \in Nat
    BY KeptIsFinite
  <2>2. \A n \in 1 .. Cardinality(Kept(b, size, k)) : Nth(Kept(b, size, k), n) \in Kept(b, size, k)
    BY <2>1, NthHasRank
  <2>3. \A i \in Kept(b, size, k) : Get(b, i) \in Addrs \cup {Null}
    BY <2>1, GetAnswers DEF Kept
  <2> QED BY <2>1, <2>2, <2>3
<1>3. table \in [0 .. size - 1 -> Seq(Addrs \cup {Null})]
  BY <1>2
<1> HIDE DEF table
<1>4. IsBank(r)
  BY <1>1, <1>3 DEF IsBank, Slots
<1> QED
  BY <1>1, <1>4 DEF table

LEMMA RehashIsSound ==
  ASSUME NEW b, IsBank(b), Sound(b), NEW size \in Nat \ {0}
  PROVE  Sound(Rehash(b, size))
<1> DEFINE r == Rehash(b, size)
           K(k) == Kept(b, size, k)
<1>1. /\ IsBank(r)
      /\ r.size = size /\ r.perm = {} /\ r.next = b.next /\ r.index = b.index
      /\ r.bucket = [k \in 0 .. size - 1 |-> [n \in 1 .. Cardinality(K(k)) |-> Get(b, Nth(K(k), n))]]
  BY RehashEffect
<1> HIDE DEF r
<1>2. /\ \A k \in Slots(r) : /\ DOMAIN r.bucket[k] = 1 .. Cardinality(K(k))
                             /\ \A n \in DOMAIN r.bucket[k] : r.bucket[k][n] = Get(b, Nth(K(k), n))
      /\ Slots(r) = 0 .. size - 1
      /\ \A i : Slot(r, i) = i % size
  BY <1>1 DEF Slots, Slot
<1>3. \A k : /\ \A n \in 1 .. Cardinality(K(k)) : Nth(K(k), n) \in K(k) /\ Rank(K(k), Nth(K(k), n)) = n
             /\ \A i \in K(k) : Rank(K(k), i) \in 1 .. Cardinality(K(k)) /\ Nth(K(k), Rank(K(k), i)) = i
  BY KeptIsFinite, NthHasRank
<1>4. \A k : \A i \in K(k) : /\ i \in Nat \ {0} /\ i % size = k
                            /\ Get(b, i) \in Addrs /\ b.index[Get(b, i)] = i
  <2> SUFFICES ASSUME NEW k, NEW i \in K(k)
               PROVE  /\ i \in Nat \ {0} /\ i % size = k
                      /\ Get(b, i) \in Addrs /\ b.index[Get(b, i)] = i
    OBVIOUS
  <2>1. i \in Nat /\ i % size = k /\ Get(b, i) # None
    BY KeptIsFinite DEF Kept
  <2> QED BY <2>1, GetAnswers, GetFindsNone
<1> HIDE DEF K
<1>5. Placed(r)
  BY <1>1, <1>2, <1>3, <1>4 DEF Placed
<1>6. Once(r)
  <2> SUFFICES ASSUME NEW k \in Slots(r), NEW m \in DOMAIN r.bucket[k], NEW n \in DOMAIN r.bucket[k],
                      r.bucket[k][m] = r.bucket[k][n]
               PROVE  m = n
    BY DEF Once
  <2>1. Get(b, Nth(K(k), m)) = Get(b, Nth(K(k), n)) /\ Nth(K(k), m) \in K(k) /\ Nth(K(k), n) \in K(k)
    BY <1>2, <1>3
  <2>2. Nth(K(k), m) = Nth(K(k), n)
    BY <1>4, <2>1
  <2>3. Rank(K(k), Nth(K(k), m)) = m /\ Rank(K(k), Nth(K(k), n)) = n
    BY <1>2, <1>3
  <2> QED BY <2>2, <2>3
<1>7. Held(r)
  <2>0. \A a \in Addrs : r.index[a] = b.index[a] /\ Slot(r, r.index[a]) = b.index[a] % size
    BY <1>1, <1>2
  <2> SUFFICES ASSUME NEW a \in Addrs, b.index[a] # 0
               PROVE  \E n \in DOMAIN r.bucket[b.index[a] % size] : r.bucket[b.index[a] % size][n] = a
    BY <2>0 DEF Held
  <2> DEFINE i == b.index[a]
             k == i % size
  <2>1. i \in Nat /\ i < b.next /\ b.next \in Nat
    BY DEF Sound, Owned, IsBank
  <2>2. k \in 0 .. size - 1
    BY <2>1
  <2>3. Get(b, i) = a /\ a # None
    BY GetFinds, BankAssumption
  <2>4. i \in K(k)
    BY <2>1, <2>3 DEF K, Kept, OldIndices
  <2>5. Rank(K(k), i) \in 1 .. Cardinality(K(k)) /\ Nth(K(k), Rank(K(k), i)) = i
    BY <1>3, <2>4
  <2> QED BY <1>2, <2>2, <2>3, <2>5, ZenonT(30)
<1>8. Owned(r)
  BY <1>1 DEF Sound, Owned
<1> QED
  BY <1>5, <1>6, <1>7, <1>8 DEF Sound, r

(* Moving an address leaves the pinned ones alone: it takes an unmarked    *)
(* bucket.                                                                 *)
LEMMA DisplaceEffect ==
  ASSUME NEW b, IsBank(b), NEW a \in Addrs, b.index[a] # 0
  PROVE  /\ IsBank(Displace(b, a))
         /\ \A S : Pinned(b, S) => Pinned(Displace(b, a), S \ {a})
<1> DEFINE r == RemoveFrom(b, a)
           k == Min(Free(b))
           l == r.bucket[k]
           moved_l == IF l = <<>> THEN <<Null>> ELSE <<a>> \o Tail(l) \o <<Head(l)>>
           d == Displace(b, a)
<1>1. /\ IsBank(r) /\ r.size = b.size /\ r.perm = b.perm
      /\ \A S : Pinned(b, S) => Pinned(r, S \ {a})
  BY RemoveFromEffect, RemovalIsSound
<1> HIDE DEF r
<1>2. CASE Free(b) = {}
  BY <1>1, <1>2 DEF Displace, r
<1>3. CASE Free(b) # {}
  <2>1. Free(b) \in SUBSET Nat
    BY DEF Free, Slots, IsBank
  <2>2. k \in Free(b)
    BY <1>3, <2>1, LeastOf
  <2>3. k \in Slots(r) /\ k \notin r.perm /\ k \in Nat
    BY <1>1, <2>1, <2>2 DEF Free, Slots
  <2>4. l \in Seq(Addrs \cup {Null})
    BY <1>1, <2>3 DEF IsBank
  <2> HIDE DEF k
  <2>5. /\ r \in [size : Nat \ {0}, bucket : {r.bucket}, next : Nat \ {0},
                  perm : SUBSET Nat, index : [Addrs -> Nat]]
        /\ r.bucket \in [Slots(r) -> Seq(Addrs \cup {Null})]
    BY <1>1 DEF IsBank
  <2>6. d = [size |-> r.size, bucket |-> [r.bucket EXCEPT ![k] = moved_l], next |-> r.next,
             perm |-> r.perm \cup {k}, index |-> [r.index EXCEPT ![a] = r.next + k]]
    BY <1>3, <2>5 DEF Displace, r, k
  <2>7. moved_l \in Seq(Addrs \cup {Null})
    <3>1. CASE l = <<>>
      BY <3>1
    <3>2. CASE l # <<>>
      <4>1. <<a>> \in Seq(Addrs \cup {Null}) /\ Tail(l) \in Seq(Addrs \cup {Null})
        BY <2>4, <3>2
      <4>2. <<Head(l)>> \in Seq(Addrs \cup {Null})
        BY <2>4, <3>2
      <4>3. <<a>> \o Tail(l) \o <<Head(l)>> \in Seq(Addrs \cup {Null})
        BY <4>1, <4>2, ConcatProperties
      <4> QED BY <3>2, <4>3
    <3> QED BY <3>1, <3>2
  <2> HIDE DEF moved_l, d
  <2>8. [r.bucket EXCEPT ![k] = moved_l] \in [Slots(r) -> Seq(Addrs \cup {Null})]
    BY <2>5, <2>7
  <2>9. r.next + k \in Nat
    BY <2>3, <2>5
  <2>10. IsBank(d)
    BY <2>3, <2>5, <2>6, <2>8, <2>9 DEF IsBank, Slots
  <2>11. ASSUME NEW S, Pinned(r, S \ {a}) PROVE Pinned(d, S \ {a})
    <3> SUFFICES ASSUME NEW c \in S \ {a}
                 PROVE  /\ c \in Addrs /\ d.index[c] # 0
                        /\ Slot(d, d.index[c]) \in d.perm
                        /\ IsFirst(d, c)
      BY DEF Pinned
    <3>1. /\ c \in Addrs /\ r.index[c] # 0 /\ c # a /\ IsFirst(r, c)
          /\ Slot(r, r.index[c]) \in r.perm
      BY <2>11 DEF Pinned
    <3>2. d.index[c] = r.index[c] /\ d.size = r.size /\ d.perm = r.perm \cup {k}
      BY <2>5, <2>6, <3>1
    <3>3. Slot(r, r.index[c]) # k /\ Slot(d, d.index[c]) = Slot(r, r.index[c])
      BY <2>3, <3>1, <3>2 DEF Slot
    <3>4. Slot(r, r.index[c]) \in Slots(r)
      BY <1>1, <2>5, <3>1, SlotInTable
    <3>5. d.bucket[Slot(r, r.index[c])] = r.bucket[Slot(r, r.index[c])]
      BY <2>5, <2>6, <3>3, <3>4
    <3> QED BY <3>1, <3>2, <3>3, <3>5 DEF IsFirst
  <2> QED BY <1>1, <2>10, <2>11 DEF d
<1> QED
  BY <1>2, <1>3

LEMMA MarkEffect ==
  ASSUME NEW b, IsBank(b), NEW a \in Addrs, b.index[a] # 0, IsFirst(b, a)
  PROVE  LET m == Permanent(b, a)
         IN  /\ IsBank(m) /\ m.index = b.index /\ m.next = b.next
             /\ Sound(b) => Sound(m)
             /\ \A S : Pinned(b, S) => Pinned(m, S \cup {a})
<1> DEFINE m == Permanent(b, a)
           k == Slot(b, b.index[a])
<1>1. m = [size |-> b.size, bucket |-> b.bucket, next |-> b.next,
           perm |-> b.perm \cup {k}, index |-> b.index]
  BY DEF Permanent, IsBank
<1>2. k \in Slots(b)
  BY SlotInTable DEF IsBank
<1>3. IsBank(m)
  BY <1>1, <1>2 DEF IsBank, Slots
<1>4. Sound(b) => Sound(m)
  BY <1>1, SMTT(30) DEF Sound, Placed, Once, Held, Owned, Slot, Slots
<1>5. \A S : Pinned(b, S) => Pinned(m, S \cup {a})
  BY <1>1, SMTT(30) DEF Pinned, IsFirst, Slot
<1> QED
  BY <1>1, <1>3, <1>4, <1>5

-----------------------------------------------------------------------------
(* The record of the indices that were ever current: it has them all, and  *)
(* in a sound table none of them was given to two addresses.               *)
Recorded(b, h) ==
  /\ h \subseteq [index : Nat \ {0}, addr : Addrs]
  /\ \A a \in Addrs : b.index[a] # 0 => [index |-> b.index[a], addr |-> a] \in h

GivenOnce(b, h) ==
  \A g \in h : g.index < b.next /\ \A k \in h : k.index = g.index => k = g

LEMMA RecordGrows ==
  ASSUME NEW b, NEW r, IsBank(r), NEW h, Recorded(b, h)
  PROVE  Recorded(r, h \cup Current(r))
BY DEF Recorded, Current, IsBank

LEMMA RecordStays ==
  ASSUME NEW b, NEW r, NEW h, Recorded(b, h),
         \A a \in Addrs : r.index[a] \in {0, b.index[a]}
  PROVE  h \cup Current(r) = h
BY DEF Recorded, Current

LEMMA RecordOfAdded ==
  ASSUME NEW b, IsBank(b), NEW h, Recorded(b, h), NEW a \in Addrs, b.index[a] = 0
  PROVE  LET r == AddTo(b, a)
         IN  /\ h \cup Current(r) = h \cup {[index |-> b.next, addr |-> a]}
             /\ GivenOnce(b, h) => GivenOnce(r, h \cup Current(r))
<1> DEFINE r == AddTo(b, a)
           new == [index |-> b.next, addr |-> a]
<1>1. /\ r.next = b.next + 1 /\ b.next \in Nat \ {0}
      /\ \A c \in Addrs : r.index[c] = IF c = a THEN b.next ELSE b.index[c]
  <2>1. r.next = b.next + 1 /\ r.index = [b.index EXCEPT ![a] = b.next]
    BY AddToEffect
  <2>2. b.next \in Nat \ {0} /\ b.index \in [Addrs -> Nat]
    BY DEF IsBank
  <2> QED BY <2>1, <2>2
<1> HIDE DEF r
<1>2. new \in Current(r)
  BY <1>1 DEF Current
<1>3. \A c \in Current(r) : c = new \/ c \in h
  BY <1>1 DEF Current, Recorded
<1>4. h \cup Current(r) = h \cup {new}
  BY <1>2, <1>3
<1>5. ASSUME GivenOnce(b, h) PROVE GivenOnce(r, h \cup {new})
  <2>1. \A g \in h : g.index \in Nat /\ g.index < b.next
    BY <1>5 DEF GivenOnce, Recorded
  <2>2. new.index = b.next
    OBVIOUS
  <2> HIDE DEF new
  <2> QED BY <1>1, <1>5, <2>1, <2>2 DEF GivenOnce
<1> QED
  BY <1>4, <1>5 DEF r

-----------------------------------------------------------------------------
Inv ==
  /\ IsBank(bank) /\ moved \in BOOLEAN /\ bank.next <= MaxIndex
  /\ Recorded(bank, issued)
  /\ Pinned(bank, pins)
  /\ ~moved => Sound(bank) /\ GivenOnce(bank, issued)

LEMMA InitInv == Init => Inv
<1> SUFFICES ASSUME Init PROVE Inv
  OBVIOUS
<1>1. /\ bank = EmptyBank /\ issued = {} /\ pins = {} /\ moved = FALSE
      /\ 0 .. InitSize - 1 = Slots(bank)
  BY DEF Init, BankInit, EmptyBank, Slots
<1>2. /\ bank.size = InitSize /\ bank.next = 1 /\ \A a \in Addrs : bank.index[a] = 0
      /\ \A k \in Slots(bank) : bank.bucket[k] = <<>>
  BY <1>1 DEF EmptyBank
<1>3. IsBank(bank)
  BY <1>1, BankAssumption DEF IsBank, EmptyBank, Slots
<1>4. Sound(bank)
  BY <1>2 DEF Sound, Placed, Once, Held, Owned
<1>5. Recorded(bank, issued) /\ Pinned(bank, pins) /\ GivenOnce(bank, issued)
  BY <1>1, <1>2 DEF Recorded, Pinned, GivenOnce
<1>6. bank.next <= MaxIndex
  BY <1>2, BankAssumption
<1> QED
  BY <1>1, <1>3, <1>4, <1>5, <1>6 DEF Inv

(* What an added address finds, also when it was there before. *)
LEMMA AddToKeeps ==
  ASSUME NEW a \in Addrs, Inv, Room(a)
  PROVE  LET r == AddTo(bank, a)
         IN  /\ IsBank(r) /\ r.next <= MaxIndex /\ r.index[a] # 0
             /\ Pinned(r, pins)
             /\ ~moved => Sound(r) /\ GivenOnce(r, issued \cup Current(r))
<1> DEFINE r == AddTo(bank, a)
<1>1. CASE bank.index[a] # 0
  <2>1. r = bank
    BY <1>1 DEF AddTo
  <2>2. issued \cup Current(bank) = issued
    BY RecordStays DEF Inv
  <2> QED BY <1>1, <2>1, <2>2 DEF Inv
<1>2. CASE bank.index[a] = 0
  <2>1. /\ IsBank(r) /\ r.next = bank.next + 1 /\ r.index = [bank.index EXCEPT ![a] = bank.next]
        /\ bank.next \in Nat \ {0} /\ bank.index \in [Addrs -> Nat] /\ bank.next < MaxIndex
    BY <1>2, AddToEffect DEF Inv, IsBank, Room
  <2>2. r.next <= MaxIndex /\ r.index[a] # 0
    BY <2>1, BankAssumption
  <2> QED BY <1>2, <2>1, <2>2, AddIsSound, RecordOfAdded DEF Inv
<1> QED
  BY <1>1, <1>2

LEMMA AddInv ==
  ASSUME NEW a \in Addrs, Inv, Add(a)
  PROVE  Inv'
<1>1. Room(a) /\ bank' = AddTo(bank, a) /\ issued' = issued \cup Current(bank')
      /\ UNCHANGED <<pins, moved>>
  BY DEF Add, Room, BankStep
<1>2. Recorded(bank', issued')
  BY <1>1, AddToKeeps, RecordGrows DEF Inv
<1> QED
  BY <1>1, <1>2, AddToKeeps DEF Inv

LEMMA RemoveInv ==
  ASSUME NEW a \in Addrs, Inv, RemoveAddr(a)
  PROVE  Inv'
<1>1. /\ bank.index[a] # 0 /\ bank' = RemoveFrom(bank, a) /\ issued' = issued \cup Current(bank')
      /\ pins' = pins \ {a} /\ moved' = moved
  BY DEF RemoveAddr, BankStep
<1>2. /\ IsBank(bank') /\ bank'.next = bank.next /\ bank'.index = [bank.index EXCEPT ![a] = 0]
      /\ bank.index \in [Addrs -> Nat]
  BY <1>1, RemoveFromEffect DEF Inv, IsBank
<1>3. issued' = issued
  BY <1>1, <1>2, RecordStays DEF Inv
<1>4. Recorded(bank', issued')
  BY <1>1, <1>2, RecordGrows DEF Inv
<1> QED
  BY <1>1, <1>2, <1>3, <1>4, RemovalIsSound DEF Inv, GivenOnce

LEMMA PinInPlaceInv ==
  ASSUME NEW a \in Addrs, Inv, PinInPlace(a)
  PROVE  Inv'
<1> DEFINE b == AddTo(bank, a)
<1>1. /\ Room(a) /\ IsFirst(b, a) /\ bank' = Permanent(b, a) /\ issued' = issued \cup Current(bank')
      /\ pins' = pins \cup {a} /\ moved' = moved
  BY DEF PinInPlace, BankStep
<1>2. /\ IsBank(b) /\ b.next <= MaxIndex /\ b.index[a] # 0 /\ Pinned(b, pins)
      /\ ~moved => Sound(b) /\ GivenOnce(b, issued \cup Current(b))
  BY <1>1, AddToKeeps
<1> HIDE DEF b
<1>3. /\ IsBank(bank') /\ bank'.index = b.index /\ bank'.next = b.next
      /\ Sound(b) => Sound(bank')
      /\ Pinned(bank', pins')
  BY <1>1, <1>2, MarkEffect
<1>4. Current(bank') = Current(b)
  BY <1>3 DEF Current
<1>5. Recorded(bank', issued')
  BY <1>1, <1>3, RecordGrows DEF Inv
<1>6. ASSUME ~moved PROVE Sound(bank') /\ GivenOnce(bank', issued')
  BY <1>1, <1>2, <1>3, <1>4, <1>6 DEF GivenOnce
<1>7. bank'.next <= MaxIndex /\ moved' \in BOOLEAN /\ (~moved' => ~moved)
  BY <1>1, <1>2, <1>3 DEF Inv
<1>8. IsBank(bank') /\ Pinned(bank', pins')
  BY <1>2, <1>3
<1> QED
  BY <1>5, <1>6, <1>7, <1>8 DEF Inv

LEMMA PinMovedInv ==
  ASSUME NEW a \in Addrs, Inv, PinMoved(a)
  PROVE  Inv'
<1> DEFINE b == AddTo(bank, a)
<1>1. /\ Room(a) /\ ~IsFirst(b, a) /\ bank' = Permanent(b, a) /\ issued' = issued \cup Current(bank')
      /\ pins' = pins \ {a} /\ moved' = TRUE
  BY DEF PinMoved, BankStep
<1>2. IsBank(b) /\ b.next <= MaxIndex /\ b.index[a] # 0 /\ Pinned(b, pins)
  BY <1>1, AddToKeeps
<1> HIDE DEF b
<1>3. bank' = Displace(b, a)
  BY <1>1 DEF Permanent
<1>4. IsBank(bank') /\ Pinned(bank', pins')
  BY <1>1, <1>2, <1>3, DisplaceEffect
<1>5. bank'.next = b.next
  <2>1. /\ IsBank(RemoveFrom(b, a)) /\ RemoveFrom(b, a).next = b.next
    BY <1>2, RemoveFromEffect
  <2> QED BY <1>3, <2>1 DEF Displace, IsBank
<1>6. Recorded(bank', issued')
  BY <1>1, <1>4, RecordGrows DEF Inv
<1> QED
  BY <1>1, <1>2, <1>4, <1>5, <1>6 DEF Inv

LEMMA ResizeInv ==
  ASSUME NEW size \in Sizes, Inv, ResizeHash(size)
  PROVE  Inv'
<1>1. /\ bank' = Rehash(bank, size) /\ issued' = issued \cup Current(bank')
      /\ pins' = {} /\ moved' = moved /\ size \in Nat \ {0}
  BY BankAssumption DEF ResizeHash, BankStep
<1>2. IsBank(bank') /\ bank'.next = bank.next /\ bank'.index = bank.index
  BY <1>1, RehashEffect DEF Inv
<1>3. issued' = issued
  BY <1>1, <1>2, RecordStays DEF Inv
<1>4. Recorded(bank', issued')
  BY <1>1, <1>2, RecordGrows DEF Inv
<1> QED
  BY <1>1, <1>2, <1>3, <1>4, RehashIsSound DEF Inv, GivenOnce, Pinned

LEMMA NextInv == Inv /\ [Next]_vars => Inv'
<1> SUFFICES ASSUME Inv, [Next]_vars PROVE Inv'
  OBVIOUS
<1>1. CASE UNCHANGED bankVars
  BY <1>1 DEF bankVars, Inv
<1>2. CASE BankNext
  BY <1>2, AddInv, RemoveInv, PinInPlaceInv, PinMovedInv, ResizeInv DEF BankNext
<1> QED
  BY <1>1, <1>2 DEF Next, Push, Disconnect, PushData, vars

LEMMA InvHolds == Spec => []Inv
<1> QED
  BY InitInv, NextInv, PTL DEF Spec

-----------------------------------------------------------------------------
(* The threads that reach a pinned address without a lock find it first in *)
(* its bucket, whatever is added, removed or moved (makePermanent).        *)
THEOREM PinnedAreFirst == Spec => []PinnedStaysFirst
<1>1. Inv => PinnedStaysFirst
  BY DEF Inv, Pinned, PinnedStaysFirst
<1> QED
  BY <1>1, InvHolds, PTL

(* add, remove and resizeHash never cut a live address off.                *)
THEOREM AllAreFound == Spec => []RegisteredIsFound
<1>1. Inv => RegisteredIsFound
  BY GetFinds DEF Inv, RegisteredIsFound, LookUp
<1> QED
  BY <1>1, InvHolds, PTL

(* pushData reaches with the index of a subscription the address that held *)
(* it then, or nothing, for any number of subscriptions.                   *)
THEOREM PushReachesItsOwn == Spec => ReachesOnlySubscribers
<1>1. ASSUME Inv, PushData, ~moved, NEW n \in DOMAIN clients, NEW h \in issued, h.index = clients[n]
      PROVE  reached'[n] \in {h.addr, None}
  <2> DEFINE i == clients[n]
             a == LookUp(bank, i)
  <2>1. i \in Nat \ {0} /\ reached'[n] = a
    BY <1>1 DEF PushData, Inv, Recorded
  <2>2. CASE a = None
    BY <2>1, <2>2
  <2>3. CASE a # None
    <3>1. a \in Addrs /\ bank.index[a] = i
      BY <1>1, <2>1, <2>3, GetAnswers DEF LookUp, Inv
    <3>2. [index |-> i, addr |-> a] \in issued
      BY <1>1, <2>1, <3>1 DEF Inv, Recorded
    <3>3. h = [index |-> i, addr |-> a]
      <4> HIDE DEF a
      <4> QED BY <1>1, <3>2 DEF Inv, GivenOnce
    <3> QED BY <2>1, <3>3
  <2> QED BY <2>2, <2>3
<1>2. Inv /\ [Next]_vars =>
        [PushData /\ ~moved =>
           \A n \in DOMAIN clients : \A h \in issued :
             h.index = clients[n] => reached'[n] \in {h.addr, None}]_vars
  BY <1>1
<1> QED
  BY <1>2, InvHolds, PTL DEF Spec, ReachesOnlySubscribers

-----------------------------------------------------------------------------
(* Two sound tables in which the same address has an index answer it alike. *)
LEMMA SameAnswer ==
  ASSUME NEW b, IsBank(b), Sound(b), NEW r, IsBank(r), Sound(r), NEW i \in Nat \ {0},
         \A a \in Addrs : b.index[a] = i <=> r.index[a] = i
  PROVE  LookUp(r, i) = LookUp(b, i)
BY LookUpFollowsIndex, LookUpRange, BankAssumption

Table(b) == [i \in AllIndices |-> LookUp(b, i)]
Used(h) == {g.index : g \in h}

(* An address that gets an index is registered under a number that nobody  *)
(* had.                                                                    *)
LEMMA AddRegisters ==
  ASSUME NEW a \in Addrs, Inv, Inv', ~moved, ~moved', Room(a), bank.index[a] = 0,
         bank'.index = AddTo(bank, a).index,
         issued' = issued \cup Current(bank')
  PROVE  Registry!Register(a)
<1> DEFINE x == bank.next
<1>1. /\ bank'.index = [bank.index EXCEPT ![a] = x] /\ bank.index \in [Addrs -> Nat]
      /\ x \in Nat \ {0} /\ x < MaxIndex
  <2>1. bank'.index = [bank.index EXCEPT ![a] = x]
    BY AddToEffect DEF Inv
  <2> QED BY <2>1 DEF Inv, IsBank, Room
<1>2. x \in AllIndices
  BY <1>1, BankAssumption DEF AllIndices
<1>3. \A i \in AllIndices : i \in Nat \ {0}
  BY BankAssumption DEF AllIndices
<1>4. x \notin Used(issued)
  BY <1>1 DEF Inv, GivenOnce, Used, Recorded
<1>5. \A j \in AllIndices : Table(bank)[j] # a
  BY <1>3, LookUpFollowsIndex DEF Inv, Table
<1>6. LookUp(bank', x) = a
  BY <1>1, LookUpFollowsIndex DEF Inv
<1>7. ASSUME NEW i \in AllIndices, i # x PROVE LookUp(bank', i) = LookUp(bank, i)
  <2>1. \A c \in Addrs : bank.index[c] = i <=> bank'.index[c] = i
    BY <1>1, <1>3, <1>7
  <2> QED BY <1>3, <2>1, SameAnswer DEF Inv
<1>8. Table(bank') = [Table(bank) EXCEPT ![x] = a]
  BY <1>2, <1>6, <1>7 DEF Table
<1>9. Used(issued') = Used(issued) \cup {x}
  <2>1. Current(bank') = Current(AddTo(bank, a))
    BY DEF Current
  <2>2. issued' = issued \cup {[index |-> x, addr |-> a]}
    BY <2>1, RecordOfAdded DEF Inv
  <2>3. [index |-> x, addr |-> a].index = x
    OBVIOUS
  <2> QED BY <2>2, <2>3, Zenon DEF Used
<1> QED
  BY <1>2, <1>4, <1>5, <1>8, <1>9 DEF Registry!Register, Table, Used, Inv

LEMMA RemovalUnregisters ==
  ASSUME NEW a \in Addrs, Inv, Inv', ~moved, ~moved', RemoveAddr(a)
  PROVE  Registry!Unregister(a)
<1> DEFINE x == bank.index[a]
<1>1. /\ x # 0 /\ bank' = RemoveFrom(bank, a) /\ issued' = issued \cup Current(bank')
  BY DEF RemoveAddr, BankStep
<1>2. /\ bank'.index = [bank.index EXCEPT ![a] = 0] /\ bank.index \in [Addrs -> Nat]
  <2>1. bank'.index = [bank.index EXCEPT ![a] = 0]
    BY <1>1, RemoveFromEffect DEF Inv
  <2> QED BY <2>1 DEF Inv, IsBank
<1>3. issued' = issued
  BY <1>1, <1>2, RecordStays DEF Inv
<1>4. x \in Nat \ {0} /\ x < MaxIndex
  BY <1>1, <1>2, BankAssumption DEF Inv, Sound, Owned, IsBank
<1>5. x \in AllIndices
  BY <1>4, BankAssumption DEF AllIndices
<1>6. \A i \in AllIndices : i \in Nat \ {0}
  BY BankAssumption DEF AllIndices
<1>7. x \in Used(issued)
  <2>1. [index |-> x, addr |-> a] \in issued
    BY <1>1 DEF Inv, Recorded
  <2> QED BY <2>1 DEF Used
<1>8. LookUp(bank, x) = a
  BY <1>4, LookUpFollowsIndex DEF Inv
<1>9. LookUp(bank', x) = None
  <2>1. \A c \in Addrs : bank'.index[c] # x
    BY <1>1, <1>2 DEF Inv, Sound, Owned
  <2>2. \A c \in Addrs : LookUp(bank', x) # c
    BY <1>4, <2>1, LookUpFollowsIndex DEF Inv
  <2> QED BY <1>4, <2>2, LookUpRange DEF Inv
<1>10. ASSUME NEW i \in AllIndices, i # x PROVE LookUp(bank', i) = LookUp(bank, i)
  <2>1. \A c \in Addrs : bank.index[c] = i <=> bank'.index[c] = i
    BY <1>2, <1>6, <1>10
  <2> QED BY <1>6, <2>1, SameAnswer DEF Inv
<1>11. Table(bank') = [Table(bank) EXCEPT ![x] = None]
  BY <1>5, <1>9, <1>10 DEF Table
<1> QED
  BY <1>3, <1>5, <1>7, <1>8, <1>11 DEF Registry!Unregister, Table, Used, Inv

(* What keeps the indices keeps the answers. *)
LEMMA SameRegistry ==
  ASSUME Inv, Inv', ~moved, ~moved', bank'.index = bank.index,
         issued' = issued \cup Current(bank')
  PROVE  UNCHANGED Registry!vars
<1>1. issued' = issued
  BY RecordStays DEF Inv
<1>2. ASSUME NEW i \in AllIndices PROVE LookUp(bank', i) = LookUp(bank, i)
  <2>1. i \in Nat \ {0}
    BY BankAssumption DEF AllIndices
  <2> QED BY <2>1, SameAnswer DEF Inv
<1>3. moved' = moved
  BY DEF Inv
<1> QED
  BY <1>1, <1>2, <1>3 DEF Registry!vars

LEMMA StepIsRegistered == Inv /\ Inv' /\ [Next]_vars => [Registry!Next]_(Registry!vars)
<1> SUFFICES ASSUME Inv, Inv', [Next]_vars PROVE [Registry!Next]_(Registry!vars)
  OBVIOUS
<1>1. CASE UNCHANGED bankVars
  BY <1>1 DEF bankVars, Registry!vars
<1>2. CASE moved'
  BY <1>2 DEF Inv, Registry!Next, Registry!Move
<1>3. CASE ~moved' /\ BankNext
  <2>1. moved' = moved
    BY <1>3 DEF BankNext, Add, RemoveAddr, PinInPlace, PinMoved, ResizeHash
  <2>2. ASSUME NEW a \in Addrs, Add(a) PROVE Registry!Register(a)
    <3>1. /\ Room(a) /\ bank.index[a] = 0 /\ bank' = AddTo(bank, a)
          /\ issued' = issued \cup Current(bank')
      BY <2>2 DEF Add, Room, BankStep
    <3> QED BY <1>3, <2>1, <3>1, AddRegisters
  <2>3. ASSUME NEW a \in Addrs, RemoveAddr(a) PROVE Registry!Unregister(a)
    BY <1>3, <2>1, <2>3, RemovalUnregisters
  <2>4. ASSUME NEW a \in Addrs, PinInPlace(a)
        PROVE  Registry!Register(a) \/ UNCHANGED Registry!vars
    <3>1. /\ Room(a) /\ IsFirst(AddTo(bank, a), a) /\ bank' = Permanent(AddTo(bank, a), a)
          /\ issued' = issued \cup Current(bank')
      BY <2>4 DEF PinInPlace, BankStep
    <3>2. bank'.index = AddTo(bank, a).index
      BY <3>1, AddToKeeps, MarkEffect
    <3>3. CASE bank.index[a] = 0
      BY <1>3, <2>1, <3>1, <3>2, <3>3, AddRegisters
    <3>4. CASE bank.index[a] # 0
      <4>1. bank'.index = bank.index
        BY <3>2, <3>4 DEF AddTo
      <4> QED BY <1>3, <2>1, <3>1, <4>1, SameRegistry
    <3> QED BY <3>3, <3>4
  <2>5. ASSUME NEW a \in Addrs, PinMoved(a) PROVE FALSE
    BY <1>3, <2>5 DEF PinMoved
  <2>6. ASSUME NEW size \in Sizes, ResizeHash(size) PROVE UNCHANGED Registry!vars
    <3>1. bank' = Rehash(bank, size) /\ issued' = issued \cup Current(bank') /\ size \in Nat \ {0}
      BY <2>6, BankAssumption DEF ResizeHash, BankStep
    <3>2. bank'.index = bank.index
      BY <3>1, RehashEffect DEF Inv
    <3> QED BY <1>3, <2>1, <3>1, <3>2, SameRegistry
  <2> QED BY <1>3, <2>2, <2>3, <2>4, <2>5, <2>6 DEF BankNext, Registry!Next
<1> QED
  BY <1>1, <1>2, <1>3 DEF Next, Push, Disconnect, PushData, vars

LEMMA InitIsRegistered == Init => Registry!Init
<1> SUFFICES ASSUME Init PROVE Registry!Init
  OBVIOUS
<1>1. Inv /\ issued = {} /\ moved = FALSE /\ bank = EmptyBank
  BY InitInv DEF Init, BankInit
<1>2. ASSUME NEW i \in AllIndices PROVE LookUp(bank, i) = None
  <2>1. i \in Nat \ {0}
    BY BankAssumption DEF AllIndices
  <2>2. \A c \in Addrs : bank.index[c] = 0
    BY <1>1 DEF EmptyBank
  <2> QED BY <1>1, <2>1, <2>2, LookUpFollowsIndex, LookUpRange DEF Inv
<1> QED
  BY <1>1, <1>2 DEF Registry!Init

(* The table of a thread space is a registry: an index leads to the one    *)
(* address that got it and after its removal to none, for any number of    *)
(* addresses and any sizes (AddressBank.hh, class comment).                *)
THEOREM BankIsRegistry == Spec => RegistrySpec
<1>1. Registry!Spec <=> Registry!Init /\ [][Registry!Next]_(Registry!vars)
  BY DEF Registry!Spec
<1> QED
  BY <1>1, InitIsRegistered, StepIsRegistered, InvHolds, PTL DEF Spec, RegistrySpec
-----------------------------------------------------------------------------
(***************************************************************************)
(* DataSlotAddress: the slot that pushes its data (SlotPusher).            *)
(*                                                                         *)
(* lastReadTime is the latest time of all data taken from the queue since  *)
(* the thread was started (LastIs), so that a datum passes the test when   *)
(* it is later than all before it.  And a datum is in one place: with the  *)
(* writer that wrote it, in the queue or with the pusher (OneHolder), and  *)
(* a client that is still to get it has not got it (Owed).                 *)
(***************************************************************************)

Elems(s) == {s[n] : n \in 1 .. Len(s)}

(* None but those in D. *)
NoneTwice(s, D) == \A m, n \in 1 .. Len(s) : s[m] = s[n] /\ s[m] \notin D => m = n

(* What appending and taking the head do to the members of a sequence that *)
(* has each once, but for those in D.                                      *)
LEMMA Appended ==
  ASSUME NEW S, NEW s \in Seq(S), NEW e \in S, NEW D
  PROVE  /\ Append(s, e) \in Seq(S) /\ Elems(Append(s, e)) = Elems(s) \cup {e}
         /\ Len(Append(s, e)) = Len(s) + 1 /\ Append(s, e)[Len(s) + 1] = e
         /\ \A n \in 1 .. Len(s) : Append(s, e)[n] = s[n]
         /\ NoneTwice(s, D) /\ (e \notin D => e \notin Elems(s)) => NoneTwice(Append(s, e), D)
<1> DEFINE r == Append(s, e)
<1>1. /\ r \in Seq(S) /\ Len(r) = Len(s) + 1 /\ r[Len(s) + 1] = e /\ Len(s) \in Nat
      /\ \A n \in 1 .. Len(s) : r[n] = s[n]
  BY AppendProperties
<1> HIDE DEF r
<1>2. \A n \in 1 .. Len(r) : n \in 1 .. Len(s) \/ n = Len(s) + 1
  BY <1>1
<1>3. Elems(r) = Elems(s) \cup {e}
  <2>1. Elems(r) \subseteq Elems(s) \cup {e}
    BY <1>1, <1>2 DEF Elems
  <2>2. Elems(s) \subseteq Elems(r)
    BY <1>1 DEF Elems
  <2>3. e \in Elems(r)
    BY <1>1 DEF Elems
  <2> QED BY <2>1, <2>2, <2>3
<1>4. ASSUME NoneTwice(s, D), e \notin D => e \notin Elems(s) PROVE NoneTwice(r, D)
  BY <1>1, <1>2, <1>4 DEF NoneTwice, Elems
<1> QED BY <1>1, <1>3, <1>4 DEF r

(* What remains when the head is taken. *)
LEMMA HeadTaken ==
  ASSUME NEW S, NEW s \in Seq(S), s # <<>>, NEW D
  PROVE  /\ Head(s) \in S /\ Tail(s) \in Seq(S) /\ Head(s) = s[1] /\ Len(s) \in Nat \ {0}
         /\ Len(Tail(s)) = Len(s) - 1
         /\ \A n \in 1 .. Len(s) - 1 : Tail(s)[n] = s[n + 1]
         /\ Elems(s) = Elems(Tail(s)) \cup {Head(s)}
         /\ NoneTwice(s, D) =>
              NoneTwice(Tail(s), D) /\ (Head(s) \notin D => Head(s) \notin Elems(Tail(s)))
<1> DEFINE r == Tail(s)
<1>1. /\ Head(s) \in S /\ r \in Seq(S) /\ Head(s) = s[1] /\ Len(s) \in Nat \ {0}
      /\ Len(r) = Len(s) - 1 /\ \A n \in 1 .. Len(s) - 1 : r[n] = s[n + 1]
  BY HeadTailProperties, LenProperties, EmptySeq
<1> HIDE DEF r
<1>2. \A n \in 1 .. Len(r) : n + 1 \in 1 .. Len(s) /\ r[n] = s[n + 1] /\ n + 1 # 1
  BY <1>1
<1>3. \A n \in 1 .. Len(s) : n = 1 \/ (n - 1 \in 1 .. Len(r) /\ r[n - 1] = s[n])
  <2> SUFFICES ASSUME NEW n \in 1 .. Len(s), n # 1 PROVE n - 1 \in 1 .. Len(r) /\ r[n - 1] = s[n]
    OBVIOUS
  <2>1. n - 1 \in 1 .. Len(s) - 1 /\ (n - 1) + 1 = n
    BY <1>1
  <2> QED BY <1>1, <2>1
<1>4. Elems(s) = Elems(r) \cup {Head(s)}
  <2>1. Elems(s) \subseteq Elems(r) \cup {Head(s)}
    BY <1>1, <1>3 DEF Elems
  <2>2. Elems(r) \subseteq Elems(s)
    BY <1>2 DEF Elems
  <2>3. Head(s) \in Elems(s)
    BY <1>1 DEF Elems
  <2> QED BY <2>1, <2>2, <2>3
<1>5. ASSUME NoneTwice(s, D)
      PROVE  NoneTwice(r, D) /\ (Head(s) \notin D => Head(s) \notin Elems(r))
  <2>1. Head(s) \notin D => Head(s) \notin Elems(r)
    BY <1>1, <1>2, <1>5 DEF NoneTwice, Elems
  <2>2. ASSUME NEW m \in 1 .. Len(r), NEW n \in 1 .. Len(r), r[m] = r[n], r[m] \notin D PROVE m = n
    <3>1. m + 1 = n + 1
      BY <1>2, <1>5, <2>2 DEF NoneTwice
    <3> QED BY <1>1, <3>1
  <2> QED BY <2>1, <2>2 DEF NoneTwice
<1> QED BY <1>1, <1>4, <1>5 DEF r
-----------------------------------------------------------------------------
Rec == [time : Nat \ {0}, id : Nat]

(* w has a datum that is not all given to somebody else. *)
Carries(w) == wpc[w] \in {"choose", "queue", "copy", "write"}

Types ==
  /\ written \in Nat /\ last \in Nat
  /\ queue \in Seq(Rec) /\ sd \in Seq(Rec) /\ taken \in Seq(Rec) /\ pushed \in Seq(Rec)
  /\ pushClients \in Seq(Clients) /\ todo \in Seq(Clients)
  /\ wpc \in [Writers -> {"idle", "choose", "queue", "signal", "copy", "write"}]
  /\ datum \in [Writers -> Rec \cup {NoDatum}]
  /\ \A w \in Writers : Carries(w) => datum[w] \in Rec
  /\ wtodo \in [Writers -> Seq(Clients)]
  /\ received \in [Clients -> Seq(Nat)]

(* The pusher has a datum while it pushes, and only when there is a thread *)
(* that setUseThread has not joined.                                       *)
Threads ==
  /\ pc \in {"copy", "write"} => Len(sd) = 1
  /\ pc \notin {"copy", "write"} => sd = <<>>
  /\ pc # "off" => useThread \/ upc = "starting"
  /\ upc = "stopped" => pc = "off"
  /\ upc = "shifting" => pos \in 1 .. Len(pushClients)

(* A slot begins with the types and the threads it should have. *)
LEMMA InitKeepsTypes == SlotInit => Types /\ Threads
<1> SUFFICES ASSUME SlotInit PROVE Types /\ Threads
  OBVIOUS
<1>1. Types
  BY EmptySeq DEF SlotInit, Types, Carries, NoDatum
<1>2. Threads
  BY DEF SlotInit, Threads
<1> QED BY <1>1, <1>2

(* No step of a writer disturbs them. *)
LEMMA WriterKeepsTypes ==
  ASSUME Types, Threads, NEW w \in Writers, Writer(w)
  PROVE  Types' /\ Threads'
<1> USE DEF Carries, givenVars
<1>1. ASSUME NEW time \in Times, NEW sameClass \in BOOLEAN, WriteSlot(w, time, sameClass)
      PROVE  Types' /\ Threads'
  <2>1. [time |-> time, id |-> written + 1] \in Rec
    BY PusherAssumption DEF Rec, Types
  <2> QED BY <1>1, <2>1 DEF WriteSlot, ToWriter, threadVars, appVars, pusherVars, Types, Threads
<1>2. CASE Choose(w)
  BY <1>2 DEF Choose, ToWriter, slotVars, threadVars, appVars, pusherVars, Types, Threads
<1>3. CASE Enqueue(w)
  <2>1. queue' \in Seq(Rec)
    BY <1>3, Appended DEF Enqueue, ToWriter, Types
  <2> QED BY <1>3, <2>1 DEF Enqueue, ToWriter, slotVars, threadVars, appVars, pusherVars, Types, Threads
<1>4. CASE Signal(w)
  BY <1>4 DEF Signal, ToWriter, Wake, AfterSignal, slotVars, threadVars, appVars, Types, Threads
<1>5. CASE CopyByWriter(w)
  BY <1>5 DEF CopyByWriter, ToWriter, slotVars, threadVars, appVars, pusherVars, Types, Threads
<1>6. CASE WriteByWriter(w)
  <2> DEFINE c == Head(wtodo[w])
  <2>1. c \in Clients /\ Tail(wtodo[w]) \in Seq(Clients)
    BY <1>6, HeadTaken DEF WriteByWriter, Types
  <2>2. datum[w].id \in Nat
    BY <1>6 DEF WriteByWriter, ToWriter, Types, Rec
  <2>3. Append(received[c], datum[w].id) \in Seq(Nat)
    BY <2>1, <2>2, Appended DEF Types
  <2>4. received' \in [Clients -> Seq(Nat)]
    BY <1>6, <2>1, <2>3 DEF WriteByWriter, Types
  <2> QED BY <1>6, <2>1, <2>4
          DEF WriteByWriter, ToWriter, slotVars, threadVars, appVars, pusherVars, Types, Threads
<1>7. CASE EndByWriter(w)
  BY <1>7 DEF EndByWriter, ToWriter, slotVars, threadVars, appVars, pusherVars, Types, Threads
<1> QED BY <1>1, <1>2, <1>3, <1>4, <1>5, <1>6, <1>7 DEF Writer

(* No step of the pusher does. *)
LEMMA PusherKeepsTypes ==
  ASSUME Types, Threads, Pusher
  PROVE  Types' /\ Threads'
<1> USE DEF ToPusher, slotVars, writerVars, threadVars, appVars, givenVars
<1>1. CASE Check \/ FindNothing \/ FallAsleep \/ Timeout
  BY <1>1 DEF Check, FindNothing, FallAsleep, Timeout, Types, Threads, Carries
<1>2. CASE TakeNext \/ SkipLate
  <2>1. Head(queue) \in Rec /\ Tail(queue) \in Seq(Rec)
    BY <1>2, HeadTaken DEF TakeNext, SkipLate, Types
  <2>4. Append(taken, Head(queue)) \in Seq(Rec)
    BY <2>1, Appended DEF Types
  <2>5. <<Head(queue)>> \in Seq(Rec)
    BY <2>1
  <2>6. Head(queue).time \in Nat
    BY <2>1 DEF Rec
  <2>2. Append(taken, Head(queue)) \in Seq(Rec) /\ <<Head(queue)>> \in Seq(Rec) /\ Head(queue).time \in Nat
    BY <2>4, <2>5, <2>6
  <2>3. Types'
    BY <1>2, <2>1, <2>2 DEF TakeNext, SkipLate, Types, Carries
  <2>7. Threads'
    BY <1>2 DEF TakeNext, SkipLate, Threads
  <2> QED BY <2>3, <2>7
<1>3. CASE Copy
  BY <1>3 DEF Copy, Types, Threads, Carries
<1>4. CASE Write
  <2> DEFINE c == Head(todo)
  <2>1. c \in Clients /\ Tail(todo) \in Seq(Clients)
    BY <1>4, HeadTaken DEF Write, Types
  <2>2. sd[1] \in Rec /\ sd[1].id \in Nat
    <3>1. Len(sd) = 1 /\ sd \in Seq(Rec)
      BY <1>4 DEF Write, Threads, Types
    <3>2. sd[1] \in Rec
      BY <3>1
    <3> QED BY <3>2 DEF Rec
  <2>3. Append(received[c], sd[1].id) \in Seq(Nat)
    BY <2>1, <2>2, Appended DEF Types
  <2>4. received' \in [Clients -> Seq(Nat)]
    BY <1>4, <2>1, <2>3 DEF Write, Types
  <2> QED BY <1>4, <2>1, <2>4 DEF Write, Types, Threads, Carries
<1>5. CASE EndPush
  <2>1. pushed \o sd \in Seq(Rec) /\ <<>> \in Seq(Rec)
    BY ConcatProperties, EmptySeq DEF Types
  <2> QED BY <1>5, <2>1 DEF EndPush, Types, Threads, Carries
<1> QED BY <1>1, <1>2, <1>3, <1>4, <1>5 DEF Pusher, Runs

(* Nor does a step of the application: it starts a thread only when none runs,*)
(* and joins it when it is done.                                           *)
LEMMA ApplicationKeepsTypes ==
  ASSUME Types, Threads, Application
  PROVE  Types' /\ Threads'
<1> USE DEF ToApp, Joined, slotVars, writerVars, pusherVars, threadVars, givenVars, Carries
<1>1. ASSUME NEW c \in Clients, ConnectClient(c) PROVE Types' /\ Threads'
  <2>1. Append(pushClients, c) \in Seq(Clients)
    BY Appended DEF Types
  <2> QED BY <1>1, <2>1 DEF ConnectClient, Types, Threads
<1>2. ASSUME NEW c \in Clients, DisconnectClient(c) PROVE Types' /\ Threads'
  BY <1>2 DEF DisconnectClient, Types, Threads
<1>3. CASE Start \/ Started \/ Stop \/ Stopped \/ Delete \/ Enter \/ Leave
  BY <1>3 DEF Start, Started, Stop, Stopped, Delete, Enter, Leave, Types, Threads
<1>4. CASE StopReturn \/ Deleted
  <2>1. <<>> \in Seq(Rec) /\ <<>> \in Seq(Clients) /\ 0 \in Nat
    BY EmptySeq
  <2>2. CASE StopReturn
    BY <2>1, <2>2 DEF StopReturn, Types, Threads
  <2>3. CASE Deleted
    BY <2>1, <2>3 DEF Deleted, Types, Threads
  <2> QED BY <1>4, <2>2, <2>3
<1>5. CASE Shift
  <2>1. pos \in 1 .. Len(pushClients) /\ pos + 1 \in 1 .. Len(pushClients) /\ Len(pushClients) \in Nat
    BY <1>5, LenProperties DEF Shift, Threads, Types
  <2>2. pushClients[pos + 1] \in Clients
    BY <2>1, ElementOfSeq DEF Types
  <2>3. pushClients' \in Seq(Clients) /\ Len(pushClients') = Len(pushClients)
    BY <1>5, <2>1, <2>2, ExceptSeq DEF Shift, Types
  <2> QED BY <1>5, <2>1, <2>3 DEF Shift, Types, Threads
<1>6. CASE EndShift
  <2>1. pushClients' \in Seq(Clients)
    BY <1>6, LenProperties, SubSeqProperties DEF EndShift, Threads, Types
  <2> QED BY <1>6, <2>1 DEF EndShift, Types, Threads
<1> QED BY <1>1, <1>2, <1>3, <1>4, <1>5, <1>6 DEF Application

(* What holds of 0 and of the number after each holds of every number. *)
LEMMA AllNumbers ==
  ASSUME NEW S, 0 \in S, \A n \in Nat : n \in S => n + 1 \in S
  PROVE  Nat \subseteq S
<1> SUFFICES ASSUME Nat \ S # {} PROVE FALSE
  OBVIOUS
<1>1. PICK i \in Nat \ S : \A j \in Nat \ S : ~(<<j, i>> \in OpToRel(<, Nat))
  BY WFMin, NatLessThanWellFounded
<1>2. \A j \in Nat \ S : ~(j < i)
  BY <1>1 DEF OpToRel
<1>3. i # 0 /\ i - 1 \in Nat /\ i - 1 < i
  OBVIOUS
<1>4. i - 1 \in S
  BY <1>2, <1>3
<1> QED BY <1>3, <1>4

(* The walk that collects the records of a sequence. *)
Collects(s, f, n) == f = [i \in 0 .. n |-> IF i = 0 THEN <<>> ELSE WithNth(s, i, f[i - 1])]

LEMMA Collected ==
  ASSUME NEW s, Len(s) \in Nat
  PROVE  \E f : /\ f[0] = <<>> /\ Records(s) = f[Len(s)]
                /\ \A i \in 1 .. Len(s) : f[i] = WithNth(s, i, f[i - 1])
<1> DEFINE S == {n \in Nat : \E f : Collects(s, f, n)}
<1>1. 0 \in S
  <2> DEFINE f == [i \in 0 .. 0 |-> <<>>]
  <2>1. Collects(s, f, 0)
    BY \A i \in 0 .. 0 : i = 0 DEF Collects
  <2> QED BY <2>1
<1>2. ASSUME NEW n \in Nat, n \in S PROVE n + 1 \in S
  <2>1. PICK g : Collects(s, g, n)
    BY <1>2
  <2> DEFINE f == [i \in 0 .. n + 1 |-> IF i = n + 1 THEN WithNth(s, i, g[n]) ELSE g[i]]
  <2>2. \A i \in 0 .. n : g[i] = IF i = 0 THEN <<>> ELSE WithNth(s, i, g[i - 1])
    BY <2>1 DEF Collects
  <2>3. ASSUME NEW i \in 0 .. n + 1
        PROVE  f[i] = IF i = 0 THEN <<>> ELSE WithNth(s, i, f[i - 1])
    <3>1. CASE i = n + 1
      <4>1. i # 0 /\ i - 1 = n /\ n \in 0 .. n + 1 /\ n # n + 1
        BY <3>1
      <4>2. f[i] = WithNth(s, i, g[n]) /\ f[i - 1] = g[n]
        BY <3>1, <4>1
      <4> QED BY <4>1, <4>2
    <3>2. CASE i # n + 1
      <4>1. i \in 0 .. n
        BY <3>2
      <4>2. i # 0 => i - 1 \in 0 .. n + 1 /\ i - 1 # n + 1
        BY <3>2
      <4>3. f[i] = g[i] /\ (i # 0 => f[i - 1] = g[i - 1])
        BY <3>2, <4>2
      <4> QED BY <2>2, <4>1, <4>3
    <3> QED BY <3>1, <3>2
  <2>4. Collects(s, f, n + 1)
    <3>1. f = [i \in 0 .. n + 1 |-> f[i]]
      OBVIOUS
    <3> HIDE DEF f
    <3> QED BY <2>3, <3>1 DEF Collects
  <2>5. n + 1 \in Nat
    OBVIOUS
  <2> QED BY <2>4, <2>5
<1>3. Len(s) \in S
  <2> HIDE DEF S
  <2> QED BY <1>1, <1>2, AllNumbers
<1> DEFINE g == CHOOSE f : Collects(s, f, Len(s))
<1>4. Collects(s, g, Len(s))
  BY <1>3
<1>5. Records(s) = g[Len(s)]
  BY DEF Records, Collects
<1> HIDE DEF g
<1>6. \A i \in 0 .. Len(s) : g[i] = IF i = 0 THEN <<>> ELSE WithNth(s, i, g[i - 1])
  BY <1>4 DEF Collects
<1> QED BY <1>5, <1>6

(* One more datum is a record, or it changes nothing. *)
LEMMA RecordsGrow ==
  ASSUME NEW s \in Seq(Rec), NEW d \in Rec
  PROVE  /\ Records(<<>>) = <<>>
         /\ Records(Append(s, d)) =
              IF \A m \in 1 .. Len(s) : s[m].time < d.time THEN Append(Records(s), d)
              ELSE Records(s)
<1> DEFINE r == Append(s, d)
<1>1. /\ Len(s) \in Nat /\ Len(r) = Len(s) + 1 /\ r[Len(s) + 1] = d
      /\ \A n \in 1 .. Len(s) : r[n] = s[n]
  BY Appended, LenProperties
<1>2. PICK f : /\ f[0] = <<>> /\ Records(s) = f[Len(s)]
               /\ \A i \in 1 .. Len(s) : f[i] = WithNth(s, i, f[i - 1])
  BY <1>1, Collected
<1>3. PICK g : /\ g[0] = <<>> /\ Records(r) = g[Len(r)]
               /\ \A i \in 1 .. Len(r) : g[i] = WithNth(r, i, g[i - 1])
  <2>1. Len(r) \in Nat
    BY <1>1
  <2> HIDE DEF r
  <2> QED BY <2>1, Collected
<1>4. Records(<<>>) = <<>>
  <2>1. Len(<<>>) = 0
    OBVIOUS
  <2>2. PICK h : h[0] = <<>> /\ Records(<<>>) = h[Len(<<>>)]
    BY <2>1, Collected
  <2> QED BY <2>1, <2>2
<1> HIDE DEF r
<1>5. ASSUME NEW i \in 1 .. Len(s), NEW x PROVE WithNth(r, i, x) = WithNth(s, i, x)
  <2>1. r[i] = s[i] /\ \A m \in 1 .. i - 1 : r[m] = s[m]
    BY <1>1
  <2>2. Later(r, i) <=> Later(s, i)
    BY <2>1 DEF Later
  <2> QED BY <2>1, <2>2 DEF WithNth
<1> DEFINE S == {n \in Nat : n <= Len(s) => g[n] = f[n]}
<1>6. 0 \in S
  BY <1>2, <1>3
<1>7. ASSUME NEW n \in Nat, n \in S PROVE n + 1 \in S
  <2> SUFFICES ASSUME n + 1 <= Len(s) PROVE g[n + 1] = f[n + 1]
    OBVIOUS
  <2>1. n + 1 \in 1 .. Len(s) /\ n + 1 \in 1 .. Len(r) /\ (n + 1) - 1 = n
    BY <1>1
  <2>2. g[n] = f[n]
    BY <1>1, <1>7
  <2> QED BY <1>2, <1>3, <1>5, <2>1, <2>2
<1>8. Len(s) \in S
  <2> HIDE DEF S
  <2> QED BY <1>1, <1>6, <1>7, AllNumbers
<1>9. g[Len(s)] = Records(s)
  BY <1>1, <1>2, <1>8
<1>10. Records(r) = WithNth(r, Len(s) + 1, Records(s))
  <2>1. Len(s) + 1 \in 1 .. Len(r) /\ (Len(s) + 1) - 1 = Len(s)
    BY <1>1
  <2> QED BY <1>1, <1>3, <1>9, <2>1
<1>11. Later(r, Len(s) + 1) <=> \A m \in 1 .. Len(s) : s[m].time < d.time
  <2>1. (Len(s) + 1) - 1 = Len(s)
    BY <1>1
  <2> QED BY <1>1, <2>1 DEF Later
<1> QED BY <1>1, <1>4, <1>10, <1>11 DEF WithNth, r

(* lastReadTime is the latest time of the data taken. *)
LastIs ==
  /\ \A n \in 1 .. Len(taken) : taken[n].time <= last
  /\ last = 0 \/ \E n \in 1 .. Len(taken) : taken[n].time = last

RecInv == Types /\ Threads /\ LastIs /\ PushesRecords

(* Nothing was taken and nothing pushed. *)
LEMMA InitRecords == SlotInit => RecInv
<1> SUFFICES ASSUME SlotInit PROVE RecInv
  OBVIOUS
<1>1. Types /\ Threads
  BY InitKeepsTypes
<1>2. taken = <<>> /\ pushed = <<>> /\ sd = <<>> /\ last = 0
  BY DEF SlotInit
<1>3. Len(taken) = 0
  BY <1>2
<1>4. LastIs
  BY <1>2, <1>3 DEF LastIs
<1>5. PushesRecords
  <2>1. [time |-> 1, id |-> 0] \in Rec /\ <<>> \in Seq(Rec)
    BY EmptySeq DEF Rec
  <2>2. Records(<<>>) = <<>>
    BY <2>1, RecordsGrow
  <2>3. <<>> \o <<>> = <<>>
    OBVIOUS
  <2> QED BY <1>2, <2>2, <2>3 DEF PushesRecords
<1> QED BY <1>1, <1>4, <1>5 DEF RecInv

(* A datum that is taken is pushed if it is later than all before it, and  *)
(* it is later than all before it if it is later than lastReadTime.        *)
LEMMA TakeRecords ==
  ASSUME RecInv, TakeNext \/ SkipLate
  PROVE  LastIs' /\ PushesRecords'
<1> DEFINE d == Head(queue)
<1>1. /\ d \in Rec /\ d.time \in Nat \ {0} /\ taken \in Seq(Rec) /\ pushed \in Seq(Rec)
      /\ last \in Nat /\ sd = <<>> /\ taken' = Append(taken, d) /\ pushed' = pushed
  <2>1. /\ taken \in Seq(Rec) /\ pushed \in Seq(Rec) /\ last \in Nat /\ queue \in Seq(Rec)
        /\ sd = <<>> /\ queue # <<>> /\ taken' = Append(taken, d) /\ pushed' = pushed
    BY DEF RecInv, Types, Threads, TakeNext, SkipLate, ToPusher
  <2>2. d \in Rec
    BY <2>1, HeadTaken
  <2> QED BY <2>1, <2>2 DEF Rec
<1>2. /\ Len(taken) \in Nat /\ Len(taken') = Len(taken) + 1 /\ taken'[Len(taken) + 1] = d
      /\ \A n \in 1 .. Len(taken) : taken'[n] = taken[n] /\ taken[n].time \in Nat
  <2>1. \A n \in 1 .. Len(taken) : taken[n] \in Rec
    BY <1>1, ElementOfSeq
  <2> QED BY <1>1, <2>1, Appended, LenProperties DEF Rec
<1>3. /\ \A n \in 1 .. Len(taken) : taken[n].time <= last
      /\ last = 0 \/ \E n \in 1 .. Len(taken) : taken[n].time = last
      /\ pushed = Records(taken)
  <2>1. pushed \o <<>> = pushed
    BY <1>1
  <2> QED BY <1>1, <2>1 DEF RecInv, LastIs, PushesRecords
<1>4. last < d.time <=> \A m \in 1 .. Len(taken) : taken[m].time < d.time
  <2>1. ASSUME last < d.time, NEW m \in 1 .. Len(taken) PROVE taken[m].time < d.time
    BY <1>1, <1>2, <1>3, <2>1
  <2>2. ASSUME \A m \in 1 .. Len(taken) : taken[m].time < d.time PROVE last < d.time
    BY <1>1, <1>2, <1>3, <2>2
  <2> QED BY <2>1, <2>2
<1>5. Records(taken') = IF last < d.time THEN Append(pushed, d) ELSE pushed
  BY <1>1, <1>3, <1>4, RecordsGrow
<1>6. \A n \in 1 .. Len(taken') : n \in 1 .. Len(taken) \/ n = Len(taken) + 1
  BY <1>2
<1> HIDE DEF d
<1>7. CASE TakeNext
  <2>1. last < d.time /\ last' = d.time /\ sd' = <<d>>
    BY <1>7 DEF TakeNext, InTurn, d
  <2>2. LastIs'
    <3>1. ASSUME NEW n \in 1 .. Len(taken') PROVE taken'[n].time <= last'
      BY <1>1, <1>2, <1>3, <1>6, <2>1
    <3>2. Len(taken) + 1 \in 1 .. Len(taken')
      BY <1>2
    <3> QED BY <1>2, <2>1, <3>1, <3>2 DEF LastIs
  <2>3. pushed \o <<d>> = Append(pushed, d)
    BY <1>1
  <2> QED BY <1>1, <1>5, <2>1, <2>2, <2>3 DEF PushesRecords
<1>8. CASE SkipLate
  <2>1. ~(last < d.time) /\ last' = last /\ sd' = sd
    BY <1>8 DEF SkipLate, InTurn, d
  <2>2. LastIs'
    <3>1. ASSUME NEW n \in 1 .. Len(taken') PROVE taken'[n].time <= last'
      BY <1>1, <1>2, <1>3, <1>6, <2>1
    <3>2. \A n \in 1 .. Len(taken) : n \in 1 .. Len(taken')
      BY <1>2
    <3>3. last' = 0 \/ \E n \in 1 .. Len(taken') : taken'[n].time = last'
      BY <1>2, <1>3, <2>1, <3>2
    <3> QED BY <3>1, <3>3 DEF LastIs
  <2>3. pushed \o <<>> = pushed
    BY <1>1
  <2> QED BY <1>1, <1>5, <2>1, <2>2, <2>3 DEF PushesRecords
<1> QED BY <1>7, <1>8

(* So no step disturbs the types and the threads. *)
LEMMA KeepsTypes ==
  ASSUME Types, Threads, [SlotNext]_addressVars
  PROVE  Types' /\ Threads'
<1>1. CASE UNCHANGED addressVars
  BY <1>1 DEF addressVars, slotVars, writerVars, pusherVars, threadVars, appVars, givenVars, Types, Threads, Carries
<1> QED BY <1>1, WriterKeepsTypes, PusherKeepsTypes, ApplicationKeepsTypes DEF SlotNext

(* Only taking a datum and joining the thread change what was taken. *)
LEMMA NextRecords ==
  ASSUME RecInv, [SlotNext]_addressVars
  PROVE  RecInv'
<1>1. Types' /\ Threads'
  BY KeepsTypes DEF RecInv
<1> SUFFICES LastIs' /\ PushesRecords'
  BY <1>1 DEF RecInv
<1>2. ASSUME UNCHANGED <<taken, pushed, sd, last>> PROVE LastIs' /\ PushesRecords'
  BY <1>2 DEF RecInv, LastIs, PushesRecords
<1>3. ASSUME NEW w \in Writers, Writer(w) PROVE LastIs' /\ PushesRecords'
  BY <1>2, <1>3 DEF Writer, WriteSlot, Choose, Enqueue, Signal, CopyByWriter, WriteByWriter,
                    EndByWriter, pusherVars
<1>4. CASE TakeNext \/ SkipLate
  BY <1>4, TakeRecords
<1>5. CASE Check \/ FindNothing \/ FallAsleep \/ Copy \/ Write \/ Timeout
  BY <1>2, <1>5 DEF Check, FindNothing, FallAsleep, Copy, Write, Timeout
<1>6. CASE EndPush
  <2>1. pushed' = pushed \o sd /\ sd' = <<>> /\ taken' = taken /\ last' = last
    BY <1>6 DEF EndPush
  <2>2. (pushed \o sd) \o <<>> = pushed \o sd
    <3>1. pushed \o sd \in Seq(Rec)
      BY ConcatProperties DEF RecInv, Types
    <3> QED BY <3>1
  <2> QED BY <2>1, <2>2 DEF RecInv, LastIs, PushesRecords
<1>7. ASSUME taken' = <<>>, pushed' = <<>>, last' = 0, sd' = sd, pc = "done"
      PROVE  LastIs' /\ PushesRecords'
  <2>1. sd = <<>>
    BY <1>7 DEF RecInv, Threads
  <2>2. Records(<<>>) = <<>>
    <3>1. [time |-> 1, id |-> 0] \in Rec /\ <<>> \in Seq(Rec)
      BY EmptySeq DEF Rec
    <3> QED BY <3>1, RecordsGrow
  <2>3. <<>> \o <<>> = <<>> /\ Len(<<>>) = 0
    OBVIOUS
  <2> QED BY <1>7, <2>1, <2>2, <2>3 DEF LastIs, PushesRecords
<1>8. ASSUME NEW a, NEW b, Joined(a, b) PROVE LastIs' /\ PushesRecords'
  BY <1>7, <1>8 DEF Joined
<1>9. CASE StopReturn \/ Deleted
  <2>1. CASE StopReturn
    BY <1>8, <2>1 DEF StopReturn
  <2>2. CASE Deleted
    BY <1>2, <1>8, <2>2 DEF Deleted, pusherVars
  <2> QED BY <1>9, <2>1, <2>2
<1>10. CASE Shift \/ EndShift \/ Start \/ Started \/ Stop \/ Stopped \/ Delete \/ Enter \/ Leave
  BY <1>2, <1>10 DEF Shift, EndShift, Start, Started, Stop, Stopped, Delete, Enter, Leave, pusherVars
<1>11. ASSUME NEW c \in Clients, ConnectClient(c) PROVE LastIs' /\ PushesRecords'
  BY <1>2, <1>11 DEF ConnectClient, pusherVars
<1>12. ASSUME NEW c \in Clients, DisconnectClient(c) PROVE LastIs' /\ PushesRecords'
  BY <1>2, <1>12 DEF DisconnectClient, pusherVars
<1>13. CASE UNCHANGED addressVars
  BY <1>2, <1>13 DEF addressVars, pusherVars
<1> QED BY <1>3, <1>4, <1>5, <1>6, <1>9, <1>10, <1>11, <1>12, <1>13
        DEF SlotNext, Application, Pusher, Runs

(* The pusher thread pushes exactly the data that are later than all it    *)
(* took from the queue before, however often it was stopped and started    *)
(* and whatever was in the queue when it was.                              *)
THEOREM RecordsArePushed == SlotSpec => []PushesRecords
<1>1. RecInv /\ [SlotNext]_addressVars => RecInv'
  BY NextRecords
<1>2. RecInv => PushesRecords
  BY DEF RecInv
<1> QED BY <1>1, <1>2, InitRecords, PTL DEF SlotSpec

(* The one member of a sequence of one.                                    *)
LEMMA Single ==
  ASSUME NEW S, NEW s \in Seq(S), Len(s) = 1
  PROVE  s # <<>> /\ s[1] \in S
<1>1. 1 \in 1 .. Len(s)
  OBVIOUS
<1>2. s[1] \in S
  BY <1>1, ElementOfSeq
<1>3. Len(<<>>) = 0
  OBVIOUS
<1>4. s # <<>>
  BY <1>3
<1> QED BY <1>2, <1>4

(* A client that was never in the list twice, and a datum for which the    *)
(* list was not copied while it was shifted                                *)
Clean(c, i) == c \notin doubled /\ i \notin torn

(* The list has a client twice only if it has been connected twice, or at  *)
(* the place disconnect is at; a copy of it only if it has been connected  *)
(* twice or the copy was made meanwhile.                                   *)
Listed ==
  /\ upc # "shifting" => NoneTwice(pushClients, doubled)
  /\ upc = "shifting" =>
       \A m, n \in 1 .. Len(pushClients) \ {pos} :
         pushClients[m] = pushClients[n] /\ pushClients[m] \notin doubled => m = n
  /\ \A w \in Writers :
       wpc[w] = "write" /\ datum[w].id \notin torn => NoneTwice(wtodo[w], doubled)
  /\ pc = "write" /\ sd[1].id \notin torn => NoneTwice(todo, doubled)

(* A datum has the number of its writing. *)
Numbered ==
  /\ \A w \in Writers : Carries(w) => datum[w].id <= written
  /\ \A n \in 1 .. Len(queue) : queue[n].id <= written
  /\ sd # <<>> => sd[1].id <= written
  /\ \A c \in Clients : \A i \in Elems(received[c]) : i <= written

(* One writer, one place in the queue or the pusher has it: whoever gives  *)
(* it on keeps nothing.                                                    *)
OneHolder ==
  /\ \A v, w \in Writers :
       Carries(v) /\ Carries(w) /\ datum[v].id = datum[w].id => v = w
  /\ \A w \in Writers, n \in 1 .. Len(queue) : Carries(w) => datum[w].id # queue[n].id
  /\ \A m, n \in 1 .. Len(queue) : queue[m].id = queue[n].id => m = n
  /\ sd # <<>> =>
       /\ \A w \in Writers : Carries(w) => datum[w].id # sd[1].id
       /\ \A n \in 1 .. Len(queue) : queue[n].id # sd[1].id

(* A client that is still to get a datum has not got it. *)
Owed ==
  /\ \A c \in Clients \ doubled : NoneTwice(received[c], torn)
  /\ \A w \in Writers, c \in Clients :
       Carries(w) /\ Clean(c, datum[w].id) /\ (wpc[w] = "write" => c \in Elems(wtodo[w]))
         => datum[w].id \notin Elems(received[c])
  /\ \A n \in 1 .. Len(queue), c \in Clients :
       Clean(c, queue[n].id) => queue[n].id \notin Elems(received[c])
  /\ \A c \in Clients :
       sd # <<>> /\ Clean(c, sd[1].id) /\ (pc = "write" => c \in Elems(todo))
         => sd[1].id \notin Elems(received[c])

OnceInv == Types /\ Threads /\ Listed /\ Numbered /\ OneHolder /\ Owed

(* Nobody has a datum. *)
LEMMA InitOnce == SlotInit => OnceInv
<1> SUFFICES ASSUME SlotInit PROVE OnceInv
  OBVIOUS
<1>1. Types /\ Threads
  BY InitKeepsTypes
<1>2. /\ wpc = [w \in Writers |-> "idle"] /\ queue = <<>> /\ sd = <<>>
      /\ pc = "off" /\ upc = "idle" /\ pushClients = <<>>
      /\ received = [c \in Clients |-> <<>>] /\ Len(<<>>) = 0
  BY DEF SlotInit
<1>3. (\A D : NoneTwice(<<>>, D)) /\ Elems(<<>>) = {}
  BY <1>2 DEF NoneTwice, Elems
<1>4. \A w \in Writers : ~Carries(w) /\ wpc[w] = "idle"
  BY <1>2 DEF Carries
<1>5. Listed
  BY <1>2, <1>3, <1>4 DEF Listed
<1>6. Numbered
  BY <1>2, <1>3, <1>4 DEF Numbered
<1>7. OneHolder
  BY <1>2, <1>4 DEF OneHolder
<1>8. Owed
  BY <1>2, <1>3, <1>4 DEF Owed
<1> QED BY <1>1, <1>5, <1>6, <1>7, <1>8 DEF OnceInv

(* No client and no datum becomes clean again. *)
LEMMA NeverCleaned ==
  ASSUME [SlotNext]_addressVars
  PROVE  doubled \subseteq doubled' /\ torn \subseteq torn'
<1>1. ASSUME NEW w \in Writers, Writer(w) PROVE doubled' = doubled /\ torn \subseteq torn'
  BY <1>1 DEF Writer, WriteSlot, Choose, Enqueue, Signal, CopyByWriter, Tears, WriteByWriter,
              EndByWriter, ToWriter, appVars, givenVars
<1>2. CASE Pusher
  BY <1>2 DEF Pusher, Runs, Check, FindNothing, TakeNext, SkipLate, FallAsleep, Copy, Tears, Write,
              EndPush, Timeout, ToPusher, appVars, givenVars
<1>3. CASE Application
  <2>1. torn' = torn
    BY <1>3 DEF Application, ConnectClient, DisconnectClient, Shift, EndShift, Start, Started, Stop,
                StopReturn, Stopped, Delete, Deleted, Enter, Leave, Joined, ToApp, givenVars
  <2>2. doubled \subseteq doubled'
    BY <1>3 DEF Application, ConnectClient, DisconnectClient, Shift, EndShift, Start, Started, Stop,
                StopReturn, Stopped, Delete, Deleted, Enter, Leave
  <2> QED BY <2>1, <2>2
<1>4. CASE UNCHANGED addressVars
  BY <1>4 DEF addressVars, appVars, givenVars
<1> QED BY <1>1, <1>2, <1>3, <1>4 DEF SlotNext

(* What nobody's datum depends on. *)
LEMMA NobodysDatum ==
  ASSUME OnceInv,
         UNCHANGED <<written, queue, wpc, datum, wtodo, sd, todo, received>>,
         doubled \subseteq doubled', torn \subseteq torn',
         (pc' = "write") <=> (pc = "write")
  PROVE  Numbered' /\ OneHolder' /\ Owed'
<1>1. Numbered'
  BY DEF OnceInv, Numbered, Carries
<1>2. OneHolder'
  BY DEF OnceInv, OneHolder, Carries
<1>3. Owed'
  BY DEF OnceInv, Owed, Carries, Clean, NoneTwice
<1> QED BY <1>1, <1>2, <1>3

(* The datum of a write is new. *)
LEMMA WriteSlotOnce ==
  ASSUME OnceInv, NEW w \in Writers, NEW time \in Times, NEW sameClass \in BOOLEAN,
         WriteSlot(w, time, sameClass)
  PROVE  Numbered' /\ OneHolder' /\ Owed'
<1> DEFINE d == [time |-> time, id |-> written + 1]
<1>1. /\ wpc' = [wpc EXCEPT ![w] = "choose"] /\ datum' = [datum EXCEPT ![w] = d]
      /\ UNCHANGED <<queue, wtodo, pc, sd, todo, received, doubled, torn>> /\ written' = written + 1
      /\ d.id = written + 1
  BY DEF WriteSlot, ToWriter, pusherVars, appVars, givenVars
<1>2. /\ written \in Nat /\ queue \in Seq(Rec) /\ sd \in Seq(Rec)
      /\ wpc \in [Writers -> {"idle", "choose", "queue", "signal", "copy", "write"}]
      /\ datum \in [Writers -> Rec \cup {NoDatum}]
      /\ \A v \in Writers : Carries(v) => datum[v] \in Rec
      /\ received \in [Clients -> Seq(Nat)]
  BY DEF OnceInv, Types
<1> HIDE DEF d
<1>3. /\ datum'[w] = d /\ wpc'[w] = "choose" /\ Carries(w)'
      /\ \A v \in Writers : v # w => datum'[v] = datum[v] /\ wpc'[v] = wpc[v] /\ (Carries(v)' <=> Carries(v))
  BY <1>1, <1>2 DEF Carries
<1>4. /\ \A v \in Writers : Carries(v) => datum[v].id \in Nat
      /\ \A n \in 1 .. Len(queue) : queue[n].id \in Nat
      /\ sd # <<>> => sd[1].id \in Nat
  <2>1. \A n \in 1 .. Len(queue) : queue[n] \in Rec
    BY <1>2, ElementOfSeq
  <2>2. sd # <<>> => sd[1] \in Rec
    BY <1>2
  <2> QED BY <1>2, <2>1, <2>2 DEF Rec
<1>5. \A c \in Clients : \A i \in Elems(received[c]) : i \in Nat
  <2> SUFFICES ASSUME NEW c \in Clients, NEW n \in 1 .. Len(received[c]) PROVE received[c][n] \in Nat
    BY DEF Elems
  <2>1. received[c] \in Seq(Nat)
    BY <1>2
  <2> QED BY <2>1, ElementOfSeq
<1>6. Numbered'
  BY <1>1, <1>2, <1>3, <1>4, <1>5 DEF OnceInv, Numbered
<1>7. /\ \A v \in Writers : Carries(v) => datum[v].id # d.id
      /\ \A n \in 1 .. Len(queue) : queue[n].id # d.id
      /\ sd # <<>> => sd[1].id # d.id
      /\ \A c \in Clients : d.id \notin Elems(received[c])
  BY <1>1, <1>2, <1>4, <1>5 DEF OnceInv, Numbered
<1>8. OneHolder'
  BY <1>1, <1>3, <1>7 DEF OnceInv, OneHolder
<1>9. Owed'
  BY <1>1, <1>3, <1>7 DEF OnceInv, Owed, Clean
<1> QED BY <1>6, <1>8, <1>9

(* The datum of a writer goes to the end of the queue. *)
LEMMA EnqueueOnce ==
  ASSUME OnceInv, NEW w \in Writers, Enqueue(w)
  PROVE  Numbered' /\ OneHolder' /\ Owed'
<1>1. /\ wpc[w] = "queue" /\ wpc' = [wpc EXCEPT ![w] = "signal"]
      /\ UNCHANGED <<written, datum, wtodo, pc, sd, todo, received, doubled, torn>>
      /\ queue' = Append(queue, datum[w])
  BY DEF Enqueue, ToWriter, pusherVars, slotVars, appVars, givenVars
<1>2. /\ queue \in Seq(Rec) /\ datum[w] \in Rec
      /\ wpc \in [Writers -> {"idle", "choose", "queue", "signal", "copy", "write"}]
  BY <1>1 DEF OnceInv, Types, Carries
<1>3. /\ Carries(w) /\ ~Carries(w)'
      /\ \A v \in Writers : v # w => wpc'[v] = wpc[v] /\ (Carries(v)' <=> Carries(v))
  BY <1>1, <1>2 DEF Carries
<1>4. /\ Len(queue') = Len(queue) + 1 /\ queue'[Len(queue) + 1] = datum[w]
      /\ \A n \in 1 .. Len(queue) : queue'[n] = queue[n]
      /\ Len(queue) \in Nat
  BY <1>1, <1>2, Appended, LenProperties
<1>5. \A n \in 1 .. Len(queue') : n \in 1 .. Len(queue) \/ n = Len(queue) + 1
  BY <1>4
<1>6. Numbered'
  BY <1>1, <1>3, <1>4, <1>5 DEF OnceInv, Numbered
<1>7. OneHolder'
  BY <1>1, <1>3, <1>4, <1>5 DEF OnceInv, OneHolder
<1>8. Owed'
  BY <1>1, <1>3, <1>4, <1>5 DEF OnceInv, Owed, Clean
<1> QED BY <1>6, <1>7, <1>8

(* A writer that pushes owes its datum to fewer and fewer clients. *)
LEMMA PushByWriterOnce ==
  ASSUME OnceInv, NEW w \in Writers, CopyByWriter(w) \/ WriteByWriter(w) \/ EndByWriter(w)
  PROVE  Numbered' /\ OneHolder' /\ Owed'
<1>1. UNCHANGED <<written, queue, datum, pc, sd, todo, doubled>> /\ torn \subseteq torn'
  BY DEF CopyByWriter, Tears, WriteByWriter, EndByWriter, ToWriter, pusherVars, slotVars, appVars, givenVars
<1>2. /\ received \in [Clients -> Seq(Nat)] /\ wtodo \in [Writers -> Seq(Clients)]
      /\ wpc \in [Writers -> {"idle", "choose", "queue", "signal", "copy", "write"}]
  BY DEF OnceInv, Types
<1>3. ASSUME UNCHANGED received,
             \A v \in Writers : Carries(v)' => Carries(v),
             \A v \in Writers, c \in Clients :
               Carries(v)' /\ (wpc'[v] = "write" => c \in Elems(wtodo'[v]))
                 => (wpc[v] = "write" => c \in Elems(wtodo[v]))
      PROVE  Numbered' /\ OneHolder' /\ Owed'
  <2>1. Numbered'
    BY <1>1, <1>3 DEF OnceInv, Numbered
  <2>2. OneHolder'
    BY <1>1, <1>3 DEF OnceInv, OneHolder
  <2>3. Owed'
    BY <1>1, <1>3 DEF OnceInv, Owed, Clean, NoneTwice
  <2> QED BY <2>1, <2>2, <2>3
<1>4. CASE CopyByWriter(w)
  <2>1. /\ wpc[w] = "copy" /\ wpc' = [wpc EXCEPT ![w] = "write"]
        /\ wtodo' = [wtodo EXCEPT ![w] = pushClients] /\ UNCHANGED received
    BY <1>4 DEF CopyByWriter, ToWriter
  <2> QED BY <1>2, <1>3, <2>1 DEF Carries
<1>5. CASE EndByWriter(w)
  <2>1. wpc[w] = "write" /\ wpc' = [wpc EXCEPT ![w] = "idle"] /\ UNCHANGED <<wtodo, received>>
    BY <1>5 DEF EndByWriter, ToWriter, givenVars
  <2> QED BY <1>2, <1>3, <2>1 DEF Carries
<1>6. CASE WriteByWriter(w)
  <2> DEFINE c == Head(wtodo[w])
             i == datum[w].id
  <2>1. /\ wpc[w] = "write" /\ wtodo[w] # <<>> /\ wpc' = [wpc EXCEPT ![w] = "write"]
        /\ received' = [received EXCEPT ![c] = Append(@, i)]
        /\ wtodo' = [wtodo EXCEPT ![w] = Tail(@)] /\ torn' = torn
    BY <1>6 DEF WriteByWriter, ToWriter
  <2>2. /\ wpc' = wpc /\ wtodo[w] \in Seq(Clients) /\ Carries(w)
        /\ i \notin torn => NoneTwice(wtodo[w], doubled)
    BY <1>2, <2>1 DEF OnceInv, Listed, Carries
  <2>3. /\ c \in Clients
        /\ Clean(c, i) => c \notin Elems(Tail(wtodo[w]))
        /\ Elems(wtodo[w]) = Elems(Tail(wtodo[w])) \cup {c}
    BY <2>1, <2>2, HeadTaken DEF Clean
  <2>4. i \in Nat /\ i <= written
    BY <2>2 DEF OnceInv, Types, Rec, Numbered
  <2>5. Clean(c, i) => i \notin Elems(received[c])
    BY <2>2, <2>3 DEF OnceInv, Owed
  <2>6. received[c] \in Seq(Nat)
    BY <1>2, <2>3
  <2> HIDE DEF c, i
  <2>7. /\ Elems(received'[c]) = Elems(received[c]) \cup {i}
        /\ c \notin doubled => NoneTwice(received'[c], torn)
        /\ \A x \in Clients : x # c => received'[x] = received[x]
    <3>1. received'[c] = Append(received[c], i) /\ \A x \in Clients : x # c => received'[x] = received[x]
      BY <1>2, <2>1, <2>3
    <3>2. c \notin doubled => NoneTwice(received[c], torn)
      BY <2>3 DEF OnceInv, Owed
    <3>3. /\ Elems(Append(received[c], i)) = Elems(received[c]) \cup {i}
          /\ c \notin doubled => NoneTwice(Append(received[c], i), torn)
      BY <2>4, <2>5, <2>6, <3>2, Appended DEF Clean
    <3> QED BY <3>1, <3>3
  <2>8. /\ wtodo'[w] = Tail(wtodo[w]) /\ \A v \in Writers : v # w => wtodo'[v] = wtodo[v]
        /\ \A v \in Writers : Carries(v)' <=> Carries(v)
    BY <1>2, <2>1, <2>2 DEF Carries
  <2>9. Numbered'
    <3>1. \A x \in Clients : \A j \in Elems(received'[x]) : j <= written
      BY <2>4, <2>7 DEF OnceInv, Numbered
    <3> QED BY <1>1, <2>8, <3>1 DEF OnceInv, Numbered
  <2>10. OneHolder'
    BY <1>1, <2>8 DEF OnceInv, OneHolder
  <2>11. /\ \A v \in Writers : Carries(v) /\ v # w => datum[v].id # i
         /\ \A n \in 1 .. Len(queue) : queue[n].id # i
         /\ sd # <<>> => sd[1].id # i
    BY <2>2 DEF OnceInv, OneHolder, i
  <2>12. Owed'
    <3>1. \A x \in Clients \ doubled : NoneTwice(received'[x], torn)
      BY <2>7 DEF OnceInv, Owed
    <3>2. ASSUME NEW v \in Writers, NEW x \in Clients, Carries(v), Clean(x, datum[v].id),
                 wpc[v] = "write" => x \in Elems(wtodo'[v])
          PROVE  datum[v].id \notin Elems(received'[x])
      <4>1. CASE v = w
        <5>2. Clean(x, i) /\ x \in Elems(Tail(wtodo[w]))
          BY <2>1, <2>8, <3>2, <4>1 DEF i
        <5>1. x # c /\ x \in Elems(wtodo[w])
          BY <2>3, <5>2
        <5> QED BY <2>1, <2>2, <2>7, <3>2, <4>1, <5>1 DEF OnceInv, Owed
      <4>2. CASE v # w
        <5>1. datum[v].id \notin Elems(received[x])
          BY <2>8, <3>2, <4>2 DEF OnceInv, Owed
        <5> QED BY <2>7, <2>11, <3>2, <4>2, <5>1
      <4> QED BY <4>1, <4>2
    <3>3. ASSUME NEW n \in 1 .. Len(queue), NEW x \in Clients, Clean(x, queue[n].id)
          PROVE  queue[n].id \notin Elems(received'[x])
      BY <2>7, <2>11, <3>3 DEF OnceInv, Owed
    <3>4. ASSUME NEW x \in Clients, sd # <<>>, Clean(x, sd[1].id), pc = "write" => x \in Elems(todo)
          PROVE  sd[1].id \notin Elems(received'[x])
      BY <2>7, <2>11, <3>4 DEF OnceInv, Owed
    <3> QED BY <1>1, <2>1, <2>2, <2>8, <3>1, <3>2, <3>3, <3>4 DEF Owed, Clean
  <2> QED BY <2>9, <2>10, <2>12
<1> QED BY <1>4, <1>5, <1>6

(* The datum the pusher takes from the queue is no longer in it. *)
LEMMA TakeOnce ==
  ASSUME OnceInv, TakeNext \/ SkipLate
  PROVE  Numbered' /\ OneHolder' /\ Owed'
<1> DEFINE d == Head(queue)
<1>1. /\ UNCHANGED <<written, wpc, datum, wtodo, todo, received, doubled, torn>>
      /\ pc = "take" /\ pc' # "write" /\ queue # <<>> /\ queue' = Tail(queue)
      /\ sd' = <<d>> \/ sd' = sd
  BY DEF TakeNext, SkipLate, ToPusher, slotVars, writerVars, appVars, givenVars
<1>2. queue \in Seq(Rec) /\ sd = <<>>
  BY <1>1 DEF OnceInv, Types, Threads
<1>3. /\ d \in Rec /\ d = queue[1] /\ Len(queue) \in Nat \ {0} /\ Len(queue') = Len(queue) - 1
      /\ \A n \in 1 .. Len(queue) - 1 : queue'[n] = queue[n + 1]
  BY <1>1, <1>2, HeadTaken
<1>4. \A n \in 1 .. Len(queue') : n + 1 \in 1 .. Len(queue) /\ n + 1 # 1 /\ queue'[n] = queue[n + 1]
  BY <1>3
<1>5. 1 \in 1 .. Len(queue)
  BY <1>3
<1> HIDE DEF d
<1>6. sd' # <<>> => sd'[1] = d
  BY <1>1, <1>2
<1>7. Numbered'
  BY <1>1, <1>3, <1>4, <1>5, <1>6 DEF OnceInv, Numbered, Carries
<1>8. OneHolder'
  <2>1. \A m, n \in 1 .. Len(queue') : queue'[m].id = queue'[n].id => m = n
    <3> SUFFICES ASSUME NEW m \in 1 .. Len(queue'), NEW n \in 1 .. Len(queue'),
                        queue'[m].id = queue'[n].id
                 PROVE  m = n
      OBVIOUS
    <3>1. m + 1 = n + 1
      BY <1>4 DEF OnceInv, OneHolder
    <3> QED BY <1>3, <3>1
  <2>2. \A n \in 1 .. Len(queue') : queue'[n].id # d.id
    BY <1>3, <1>4, <1>5 DEF OnceInv, OneHolder
  <2>3. \A w \in Writers : Carries(w) => datum[w].id # d.id
    BY <1>3, <1>5 DEF OnceInv, OneHolder
  <2> QED BY <1>1, <1>4, <1>6, <2>1, <2>2, <2>3 DEF OnceInv, OneHolder, Carries
<1>9. Owed'
  <2>1. \A c \in Clients : Clean(c, d.id) => d.id \notin Elems(received[c])
    BY <1>3, <1>5 DEF OnceInv, Owed
  <2> QED BY <1>1, <1>4, <1>6, <2>1 DEF OnceInv, Owed, Carries, Clean
<1> QED BY <1>7, <1>8, <1>9

(* The pusher owes its datum to fewer and fewer clients. *)
LEMMA PushOnce ==
  ASSUME OnceInv, Copy \/ Write \/ EndPush
  PROVE  Numbered' /\ OneHolder' /\ Owed'
<1>1. UNCHANGED <<written, queue, wpc, datum, wtodo, doubled>> /\ torn \subseteq torn'
  BY DEF Copy, Tears, Write, EndPush, ToPusher, slotVars, writerVars, appVars, givenVars
<1>2. CASE Copy
  <2>1. UNCHANGED <<sd, received>> /\ pc = "copy"
    BY <1>2 DEF Copy, ToPusher
  <2>2. Numbered'
    BY <1>1, <2>1 DEF OnceInv, Numbered, Carries
  <2>3. OneHolder'
    BY <1>1, <2>1 DEF OnceInv, OneHolder, Carries
  <2>4. Owed'
    BY <1>1, <2>1 DEF OnceInv, Owed, Carries, Clean, NoneTwice
  <2> QED BY <2>2, <2>3, <2>4
<1>3. CASE EndPush
  <2>1. sd' = <<>> /\ received' = received
    BY <1>3 DEF EndPush, givenVars
  <2>2. Numbered'
    BY <1>1, <2>1 DEF OnceInv, Numbered, Carries
  <2>3. OneHolder'
    BY <1>1, <2>1 DEF OnceInv, OneHolder, Carries
  <2>4. Owed'
    BY <1>1, <2>1 DEF OnceInv, Owed, Carries, Clean, NoneTwice
  <2> QED BY <2>2, <2>3, <2>4
<1>4. CASE Write
  <2> DEFINE c == Head(todo)
             i == sd[1].id
  <2>1. /\ pc = "write" /\ pc' = "write" /\ todo # <<>> /\ sd' = sd
        /\ received' = [received EXCEPT ![c] = Append(@, i)] /\ todo' = Tail(todo) /\ torn' = torn
    BY <1>4 DEF Write, ToPusher
  <2>2. /\ todo \in Seq(Clients) /\ (i \notin torn => NoneTwice(todo, doubled)) /\ sd \in Seq(Rec) /\ Len(sd) = 1
        /\ received \in [Clients -> Seq(Nat)]
    BY <2>1 DEF OnceInv, Types, Threads, Listed
  <2>3. /\ c \in Clients /\ Elems(todo) = Elems(Tail(todo)) \cup {c}
        /\ Clean(c, i) => c \notin Elems(Tail(todo))
    BY <2>1, <2>2, HeadTaken DEF Clean
  <2>4. sd # <<>> /\ i \in Nat /\ i <= written
    <3>1. sd \in Seq(Rec) /\ Len(sd) = 1
      BY <2>2
    <3>2. sd[1] \in Rec /\ sd # <<>>
      BY <3>1, Single
    <3>3. sd[1].id \in Nat
      BY <3>2 DEF Rec
    <3> QED BY <3>2, <3>3 DEF OnceInv, Numbered
  <2>5. Clean(c, i) => i \notin Elems(received[c])
    BY <2>1, <2>3, <2>4 DEF OnceInv, Owed
  <2>6. /\ \A v \in Writers : Carries(v) => datum[v].id # i
        /\ \A n \in 1 .. Len(queue) : queue[n].id # i
    BY <2>4 DEF OnceInv, OneHolder
  <2> HIDE DEF c, i
  <2>7. /\ Elems(received'[c]) = Elems(received[c]) \cup {i}
        /\ c \notin doubled => NoneTwice(received'[c], torn)
        /\ \A x \in Clients : x # c => received'[x] = received[x]
    <3>1. received'[c] = Append(received[c], i) /\ \A x \in Clients : x # c => received'[x] = received[x]
      BY <2>1, <2>2, <2>3
    <3>2. /\ c \notin doubled => NoneTwice(received[c], torn)
          /\ received[c] \in Seq(Nat)
      BY <2>2, <2>3 DEF OnceInv, Owed
    <3>3. /\ Elems(Append(received[c], i)) = Elems(received[c]) \cup {i}
          /\ c \notin doubled => NoneTwice(Append(received[c], i), torn)
      BY <2>4, <2>5, <3>2, Appended DEF Clean
    <3> QED BY <3>1, <3>3
  <2>8. Numbered'
    <3>1. \A x \in Clients : \A j \in Elems(received'[x]) : j <= written
      BY <2>4, <2>7 DEF OnceInv, Numbered
    <3> QED BY <1>1, <2>1, <3>1 DEF OnceInv, Numbered, Carries
  <2>9. OneHolder'
    BY <1>1, <2>1 DEF OnceInv, OneHolder, Carries
  <2>10. Owed'
    <3>1. \A x \in Clients \ doubled : NoneTwice(received'[x], torn)
      BY <2>7 DEF OnceInv, Owed
    <3>2. ASSUME NEW v \in Writers, NEW x \in Clients, Carries(v), Clean(x, datum[v].id),
                 wpc[v] = "write" => x \in Elems(wtodo[v])
          PROVE  datum[v].id \notin Elems(received'[x])
      BY <2>6, <2>7, <3>2 DEF OnceInv, Owed
    <3>3. ASSUME NEW n \in 1 .. Len(queue), NEW x \in Clients, Clean(x, queue[n].id)
          PROVE  queue[n].id \notin Elems(received'[x])
      BY <2>6, <2>7, <3>3 DEF OnceInv, Owed
    <3>4. ASSUME NEW x \in Clients, Clean(x, sd[1].id), x \in Elems(todo')
          PROVE  sd[1].id \notin Elems(received'[x])
      <4>2. Clean(x, i) /\ x \in Elems(Tail(todo))
        BY <2>1, <3>4 DEF i
      <4>1. x # c /\ x \in Elems(todo)
        BY <2>3, <4>2
      <4> QED BY <2>1, <2>4, <2>7, <3>4, <4>1 DEF OnceInv, Owed
    <3> QED BY <1>1, <2>1, <3>1, <3>2, <3>3, <3>4 DEF Owed, Carries, Clean
  <2> QED BY <2>8, <2>9, <2>10
<1> QED BY <1>2, <1>3, <1>4

(* No step gives two a datum that one had, or a client one it has. *)
LEMMA KeepsOnce ==
  ASSUME OnceInv, [SlotNext]_addressVars
  PROVE  Numbered' /\ OneHolder' /\ Owed'
<1> doubled \subseteq doubled' /\ torn \subseteq torn'
  BY NeverCleaned
<1>1. ASSUME NEW w \in Writers, Writer(w) PROVE Numbered' /\ OneHolder' /\ Owed'
  <2>1. ASSUME NEW from, NEW to, ToWriter(w, from, to), from = "choose" \/ from = "signal",
               to = "queue" \/ to = "copy" \/ to = "idle", from = "signal" => to = "idle",
               from = "choose" => to # "idle",
               UNCHANGED <<written, queue, datum, wtodo, sd, todo, received>>,
               (pc' = "write") <=> (pc = "write")
        PROVE  Numbered' /\ OneHolder' /\ Owed'
    <3>1. wpc \in [Writers -> {"idle", "choose", "queue", "signal", "copy", "write"}]
      BY DEF OnceInv, Types
    <3>2. \A v \in Writers : (Carries(v)' <=> Carries(v)) /\ (wpc'[v] = "write" <=> wpc[v] = "write")
      BY <2>1, <3>1 DEF ToWriter, Carries
    <3>3. Numbered'
      BY <2>1, <3>2 DEF OnceInv, Numbered
    <3>4. OneHolder'
      BY <2>1, <3>2 DEF OnceInv, OneHolder
    <3>5. Owed'
      BY <2>1, <3>2 DEF OnceInv, Owed, Clean, NoneTwice
    <3> QED BY <3>3, <3>4, <3>5
  <2>2. CASE Choose(w)
    BY <2>1, <2>2 DEF Choose, slotVars, pusherVars, givenVars
  <2>3. CASE Signal(w)
    BY <2>1, <2>3 DEF Signal, AfterSignal, Wake, slotVars, givenVars
  <2> QED BY <1>1, <2>2, <2>3, WriteSlotOnce, EnqueueOnce, PushByWriterOnce DEF Writer
<1>2. CASE Pusher
  <2>1. CASE Check \/ FindNothing \/ FallAsleep \/ Timeout
    BY <2>1, NobodysDatum DEF Check, FindNothing, FallAsleep, Timeout, ToPusher, slotVars, writerVars, givenVars
  <2> QED BY <1>2, <2>1, TakeOnce, PushOnce DEF Pusher, Runs
<1>3. CASE Application
  <2>1. UNCHANGED <<written, queue, wpc, datum, wtodo, sd, todo, received>>
    BY <1>3 DEF Application, ConnectClient, DisconnectClient, Shift, EndShift, Start, Started, Stop,
                StopReturn, Stopped, Delete, Deleted, Enter, Leave, Joined, ToApp,
                slotVars, writerVars, pusherVars, givenVars
  <2>2. (pc' = "write") <=> (pc = "write")
    <3>1. CASE Start
      <4>1. pc = "off" /\ pc' = "check"
        BY <3>1 DEF Start, ToApp, OnceInv, Threads
      <4> QED BY <4>1
    <3>2. CASE StopReturn \/ Deleted
      BY <3>2 DEF StopReturn, Deleted, Joined, pusherVars
    <3> QED BY <1>3, <3>1, <3>2
            DEF Application, ConnectClient, DisconnectClient, Shift, EndShift, Started, Stop,
                Stopped, Delete, Enter, Leave, ToApp, pusherVars
  <2> QED BY <2>1, <2>2, NobodysDatum
<1>4. CASE UNCHANGED addressVars
  BY <1>4, NobodysDatum DEF addressVars, slotVars, writerVars, pusherVars, givenVars
<1> QED BY <1>1, <1>2, <1>3, <1>4 DEF SlotNext

(* A copy made while nothing is shifted is as good as the list. *)
LEMMA KeepsListed ==
  ASSUME OnceInv, [SlotNext]_addressVars
  PROVE  Listed'
<1> doubled \subseteq doubled' /\ torn \subseteq torn'
  BY NeverCleaned
<1>1. /\ upc # "shifting" => NoneTwice(pushClients, doubled)
      /\ upc = "shifting" =>
           /\ pos \in 1 .. Len(pushClients)
           /\ \A m, n \in 1 .. Len(pushClients) \ {pos} :
                pushClients[m] = pushClients[n] /\ pushClients[m] \notin doubled => m = n
      /\ \A w \in Writers :
           wpc[w] = "write" /\ datum[w].id \notin torn => NoneTwice(wtodo[w], doubled)
      /\ pc = "write" /\ sd[1].id \notin torn => NoneTwice(todo, doubled)
      /\ pushClients \in Seq(Clients) /\ Len(pushClients) \in Nat
      /\ wtodo \in [Writers -> Seq(Clients)] /\ todo \in Seq(Clients)
      /\ wpc \in [Writers -> {"idle", "choose", "queue", "signal", "copy", "write"}]
      /\ datum \in [Writers -> Rec \cup {NoDatum}]
  BY LenProperties DEF OnceInv, Listed, Types, Threads
<1>2. \A s, D, E : NoneTwice(s, D) /\ D \subseteq E => NoneTwice(s, E)
  BY DEF NoneTwice
<1>3. ASSUME NEW w \in Writers, Writer(w) PROVE Listed'
  <2>1. UNCHANGED <<upc, pos, pushClients, doubled, todo, sd>> /\ (pc' = "write" => pc = "write")
    BY <1>3 DEF Writer, WriteSlot, Choose, Enqueue, Signal, Wake, CopyByWriter, WriteByWriter,
                EndByWriter, ToWriter, appVars, pusherVars
  <2>2. ASSUME NEW v \in Writers, wpc'[v] = "write", datum'[v].id \notin torn'
        PROVE  NoneTwice(wtodo'[v], doubled)
    <3>1. CASE v # w
      <4>1. wpc'[v] = wpc[v] /\ wtodo'[v] = wtodo[v] /\ datum'[v] = datum[v]
        BY <1>1, <1>3, <3>1 DEF Writer, WriteSlot, Choose, Enqueue, Signal, CopyByWriter,
                                WriteByWriter, EndByWriter, ToWriter
      <4> QED BY <1>1, <2>2, <4>1
    <3>2. CASE v = w
      <4>1. CopyByWriter(w) \/ WriteByWriter(w)
        BY <1>1, <1>3, <2>2, <3>2 DEF Writer, WriteSlot, Choose, Enqueue, Signal, AfterSignal,
                                      EndByWriter, ToWriter
      <4>2. CASE CopyByWriter(w)
        <5>1. upc # "shifting" /\ wtodo'[w] = pushClients
          BY <1>1, <2>2, <3>2, <4>2 DEF CopyByWriter, Tears
        <5> QED BY <1>1, <3>2, <5>1
      <4>3. CASE WriteByWriter(w)
        <5>1. /\ wpc[w] = "write" /\ wtodo[w] # <<>> /\ wtodo'[w] = Tail(wtodo[w])
              /\ datum'[w] = datum[w]
          BY <1>1, <4>3 DEF WriteByWriter, ToWriter
        <5>2. wtodo[w] \in Seq(Clients) /\ NoneTwice(wtodo[w], doubled)
          BY <1>1, <2>2, <3>2, <5>1
        <5> QED BY <3>2, <5>1, <5>2, HeadTaken
      <4> QED BY <4>1, <4>2, <4>3
    <3> QED BY <3>1, <3>2
  <2> QED BY <1>1, <2>1, <2>2 DEF Listed
<1>4. CASE Pusher
  <2>1. UNCHANGED <<upc, pos, pushClients, doubled, wpc, wtodo, datum>>
    BY <1>4 DEF Pusher, Runs, Check, FindNothing, TakeNext, SkipLate, FallAsleep, Copy, Write,
                EndPush, Timeout, ToPusher, appVars, writerVars
  <2>2. pc' = "write" /\ sd'[1].id \notin torn' => NoneTwice(todo', doubled)
    <3>1. CASE Copy
      <4>1. sd' = sd /\ todo' = pushClients /\ (upc = "shifting" => sd[1].id \in torn')
        BY <3>1 DEF Copy, Tears
      <4> QED BY <1>1, <4>1
    <3>2. CASE Write
      <4>1. pc = "write" /\ sd' = sd /\ todo # <<>> /\ todo' = Tail(todo)
        BY <3>2 DEF Write, ToPusher
      <4> QED BY <1>1, <4>1, HeadTaken
    <3> QED BY <1>4, <3>1, <3>2 DEF Pusher, Runs, Check, FindNothing, TakeNext, SkipLate, FallAsleep,
                                    EndPush, Timeout, ToPusher
  <2> QED BY <1>1, <2>1, <2>2 DEF Listed
<1>5. ASSUME UNCHANGED <<wpc, wtodo, datum, todo, sd>>, pc' = "write" => pc = "write",
             upc' # "shifting", NoneTwice(pushClients', doubled')
      PROVE  Listed'
  BY <1>1, <1>2, <1>5 DEF Listed
<1>6. ASSUME NEW c \in Clients, ConnectClient(c) PROVE Listed'
  <2>1. /\ upc = "idle" /\ upc' = "idle" /\ pushClients' = Append(pushClients, c)
        /\ c \in Elems(pushClients) => c \in doubled'
        /\ UNCHANGED <<wpc, wtodo, datum, todo, sd, pc>>
    BY <1>6 DEF ConnectClient, ToApp, writerVars, pusherVars, Elems
  <2>2. NoneTwice(pushClients, doubled')
    BY <1>1, <1>2, <2>1
  <2>3. NoneTwice(pushClients', doubled')
    BY <1>1, <2>1, <2>2, Appended
  <2> QED BY <1>5, <2>1, <2>3
<1>7. ASSUME NEW c \in Clients, DisconnectClient(c) PROVE Listed'
  <2>1. /\ upc = "idle" /\ upc' = "shifting"
        /\ UNCHANGED <<pushClients, doubled, wpc, wtodo, datum, todo, sd, pc>>
    BY <1>7 DEF DisconnectClient, ToApp, writerVars, pusherVars
  <2> QED BY <1>1, <2>1 DEF Listed, NoneTwice
<1>8. CASE Shift
  <2>1. /\ upc = "shifting" /\ upc' = "shifting" /\ pos < Len(pushClients) /\ pos' = pos + 1
        /\ pushClients' = [pushClients EXCEPT ![pos] = pushClients[pos + 1]]
        /\ UNCHANGED <<doubled, wpc, wtodo, datum, todo, sd, pc>>
    BY <1>8 DEF Shift, ToApp, writerVars, pusherVars
  <2>2. pos \in 1 .. Len(pushClients) /\ pos + 1 \in 1 .. Len(pushClients)
    BY <1>1, <2>1
  <2>3. pushClients[pos + 1] \in Clients
    BY <1>1, <2>2, ElementOfSeq
  <2>4. /\ Len(pushClients') = Len(pushClients)
        /\ \A j \in 1 .. Len(pushClients) :
             pushClients'[j] = IF j = pos THEN pushClients[pos + 1] ELSE pushClients[j]
    BY <1>1, <2>1, <2>2, <2>3, ExceptSeq
  <2>5. \A m, n \in 1 .. Len(pushClients') \ {pos'} :
          pushClients'[m] = pushClients'[n] /\ pushClients'[m] \notin doubled => m = n
    <3> SUFFICES ASSUME NEW m \in 1 .. Len(pushClients), NEW n \in 1 .. Len(pushClients),
                        m # pos + 1, n # pos + 1, pushClients'[m] = pushClients'[n],
                        pushClients'[m] \notin doubled
                 PROVE  m = n
      BY <2>1, <2>4
    <3> DEFINE from(j) == IF j = pos THEN pos + 1 ELSE j
    <3>1. /\ from(m) \in 1 .. Len(pushClients) \ {pos} /\ from(n) \in 1 .. Len(pushClients) \ {pos}
          /\ pushClients'[m] = pushClients[from(m)] /\ pushClients'[n] = pushClients[from(n)]
      BY <2>2, <2>4
    <3>2. from(m) = from(n)
      BY <1>1, <2>1, <3>1
    <3> QED BY <3>2
  <2> QED BY <1>1, <2>1, <2>5 DEF Listed
<1>9. CASE EndShift
  <2>1. /\ upc = "shifting" /\ upc' = "idle" /\ pos = Len(pushClients)
        /\ pushClients' = SubSeq(pushClients, 1, pos - 1)
        /\ UNCHANGED <<doubled, wpc, wtodo, datum, todo, sd, pc>>
    BY <1>9 DEF EndShift, ToApp, writerVars, pusherVars
  <2>2. pos \in Nat \ {0} /\ \A i \in 1 .. pos - 1 : i \in 1 .. Len(pushClients) \ {pos}
    BY <1>1, <2>1
  <2>3. \A i \in 1 .. pos - 1 : pushClients[i] \in Clients
    BY <1>1, <2>2, ElementOfSeq
  <2>4. /\ Len(pushClients') = pos - 1
        /\ \A i \in 1 .. pos - 1 : pushClients'[i] = pushClients[i]
    <3> DEFINE r == SubSeq(pushClients, 1, pos - 1)
    <3>1. 1 \in Int /\ pos - 1 \in Int /\ (pos - 1) - 1 + 1 = pos - 1
      BY <2>2
    <3>2. /\ Len(r) = IF 1 <= pos - 1 THEN (pos - 1) - 1 + 1 ELSE 0
          /\ \A i \in 1 .. (pos - 1) - 1 + 1 : r[i] = pushClients[1 + i - 1]
      BY <2>3, <3>1, SubSeqProperties
    <3>3. \A i \in 1 .. pos - 1 : 1 + i - 1 = i
      OBVIOUS
    <3> QED BY <2>1, <2>2, <3>1, <3>2, <3>3
  <2>5. NoneTwice(pushClients', doubled)
    BY <1>1, <2>1, <2>2, <2>4 DEF NoneTwice
  <2> QED BY <1>5, <2>1, <2>5
<1>10. CASE Start \/ Started \/ Stop \/ Stopped \/ Delete \/ Enter \/ Leave \/ StopReturn
  <2>1. /\ UNCHANGED <<wpc, wtodo, datum, todo, sd, pushClients, doubled>>
        /\ upc # "shifting" /\ upc' # "shifting"
        /\ pc' = "write" => pc = "write"
    BY <1>10 DEF Start, Started, Stop, Stopped, Delete, Enter, Leave, StopReturn, Joined, ToApp,
                 writerVars, pusherVars
  <2>2. NoneTwice(pushClients', doubled)
    BY <1>1, <2>1
  <2> QED BY <1>5, <2>1, <2>2
<1>11. CASE Deleted
  <2>1. /\ UNCHANGED <<wpc, wtodo, datum, todo, sd>> /\ upc' = "gone" /\ pushClients' = <<>>
        /\ pc' = "write" => pc = "write"
    BY <1>11 DEF Deleted, Joined, ToApp, writerVars, pusherVars
  <2>2. Len(<<>>) = 0
    OBVIOUS
  <2>3. NoneTwice(pushClients', doubled')
    BY <2>1, <2>2 DEF NoneTwice
  <2> QED BY <1>5, <2>1, <2>3
<1>12. CASE UNCHANGED addressVars
  BY <1>1, <1>12 DEF Listed, addressVars, writerVars, pusherVars, appVars, givenVars
<1> QED BY <1>3, <1>4, <1>6, <1>7, <1>8, <1>9, <1>10, <1>11, <1>12 DEF SlotNext, Application

(* No client is given a datum more than once, whether writers push it, the *)
(* pusher does or the way changes in between, and however clients come and *)
(* go: unless it was in the list twice, or the list was copied for the     *)
(* datum while it was shifted.                                             *)
THEOREM PushedOnce == SlotSpec => []NeverTwice
<1>1. OnceInv /\ [SlotNext]_addressVars => OnceInv'
  BY KeepsTypes, KeepsOnce, KeepsListed DEF OnceInv
<1>2. OnceInv => NeverTwice
  BY DEF OnceInv, Owed, NeverTwice, NoneTwice
<1> QED BY <1>1, <1>2, InitOnce, PTL DEF SlotSpec
=============================================================================
