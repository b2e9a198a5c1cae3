---------------------------- MODULE AddressBank ----------------------------
(***************************************************************************)
(* One AddressBankThread: the hash table through which the addresses of a  *)
(* thread space are reached by index (AddressBank/src/AddressBank.cc and   *)
(* AddressList.cc).  Callers hold the lock of the space, so an operation   *)
(* is one step.                                                            *)
(*                                                                         *)
(* The table is a record: size, a power of two; bucket, the AddressList of *)
(* each bucket; next, the counter NextIndex; perm, the buckets marked      *)
(* Permanent; index, the Index member of every Address (0: not here).      *)
(***************************************************************************)
EXTENDS Integers, FiniteSetsExt, SequencesExt

CONSTANTS
  Addrs,      \* the Address objects
  Sizes,      \* the sizes resizeHash may choose, the first being InitSize
  InitSize,
  MaxIndex,   \* bound on NextIndex
  None, Null  \* no address, and the null pointer

ASSUME BankAssumption ==
  /\ Sizes \subseteq Nat \ {0} /\ InitSize \in Nat \ {0} /\ MaxIndex \in Nat \ {0}
  /\ None \notin Addrs /\ Null \notin Addrs

VARIABLES
  bank,      \* the table
  issued,    \* history: every [index, addr] that was ever current
  pins,      \* the addresses makePermanent found first in their bucket
  moved      \* did makePermanent give an address another index?

bankVars == <<bank, issued, pins, moved>>

Slots(b) == 0 .. b.size - 1
Slot(b, i) == i % b.size

EmptyBank ==
  [size |-> InitSize, bucket |-> [k \in 0 .. InitSize - 1 |-> <<>>], next |-> 1,
   perm |-> {}, index |-> [a \in Addrs |-> 0]]

(* AddressList::get: the first in the bucket that has the index. *)
Get(b, i) ==
  LET l == b.bucket[Slot(b, i)]
      at == {n \in DOMAIN l : l[n] # Null /\ b.index[l[n]] = i}
  IN  IF at = {} THEN None ELSE l[Min(at)]

(* What write, read, push and pull reach with an index. *)
LookUp(b, i) == IF i = 0 THEN None ELSE Get(b, i)

(* Mutant: NextIndex is not counted up. *)
AddToSame(b, a) ==
  IF b.index[a] # 0 THEN b
  ELSE [b EXCEPT !.index[a] = b.next,
                 !.bucket[Slot(b, b.next)] = Append(@, a)]

AddTo(b, a) ==
  IF b.index[a] # 0 THEN b
  ELSE [b EXCEPT !.index[a] = b.next,
                 !.bucket[Slot(b, b.next)] = Append(@, a),
                 !.next = @ + 1]

(* Mutant: the number of a removed address is given out again. *)
RemoveForReuse(b, a) ==
  IF b.index[a] = 0 THEN b
  ELSE [b EXCEPT !.bucket[Slot(b, b.index[a])] = RemoveFirst(@, a),
                 !.index[a] = 0,
                 !.next = b.index[a]]

RemoveFrom(b, a) ==
  IF b.index[a] = 0 THEN b
  ELSE [b EXCEPT !.bucket[Slot(b, b.index[a])] = RemoveFirst(@, a),
                 !.index[a] = 0]

IsFirst(b, a) ==
  LET l == b.bucket[Slot(b, b.index[a])]
  IN  l # <<>> /\ Head(l) = a

(* Mutant: the marks are not looked at. *)
FreeAny(b) == Slots(b)

Free(b) == Slots(b) \ b.perm

(* makePermanent for an address that is not first in its bucket: it takes  *)
(* the place of the first one of bucket k, the first that is not marked,   *)
(* which goes to the end; in an empty bucket a null pointer takes its      *)
(* place.  The new index is NextIndex + k, and NextIndex stays.            *)
Displace(b, a) ==
  LET r == RemoveFrom(b, a)
      k == Min(Free(b))
      l == r.bucket[k]
  IN  IF Free(b) = {} THEN r
      ELSE [r EXCEPT !.index[a] = r.next + k,
                     !.bucket[k] = IF l = <<>> THEN <<Null>> ELSE <<a>> \o Tail(l) \o <<Head(l)>>,
                     !.perm = @ \cup {k}]

Permanent(b, a) ==
  IF IsFirst(b, a) THEN [b EXCEPT !.perm = @ \cup {Slot(b, b.index[a])}] ELSE Displace(b, a)

(* Mutant: the newest index is left out. *)
OldIndicesShort(b) == 0 .. b.next - 2

OldIndices(b) == 0 .. b.next - 1

(* The n-th smallest of a set of numbers. *)
Nth(S, n) == CHOOSE i \in S : Cardinality({j \in S : j <= i}) = n

(* The indices at which the walk of resizeHash comes upon an address for   *)
(* bucket k of the new table.                                              *)
Kept(b, size, k) == {i \in OldIndices(b) : i % size = k /\ Get(b, i) # None}

(* resizeHash: the indices below NextIndex are looked up in the old table, *)
(* in order, and what they lead to is added to the new one; the marks are  *)
(* lost.                                                                   *)
Rehash(b, size) ==
  [b EXCEPT !.size = size,
            !.bucket = [k \in 0 .. size - 1 |->
              [n \in 1 .. Cardinality(Kept(b, size, k)) |-> Get(b, Nth(Kept(b, size, k), n))]],
            !.perm = {}]

-----------------------------------------------------------------------------
BankInit ==
  /\ bank = EmptyBank
  /\ issued = {} /\ pins = {} /\ moved = FALSE

(* The next list walk through a bucket with a null pointer is the last. *)
Crashing == \E k \in Slots(bank) : Contains(bank.bucket[k], Null)

Current(b) == {[index |-> b.index[a], addr |-> a] : a \in {x \in Addrs : b.index[x] # 0}}

BankStep(b) ==
  /\ ~Crashing
  /\ bank' = b
  /\ issued' = issued \cup Current(b)

Add(a) ==
  /\ bank.index[a] = 0 /\ bank.next < MaxIndex
  /\ BankStep(AddTo(bank, a))
  /\ UNCHANGED <<pins, moved>>

RemoveAddr(a) ==
  /\ bank.index[a] # 0
  /\ BankStep(RemoveFrom(bank, a))
  /\ pins' = pins \ {a}
  /\ UNCHANGED moved

(* makePermanent adds an address that is not there yet. *)
Room(a) == bank.index[a] # 0 \/ bank.next < MaxIndex

PinInPlace(a) ==
  LET b == AddTo(bank, a)
  IN  /\ Room(a)
      /\ IsFirst(b, a)
      /\ BankStep(Permanent(b, a))
      /\ pins' = pins \cup {a}
      /\ UNCHANGED moved

(* Bound: once an address was displaced, no other one is. *)
PinMoved(a) ==
  LET b == AddTo(bank, a)
  IN  /\ Room(a) /\ ~moved
      /\ ~IsFirst(b, a)
      /\ BankStep(Permanent(b, a))
      /\ moved' = TRUE
      /\ pins' = pins \ {a}

ResizeHash(size) ==
  /\ size # bank.size
  /\ BankStep(Rehash(bank, size))
  /\ pins' = {}
  /\ UNCHANGED moved

BankNext ==
  \/ \E a \in Addrs : Add(a) \/ RemoveAddr(a) \/ PinInPlace(a) \/ PinMoved(a)
  \/ \E size \in Sizes : ResizeHash(size)
-----------------------------------------------------------------------------
(* An address that makePermanent accepted where it stood is the first of   *)
(* its bucket until it is removed or the table is resized: threads that    *)
(* reach it without the lock never follow a link another thread is just    *)
(* cutting.                                                                *)
PinnedStaysFirst == \A a \in pins : bank.index[a] # 0 /\ IsFirst(bank, a)

(* Until makePermanent displaces one, every address that has an index is   *)
(* found under it, whatever was removed and however the table was resized: *)
(* no live address is silently cut off.                                    *)
RegisteredIsFound ==
  ~moved => \A a \in Addrs : bank.index[a] # 0 => LookUp(bank, bank.index[a]) = a

(* What lookups find behaves as a registry of addresses that never gives   *)
(* an index twice: the holder of the index of a deleted address can reach  *)
(* nothing with it, in particular not an address made later, and resizing  *)
(* the table changes no answer.                                            *)
AllIndices == 1 .. 2 * MaxIndex
Registry == INSTANCE AddressRegistry WITH
  Indices <- AllIndices,
  table <- [i \in AllIndices |-> LookUp(bank, i)],
  used <- {h.index : h \in issued}
RegistrySpec == Registry!Spec
=============================================================================
