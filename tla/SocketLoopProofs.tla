--------------------------- MODULE SocketLoopProofs ---------------------------
(***************************************************************************)
(* Theorems about a SocketAddress with any number of callers, loops and    *)
(* clients, and a socket pair of any size, as long as no loop is claimed   *)
(* while another is on its way.                                            *)
(*                                                                         *)
(* m_Stopped alone does not tell whether a loop is alive: between          *)
(* pthread_create and the first line of the loop it still has the value of *)
(* the loop before.  The first invariant is about that gap.  The second    *)
(* says what is in the socket pair, at both ends of it: a frame whose      *)
(* length has been read, and one whose pointer is still to be written.     *)
(***************************************************************************)
EXTENDS SocketLoop, TLAPS, WellFoundedInduction, SequenceTheorems

CallerPlaces ==
  {"idle", "halted", "claim", "create", "wake", "unlocked", "join", "retry", "send", "lock",
   "length", "pointer"}
Turning ==
  {"top", "connect", "poll", "take", "net", "compact", "dying", "ending"}
LoopPlaces == Turning \cup {"none", "starting", "ended"}

PlacesOK ==
  /\ pc \in [Callers \cup Loops -> CallerPlaces \cup LoopPlaces]
  /\ \A c \in Callers : pc[c] \in CallerPlaces
  /\ \A l \in Loops : pc[l] \in LoopPlaces
  /\ next \in [Callers -> {"idle", "send"}]

(* While a loop is being made there is no other, *)
MadeAlone ==
  \A c \in Callers : pc[c] = "create" =>
    /\ stopped /\ \A l \in Loops : ~Alive(l)
    /\ \A d \in Callers : pc[d] = "create" => d = c

(* and the one that is alive has reset m_Stopped when it no longer starts. *)
AliveAlone ==
  \A l \in Loops : Alive(l) =>
    /\ stopped <=> pc[l] = "starting"
    /\ \A k \in Loops : Alive(k) => k = l

IInv == PlacesOK /\ (~rushed => MadeAlone /\ AliveAlone)

(* Callers and loops are different processes. *)
LEMMA Apart == \A c \in Callers : c \notin Loops
  BY SocketAssumption DEF Loops

LEMMA InitHolds == Init => IInv
<1> SUFFICES ASSUME Init PROVE IInv
  OBVIOUS
<1>1. /\ \A c \in Callers : pc[c] = "idle"
      /\ \A l \in Loops : pc[l] = "none"
      /\ pc \in [Callers \cup Loops -> CallerPlaces \cup LoopPlaces]
  BY Apart DEF Init, CallerPlaces, LoopPlaces
<1> QED
  BY <1>1 DEF Init, IInv, PlacesOK, MadeAlone, AliveAlone, Alive, CallerPlaces, LoopPlaces

(* A caller that does not go and make a loop disturbs none. *)
LEMMA CallerMoves ==
  ASSUME IInv, NEW c \in Callers, NEW p \in CallerPlaces \ {"create"},
         pc' = [pc EXCEPT ![c] = p], next' \in [Callers -> {"idle", "send"}],
         stopped' = stopped, ~rushed' => ~rushed
  PROVE  IInv'
<1>1. /\ pc'[c] = p /\ p # "create"
      /\ \A d \in Callers : d # c => pc'[d] = pc[d]
      /\ \A l \in Loops : pc'[l] = pc[l]
      /\ pc' \in [Callers \cup Loops -> CallerPlaces \cup LoopPlaces]
  BY Apart DEF IInv, PlacesOK
<1>2. PlacesOK'
  BY <1>1 DEF IInv, PlacesOK
<1>3. /\ \A d \in Callers : pc'[d] = "create" => pc[d] = "create"
      /\ \A l \in Loops : Alive(l)' <=> Alive(l)
  BY <1>1 DEF Alive
<1> QED BY <1>1, <1>2, <1>3 DEF IInv, MadeAlone, AliveAlone

(* Nor does a loop that goes on. *)
LEMMA LoopMoves ==
  ASSUME IInv, NEW l \in Loops, NEW p \in Turning, pc[l] \in Turning,
         pc' = [pc EXCEPT ![l] = p], UNCHANGED <<stopped, next, rushed>>
  PROVE  IInv'
<1>1. /\ pc'[l] = p
      /\ \A k \in Loops : k # l => pc'[k] = pc[k]
      /\ \A c \in Callers : pc'[c] = pc[c]
      /\ pc' \in [Callers \cup Loops -> CallerPlaces \cup LoopPlaces]
  BY Apart DEF IInv, PlacesOK, LoopPlaces
<1>2. PlacesOK'
  BY <1>1 DEF IInv, PlacesOK, LoopPlaces
<1>3. \A k \in Loops : /\ Alive(k)' <=> Alive(k)
                       /\ (pc'[k] = "starting") <=> (pc[k] = "starting")
  BY <1>1 DEF Alive, Turning
<1> QED BY <1>1, <1>2, <1>3 DEF IInv, MadeAlone, AliveAlone

(* A loop that begins resets m_Stopped, one that ends sets it. *)
LEMMA LoopTurns ==
  ASSUME IInv, NEW l \in Loops,
         \/ pc[l] = "starting" /\ pc' = [pc EXCEPT ![l] = "top"] /\ stopped' = FALSE
         \/ pc[l] \in Turning /\ pc' = [pc EXCEPT ![l] = "ended"] /\ stopped' = TRUE,
         UNCHANGED <<next, rushed>>
  PROVE  IInv'
<1>1. /\ \/ pc'[l] = "top" /\ stopped' = FALSE
         \/ pc'[l] = "ended" /\ stopped' = TRUE
      /\ \A k \in Loops : k # l => pc'[k] = pc[k]
      /\ \A c \in Callers : pc'[c] = pc[c]
      /\ pc' \in [Callers \cup Loops -> CallerPlaces \cup LoopPlaces]
  BY Apart DEF IInv, PlacesOK, LoopPlaces, Turning
<1>2. PlacesOK'
  BY <1>1 DEF IInv, PlacesOK, LoopPlaces, Turning
<1>3. Alive(l)
  BY DEF Alive, Turning
<1>4. ASSUME ~rushed PROVE MadeAlone' /\ AliveAlone'
  <2>1. /\ \A c \in Callers : pc'[c] # "create"
        /\ \A k \in Loops : Alive(k) => k = l
    BY <1>1, <1>3, <1>4 DEF IInv, MadeAlone, AliveAlone
  <2>2. \A k \in Loops : Alive(k)' => k = l /\ pc'[l] = "top"
    BY <1>1, <2>1 DEF Alive
  <2> QED BY <1>1, <2>1, <2>2 DEF MadeAlone, AliveAlone
<1> QED BY <1>2, <1>4 DEF IInv

LEMMA StartSocketKeeps ==
  ASSUME IInv, NEW c \in Callers, NEW then \in {"idle", "send"}, StartSocket(c, then)
  PROVE  IInv'
<1>1. /\ UNCHANGED <<stopped, rushed>>
      /\ \E p \in {"idle", "claim"} : pc' = [pc EXCEPT ![c] = p]
      /\ next' \in [Callers -> {"idle", "send"}]
  BY DEF StartSocket, Goto, IInv, PlacesOK
<1> QED BY <1>1, CallerMoves DEF CallerPlaces

(* m_Stopped is looked at when nothing is on its way: no loop is alive if  *)
(* it is set.                                                              *)
LEMMA ClaimKeeps ==
  ASSUME IInv, NEW c \in Callers, Claim(c)
  PROVE  IInv'
<1>1. next[c] \in {"idle", "send"} /\ next \in [Callers -> {"idle", "send"}]
  BY DEF IInv, PlacesOK
<1>2. CASE ~stopped
  <2>1. /\ pc' = [pc EXCEPT ![c] = next[c]] /\ next' = [next EXCEPT ![c] = "idle"]
        /\ stopped' = stopped /\ (~rushed' => ~rushed)
    BY <1>2 DEF Claim, StartReturns, Goto
  <2> QED BY <1>1, <2>1, CallerMoves DEF CallerPlaces
<1>3. CASE stopped
  <2>1. /\ pc' = [pc EXCEPT ![c] = "create"]
        /\ stopped' = stopped /\ next' = next /\ (~rushed' => ~rushed /\ ~OnItsWay)
    BY <1>3 DEF Claim, Goto
  <2>2. /\ pc'[c] = "create"
        /\ \A d \in Callers : d # c => pc'[d] = pc[d]
        /\ \A l \in Loops : pc'[l] = pc[l]
        /\ pc' \in [Callers \cup Loops -> CallerPlaces \cup LoopPlaces]
    BY <2>1, Apart DEF IInv, PlacesOK, CallerPlaces
  <2>3. PlacesOK'
    BY <2>1, <2>2 DEF IInv, PlacesOK, CallerPlaces
  <2>4. ASSUME ~rushed' PROVE MadeAlone' /\ AliveAlone'
    <3>1. \A d \in Callers : pc'[d] = "create" => d = c
      BY <2>1, <2>2, <2>4 DEF OnItsWay
    <3>2. \A l \in Loops : ~Alive(l)
      BY <1>3, <2>1, <2>4 DEF OnItsWay, IInv, AliveAlone
    <3>3. \A l \in Loops : ~Alive(l)'
      BY <2>2, <3>2 DEF Alive
    <3> QED BY <1>3, <2>1, <3>1, <3>3 DEF MadeAlone, AliveAlone
  <2> QED BY <2>3, <2>4 DEF IInv
<1> QED BY <1>2, <1>3

LEMMA CreateKeeps ==
  ASSUME IInv, NEW c \in Callers, Create(c)
  PROVE  IInv'
<1>1. PICK l \in Loops : pc' = [pc EXCEPT ![c] = next[c], ![l] = "starting"]
  BY DEF Create
<1>2. /\ pc[c] = "create" /\ pc'[l] = "starting" /\ pc'[c] = next[c]
      /\ \A d \in Callers : d # c => pc'[d] = pc[d]
      /\ \A k \in Loops : k # l => pc'[k] = pc[k]
      /\ next[c] \in {"idle", "send"}
      /\ pc' \in [Callers \cup Loops -> CallerPlaces \cup LoopPlaces]
  BY <1>1, Apart DEF Create, IInv, PlacesOK, CallerPlaces, LoopPlaces
<1>3. /\ UNCHANGED <<stopped, rushed>>
      /\ next' \in [Callers -> {"idle", "send"}]
  BY DEF Create, IInv, PlacesOK
<1>4. PlacesOK'
  BY <1>2, <1>3 DEF IInv, PlacesOK, CallerPlaces, LoopPlaces
<1>5. ASSUME ~rushed PROVE MadeAlone' /\ AliveAlone'
  <2>1. /\ stopped /\ \A k \in Loops : ~Alive(k)
        /\ \A d \in Callers : pc[d] = "create" => d = c
    BY <1>2, <1>5 DEF IInv, MadeAlone
  <2>2. /\ \A k \in Loops : Alive(k)' <=> k = l
        /\ \A d \in Callers : pc'[d] # "create"
    BY <1>2, <2>1 DEF Alive
  <2> QED BY <1>2, <1>3, <2>1, <2>2 DEF MadeAlone, AliveAlone
<1> QED BY <1>3, <1>4, <1>5 DEF IInv

LEMMA StepKeeps ==
  ASSUME IInv, [Next]_vars
  PROVE  IInv'
<1>1. next \in [Callers -> {"idle", "send"}]
  BY DEF IInv, PlacesOK
<1>2. ASSUME NEW c \in Callers, Call(c) PROVE IInv'
  <2>1. CASE Start(c)
    BY <2>1, StartSocketKeeps DEF Start
  <2>2. CASE WriteRestarts(c)
    BY <2>2, StartSocketKeeps DEF WriteRestarts
  <2>3. CASE Claim(c)
    BY <2>3, ClaimKeeps
  <2>4. CASE Create(c)
    BY <2>4, CreateKeeps
  <2>5. CASE CreateFails(c)
    <3>1. /\ pc' = [pc EXCEPT ![c] = "idle"] /\ UNCHANGED <<stopped, rushed>>
          /\ next' \in [Callers -> {"idle", "send"}]
      BY <1>1, <2>5 DEF CreateFails, Goto
    <3> QED BY <3>1, CallerMoves DEF CallerPlaces
  <2>6. CASE Stop(c) \/ Write(c)
    <3>1. /\ \E p \in {"wake", "halted", "retry", "send"} : pc' = [pc EXCEPT ![c] = p]
          /\ UNCHANGED <<stopped, rushed, next>>
      BY <2>6 DEF Stop, Write, Goto
    <3> QED BY <1>1, <3>1, CallerMoves DEF CallerPlaces
  <2>7. CASE WriteRefused(c) \/ WriteAccepted(c) \/ LockWrite(c)
    <3>1. /\ \E p \in {"idle", "lock", "length"} : pc' = [pc EXCEPT ![c] = p]
          /\ UNCHANGED <<stopped, rushed, next>>
      BY <2>7 DEF WriteRefused, WriteAccepted, LockWrite, Goto
    <3> QED BY <1>1, <3>1, CallerMoves DEF CallerPlaces
  <2>8. CASE Continue(c)
    <3>1. /\ \E p \in {"unlocked", "join", "halted", "pointer", "idle"} :
               pc' = [pc EXCEPT ![c] = p]
          /\ UNCHANGED <<stopped, rushed, next>>
      BY <2>8 DEF Continue, WakeLoop, BeginJoin, Join, WriteLength, WritePointer, Goto
    <3> QED BY <1>1, <3>1, CallerMoves DEF CallerPlaces
  <2> QED BY <1>2, <2>1, <2>2, <2>3, <2>4, <2>5, <2>6, <2>7, <2>8 DEF Call
<1>3. ASSUME NEW l \in Loops, Run(l) \/ OtherEvent(l) PROVE IInv'
  <2>1. CASE Begin(l)
    BY <2>1, LoopTurns DEF Begin, Goto
  <2>2. CASE Ending(l) \/ EndDead(l)
    BY <2>2, LoopTurns DEF Ending, EndDead, Goto, Turning
  <2>3. CASE Top(l) \/ Reconnect(l)
    BY <2>3, LoopMoves DEF Top, Reconnect, Goto, Turning
  <2>4. CASE ReadLength(l) \/ ReadPointer(l) \/ OtherEvent(l)
    BY <2>4, LoopMoves DEF ReadLength, ReadPointer, OtherEvent, Goto, Turning
  <2>5. CASE Offline(l) \/ Bury(l)
    BY <2>5, LoopMoves DEF Offline, Bury, ToTop, Goto, Turning
  <2>6. CASE Serve(l)
    BY <2>6, LoopMoves DEF Serve, ToTop, Goto, Turning
  <2>7. CASE Stay(l) \/ Die(l)
    BY <2>7, LoopMoves DEF Stay, Die, ToTop, Goto, Turning
  <2> QED BY <1>3, <2>1, <2>2, <2>3, <2>4, <2>5, <2>6, <2>7 DEF Run
<1>4. CASE UNCHANGED vars
  BY <1>4 DEF vars, IInv, PlacesOK, MadeAlone, AliveAlone, Alive
<1> QED BY <1>2, <1>3, <1>4 DEF Next
-----------------------------------------------------------------------------
(* SocketAddress: whatever is started, stopped and written by however many *)
(* threads, one event loop at most is alive, as long as startDevice does   *)
(* not claim one in the gap before the last one's first line.              *)
THEOREM OneLoopOnly == Spec => []OneLoop
<1>1. IInv /\ [Next]_vars => IInv'
  BY StepKeeps
<1>2. IInv => OneLoop
  BY DEF IInv, AliveAlone, OneLoop
<1> QED BY InitHolds, <1>1, <1>2, PTL DEF Spec
-----------------------------------------------------------------------------
(* Induction over a set of numbers. *)
LEMMA AllNumbers ==
  ASSUME NEW S, 0 \in S, \A n \in Nat : n \in S => n + 1 \in S
  PROVE  Nat \subseteq S
<1> SUFFICES ASSUME Nat \ S # {} PROVE FALSE
  OBVIOUS
<1>1. PICK i \in Nat \ S : \A j \in Nat \ S : ~(<<j, i>> \in OpToRel(<, Nat))
  BY WFMin, NatLessThanWellFounded
<1>2. \A j \in Nat \ S : ~(j < i)
  BY <1>1 DEF OpToRel
<1>3. i # 0 /\ i - 1 \in Nat /\ i - 1 < i
  OBVIOUS
<1>4. i - 1 \in S
  BY <1>2, <1>3
<1> QED BY <1>3, <1>4

(* One entry is taken out of a sequence. *)
LEMMA RemovedAt ==
  ASSUME NEW S, NEW s \in Seq(S), NEW i \in 1..Len(s)
  PROVE  /\ RemoveAt(s, i) \in Seq(S) /\ Len(RemoveAt(s, i)) = Len(s) - 1
         /\ \A k \in 1..Len(s) - 1 : RemoveAt(s, i)[k] = IF k < i THEN s[k] ELSE s[k + 1]
<1> DEFINE f == SubSeq(s, 1, i - 1)
           g == SubSeq(s, i + 1, Len(s))
<1>1. /\ f \in Seq(S) /\ Len(f) = i - 1
      /\ \A k \in 1..i - 1 : f[k] = s[k]
  OBVIOUS
<1>2. /\ g \in Seq(S) /\ Len(g) = Len(s) - i
      /\ \A k \in 1..Len(s) - i : g[k] = s[i + k]
  OBVIOUS
<1>3. RemoveAt(s, i) = f \o g
  BY DEF RemoveAt
<1> HIDE DEF f, g
<1>4. /\ f \o g \in Seq(S) /\ Len(f \o g) = Len(f) + Len(g)
      /\ \A k \in 1..Len(f) + Len(g) : (f \o g)[k] = IF k <= Len(f) THEN f[k] ELSE g[k - Len(f)]
  BY <1>1, <1>2, ConcatProperties
<1>5. Len(f) + Len(g) = Len(s) - 1 /\ Len(s) \in Nat
  BY <1>1, <1>2
<1>6. ASSUME NEW k \in 1..Len(s) - 1 PROVE (f \o g)[k] = IF k < i THEN s[k] ELSE s[k + 1]
  <2>1. CASE k < i
    BY <1>1, <1>4, <1>5, <2>1
  <2>2. CASE ~(k < i)
    <3>1. k - (i - 1) \in 1..Len(s) - i /\ i + (k - (i - 1)) = k + 1
      BY <1>5, <2>2
    <3> QED BY <1>1, <1>2, <1>4, <1>5, <2>2, <3>1
  <2> QED BY <2>1, <2>2
<1> QED BY <1>3, <1>4, <1>5, <1>6

(* The rounds of the compaction. *)
LEMMA Rounds ==
  ASSUME NEW cs, Len(cs) \in Nat
  PROVE  \E after : /\ after[0] = cs
                    /\ \A i \in 1..Len(cs) : after[i] = Round(after[i - 1], i)
                    /\ Compact(cs) = after[Len(cs)]
<1> DEFINE Is(f, n) == f = [i \in 0..n |-> IF i = 0 THEN cs ELSE Round(f[i - 1], i)]
           S == {n \in Nat : \E f : Is(f, n)}
<1>1. 0 \in S
  <2> DEFINE f == [i \in 0..0 |-> cs]
  <2>1. Is(f, 0)
    BY \A i \in 0..0 : i = 0
  <2> QED BY <2>1
<1>2. ASSUME NEW n \in Nat, n \in S PROVE n + 1 \in S
  <2>1. PICK g : Is(g, n)
    BY <1>2
  <2> DEFINE f == [i \in 0..n + 1 |-> IF i = n + 1 THEN Round(g[n], i) ELSE g[i]]
  <2>2. \A i \in 0..n : g[i] = IF i = 0 THEN cs ELSE Round(g[i - 1], i)
    BY <2>1
  <2>3. ASSUME NEW i \in 0..n + 1
        PROVE  f[i] = IF i = 0 THEN cs ELSE Round(f[i - 1], i)
    <3>1. CASE i = n + 1
      <4>1. i # 0 /\ i - 1 = n /\ n \in 0..n + 1 /\ n # n + 1
        BY <3>1
      <4>2. f[i] = Round(g[n], i) /\ f[i - 1] = g[n]
        BY <3>1, <4>1
      <4> QED BY <4>1, <4>2
    <3>2. CASE i # n + 1
      <4>1. i \in 0..n
        BY <3>2
      <4>2. i # 0 => i - 1 \in 0..n + 1 /\ i - 1 # n + 1
        BY <3>2
      <4>3. f[i] = g[i] /\ (i # 0 => f[i - 1] = g[i - 1])
        BY <3>2, <4>2
      <4> QED BY <2>2, <4>1, <4>3
    <3> QED BY <3>1, <3>2
  <2>4. Is(f, n + 1)
    <3>1. f = [i \in 0..n + 1 |-> f[i]]
      OBVIOUS
    <3> HIDE DEF f
    <3> QED BY <2>3, <3>1
  <2>5. n + 1 \in Nat
    OBVIOUS
  <2> QED BY <2>4, <2>5
<1>3. Len(cs) \in S
  <2> HIDE DEF S
  <2> QED BY <1>1, <1>2, AllNumbers
<1> DEFINE after == CHOOSE f : Is(f, Len(cs))
<1>4. Is(after, Len(cs))
  BY <1>3
<1>5. Compact(cs) = after[Len(cs)]
  BY DEF Compact
<1> HIDE DEF after
<1>6. \A i \in 0..Len(cs) : after[i] = IF i = 0 THEN cs ELSE Round(after[i - 1], i)
  BY <1>4
<1> QED BY <1>5, <1>6

(* What the rounds keep of an array of entries: those that are left are in *)
(* their order.                                                            *)
Halfway(s, cs) ==
  /\ s \in Seq(Nat \cup {Gone})
  /\ \A k, n \in 1..Len(s) : k < n /\ s[k] # Gone /\ s[n] # Gone => s[k] >= s[n]
  /\ \A k \in 1..Len(s) : \E n \in 1..Len(cs) : s[k] = cs[n]

LEMMA RoundGoesOn ==
  ASSUME NEW cs, NEW i \in Nat \ {0}, NEW s, Halfway(s, cs)
  PROVE  Halfway(Round(s, i), cs)
<1> DEFINE t == Round(s, i)
<1>0. s \in Seq(Nat \cup {Gone}) /\ Len(s) \in Nat
  BY DEF Halfway
<1>1. CASE i <= Len(s) /\ s[i] = Gone
  <2>1. i \in 1..Len(s) /\ t = RemoveAt(s, i)
    BY <1>0, <1>1 DEF Round
  <2> HIDE DEF t
  <2>2. /\ t \in Seq(Nat \cup {Gone}) /\ Len(t) = Len(s) - 1
        /\ \A k \in 1..Len(t) : t[k] = IF k < i THEN s[k] ELSE s[k + 1]
    BY <1>0, <2>1, RemovedAt
  <2> DEFINE old(k) == IF k < i THEN k ELSE k + 1
  <2>3. \A k \in 1..Len(t) : old(k) \in 1..Len(s) /\ t[k] = s[old(k)]
    BY <1>0, <2>2
  <2>4. \A k, n \in 1..Len(t) : k < n => old(k) < old(n)
    BY <1>0, <2>2
  <2> HIDE DEF old
  <2>5. \A k, n \in 1..Len(t) : k < n /\ t[k] # Gone /\ t[n] # Gone => t[k] >= t[n]
    BY <2>3, <2>4 DEF Halfway
  <2>6. \A k \in 1..Len(t) : \E n \in 1..Len(cs) : t[k] = cs[n]
    BY <2>3 DEF Halfway
  <2> QED BY <2>2, <2>5, <2>6 DEF Halfway, t
<1>2. CASE ~(i <= Len(s) /\ s[i] = Gone)
  BY <1>2 DEF Round
<1> QED BY <1>1, <1>2

LEMMA Compacted ==
  ASSUME NEW cs, Halfway(cs, cs)
  PROVE  Halfway(Compact(cs), cs)
<1>1. Len(cs) \in Nat
  BY DEF Halfway
<1>2. PICK after : /\ after[0] = cs
                   /\ \A i \in 1..Len(cs) : after[i] = Round(after[i - 1], i)
                   /\ Compact(cs) = after[Len(cs)]
  BY <1>1, Rounds
<1> DEFINE S == {n \in Nat : n <= Len(cs) => Halfway(after[n], cs)}
<1>3. 0 \in S
  BY <1>2
<1>4. ASSUME NEW n \in Nat, n \in S PROVE n + 1 \in S
  <2>1. SUFFICES ASSUME n + 1 <= Len(cs) PROVE Halfway(after[n + 1], cs)
    OBVIOUS
  <2>2. n + 1 \in 1..Len(cs) /\ (n + 1) - 1 = n /\ n <= Len(cs)
    BY <1>1, <2>1
  <2>3. after[n + 1] = Round(after[n], n + 1)
    BY <1>2, <2>2
  <2>4. Halfway(after[n], cs)
    BY <1>4, <2>2
  <2> QED BY <2>2, <2>3, <2>4, RoundGoesOn
<1>5. Len(cs) \in S
  <2> HIDE DEF S
  <2> QED BY <1>1, <1>3, <1>4, AllNumbers
<1> QED BY <1>1, <1>2, <1>5
-----------------------------------------------------------------------------
IsPointer(x) == "pointer" \in DOMAIN x

(* A length that says a pointer comes next. *)
Announces(x) == ~IsPointer(x) /\ x # Wakeup

Items == {Length(m) : m \in Nat} \cup {Pointer(m) : m \in Nat}

(* A loop has read the length of the pointer at the head. *)
Taking == \E l \in Loops : pc[l] = "take"

(* A caller has written the length of a pointer that is still to come. *)
Halfwritten == \E c \in Callers : pc[c] = "pointer"

(* In the socket pair a pointer follows each length above 0 and nothing    *)
(* else; the first length may have been read already, and the last pointer *)
(* may be still to be written.                                             *)
Framed ==
  /\ \A n \in 1..Len(pipe) :
       IsPointer(pipe[n]) <=> IF n = 1 THEN Taking ELSE Announces(pipe[n - 1])
  /\ Halfwritten <=> IF Len(pipe) = 0 THEN Taking ELSE Announces(pipe[Len(pipe)])

Holding == {"wake", "length", "pointer"}
Holds(c) == pc[c] \in Holding

(* The last message that was written as a whole. *)
Complete ==
  IF \E c \in Callers : pc[c] \in {"length", "pointer"} THEN written - 1 ELSE written

(* Who writes to the pair has the mutex, and the newest message. *)
WriterHolds ==
  /\ written \in Nat /\ message \in [Callers -> Nat]
  /\ \A c \in Callers : Holds(c) => writing /\ \A d \in Callers : Holds(d) => d = c
  /\ \A c \in Callers :
       pc[c] \in {"length", "pointer"} => message[c] = written /\ written > 0

(* Messages are passed in the order of the writes. *)
PassedInOrder ==
  \A n \in 1..Len(pipe) : IsPointer(pipe[n]) =>
    /\ pipe[n].pointer \in 1..Complete
    /\ \A i \in 1..Len(clients) : clients[i] < pipe[n].pointer
    /\ \A m \in 1..(n - 1) : IsPointer(pipe[m]) => pipe[m].pointer < pipe[n].pointer

(* Clients that came earlier have been given as much as later ones. *)
EarlierHaveMore ==
  /\ clients \in Seq(Nat \cup {Gone})
  /\ \A i \in 1..Len(clients) : clients[i] <= Complete
  /\ \A k, n \in 1..Len(clients) :
       k < n /\ clients[k] # Gone /\ clients[n] # Gone => clients[k] >= clients[n]

FInv ==
  /\ pipe \in Seq(Items) /\ (~rushed => Framed)
  /\ WriterHolds /\ PassedInOrder /\ EarlierHaveMore

LEMMA ItemKinds ==
  /\ \A m : IsPointer(Pointer(m)) /\ Pointer(m).pointer = m /\ ~Announces(Pointer(m))
  /\ \A m : ~IsPointer(Length(m)) /\ (Length(m) = Wakeup <=> m = 0)
  /\ \A m : "length" \in DOMAIN Length(m)
  /\ \A x \in Items : ~IsPointer(x) => "length" \in DOMAIN x
  /\ \A x \in Items : IsPointer(x) => x.pointer \in Nat
  /\ Wakeup \in Items /\ ~IsPointer(Wakeup)
<1>1. \A m : IsPointer(Pointer(m)) /\ Pointer(m).pointer = m /\ ~Announces(Pointer(m))
  BY DEF IsPointer, Pointer, Announces
<1>2. \A m : ~IsPointer(Length(m)) /\ "length" \in DOMAIN Length(m) /\ Length(m).length = m
  BY DEF IsPointer, Length
<1>3. \A m : Length(m) = Wakeup <=> m = 0
  <2>1. Wakeup = Length(0)
    BY DEF Wakeup, Length
  <2> QED BY <1>2, <2>1
<1>4. Wakeup \in Items /\ ~IsPointer(Wakeup)
  <2>1. Wakeup = Length(0)
    BY DEF Wakeup, Length
  <2> QED BY <1>2, <2>1 DEF Items
<1> QED BY <1>1, <1>2, <1>3, <1>4 DEF Items

LEMMA InitFramed == Init => FInv
<1> SUFFICES ASSUME Init PROVE FInv
  OBVIOUS
<1>1. \A c \in Callers : pc[c] = "idle"
  BY DEF Init
<1>2. ~Taking /\ ~Halfwritten
  BY <1>1, Apart DEF Init, Taking, Halfwritten
<1>3. Len(pipe) = 0 /\ pipe \in Seq(Items) /\ Len(clients) = 0 /\ clients \in Seq(Nat \cup {Gone})
  BY DEF Init
<1>4. Framed
  BY <1>2, <1>3 DEF Framed
<1>5. WriterHolds
  BY <1>1 DEF Init, WriterHolds, Holds, Holding
<1>6. PassedInOrder /\ EarlierHaveMore
  BY <1>3 DEF PassedInOrder, EarlierHaveMore
<1> QED BY <1>3, <1>4, <1>5, <1>6 DEF FInv

(* Who holds the mutex stays where he is. *)
HoldersStay == \A c \in Callers : pc[c] \in Holding \/ pc'[c] \in Holding => pc'[c] = pc[c]

LEMMA HoldersStayed ==
  ASSUME FInv, HoldersStay, UNCHANGED <<written, writing, message>>
  PROVE  /\ WriterHolds' /\ Complete' = Complete /\ Complete \in Nat
         /\ Halfwritten' <=> Halfwritten
<1>1. \A c \in Callers :
        /\ pc'[c] \in {"length", "pointer"} <=> pc[c] \in {"length", "pointer"}
        /\ pc'[c] = "pointer" <=> pc[c] = "pointer"
        /\ pc'[c] \in Holding <=> pc[c] \in Holding
  BY DEF HoldersStay, Holding
<1>2. Complete' = Complete /\ (Halfwritten' <=> Halfwritten)
  BY <1>1 DEF Complete, Halfwritten
<1>3. Complete \in Nat
  BY DEF FInv, WriterHolds, Complete
<1>4. WriterHolds'
  BY <1>1 DEF FInv, WriterHolds, Holds
<1> QED BY <1>2, <1>3, <1>4

(* A step beside the socket pair: clients may go, others come who have     *)
(* been given nothing.                                                     *)
LEMMA Beside ==
  ASSUME FInv, HoldersStay, UNCHANGED <<pipe, written, writing, message>>,
         ~rushed' => ~rushed, Taking' <=> Taking,
         clients' \in Seq(Nat \cup {Gone}),
         \A k, n \in 1..Len(clients') :
           k < n /\ clients'[k] # Gone /\ clients'[n] # Gone => clients'[k] >= clients'[n],
         \A i \in 1..Len(clients') :
           clients'[i] \in {Gone, 0} \/ \E k \in 1..Len(clients) : clients'[i] = clients[k]
  PROVE  FInv'
<1>1. /\ WriterHolds' /\ Complete' = Complete /\ Complete \in Nat
      /\ Halfwritten' <=> Halfwritten
  BY HoldersStayed
<1>2. ~rushed' => Framed'
  BY <1>1 DEF FInv, Framed
<1>3. PassedInOrder'
  <2> SUFFICES ASSUME NEW n \in 1..Len(pipe), IsPointer(pipe[n])
               PROVE  /\ pipe[n].pointer \in 1..Complete
                      /\ \A i \in 1..Len(clients') : clients'[i] < pipe[n].pointer
                      /\ \A m \in 1..(n - 1) : IsPointer(pipe[m]) =>
                           pipe[m].pointer < pipe[n].pointer
    BY <1>1 DEF PassedInOrder
  <2>1. /\ pipe[n].pointer \in 1..Complete
        /\ \A i \in 1..Len(clients) : clients[i] < pipe[n].pointer
        /\ \A m \in 1..(n - 1) : IsPointer(pipe[m]) => pipe[m].pointer < pipe[n].pointer
    BY DEF FInv, PassedInOrder
  <2>2. 0 < pipe[n].pointer /\ Gone < pipe[n].pointer
    BY <1>1, <2>1 DEF Gone
  <2>3. ASSUME NEW i \in 1..Len(clients') PROVE clients'[i] < pipe[n].pointer
    BY <2>1, <2>2
  <2> QED BY <2>1, <2>3
<1>4. EarlierHaveMore'
  <2>1. \A i \in 1..Len(clients) : clients[i] <= Complete
    BY DEF FInv, EarlierHaveMore
  <2>2. 0 <= Complete /\ Gone <= Complete
    BY <1>1 DEF Gone
  <2>3. ASSUME NEW i \in 1..Len(clients') PROVE clients'[i] <= Complete
    <3>1. CASE clients'[i] \in {Gone, 0}
      BY <2>2, <3>1
    <3>2. CASE \E k \in 1..Len(clients) : clients'[i] = clients[k]
      BY <2>1, <3>2
    <3> QED BY <3>1, <3>2
  <2> QED BY <1>1, <2>3 DEF EarlierHaveMore
<1> QED BY <1>1, <1>2, <1>3, <1>4 DEF FInv

(* A length or a pointer is put into the socket pair. *)
LEMMA PipeGrows ==
  ASSUME FInv, NEW x \in Items, pipe' = Append(pipe, x)
  PROVE  /\ pipe' \in Seq(Items) /\ Len(pipe) \in Nat
         /\ Len(pipe') = Len(pipe) + 1 /\ pipe'[Len(pipe) + 1] = x
         /\ \A n \in 1..Len(pipe) : pipe'[n] = pipe[n]
  BY DEF FInv

LEMMA FrameGrows ==
  ASSUME FInv, Framed, NEW x \in Items, pipe' = Append(pipe, x), Taking' <=> Taking,
         IsPointer(x) <=> Halfwritten, Halfwritten' <=> Announces(x)
  PROVE  Framed'
<1>1. Len(pipe) \in Nat
  BY DEF FInv
<1>2. /\ Len(pipe') = Len(pipe) + 1 /\ pipe'[Len(pipe) + 1] = x
      /\ \A n \in 1..Len(pipe) : pipe'[n] = pipe[n]
  BY PipeGrows
<1>3. ASSUME NEW n \in 1..Len(pipe')
      PROVE  IsPointer(pipe'[n]) <=> IF n = 1 THEN Taking' ELSE Announces(pipe'[n - 1])
  <2>1. CASE n <= Len(pipe)
    <3>1. n \in 1..Len(pipe) /\ (n # 1 => n - 1 \in 1..Len(pipe))
      BY <1>1, <1>2, <2>1
    <3>2. IsPointer(pipe[n]) <=> IF n = 1 THEN Taking ELSE Announces(pipe[n - 1])
      BY <3>1 DEF Framed
    <3>3. pipe'[n] = pipe[n] /\ (n # 1 => pipe'[n - 1] = pipe[n - 1])
      BY <1>2, <3>1
    <3> QED BY <3>2, <3>3
  <2>2. CASE n = Len(pipe) + 1
    <3>1. pipe'[n] = x
      BY <1>2, <2>2
    <3>2. CASE n = 1
      <4>1. Len(pipe) = 0
        BY <1>1, <2>2, <3>2
      <4> QED BY <3>1, <3>2, <4>1 DEF Framed
    <3>3. CASE n # 1
      <4>1. Len(pipe) # 0 /\ n - 1 = Len(pipe) /\ Len(pipe) \in 1..Len(pipe)
        BY <1>1, <2>2, <3>3
      <4>2. pipe'[n - 1] = pipe[Len(pipe)]
        BY <1>2, <4>1
      <4> QED BY <3>1, <3>3, <4>1, <4>2 DEF Framed
    <3> QED BY <3>2, <3>3
  <2> QED BY <1>1, <1>2, <2>1, <2>2
<1>4. Halfwritten' <=> IF Len(pipe') = 0 THEN Taking' ELSE Announces(pipe'[Len(pipe')])
  <2>1. Len(pipe') # 0
    BY <1>1, <1>2
  <2>2. Halfwritten' <=> Announces(pipe'[Len(pipe')])
    BY <1>1, <1>2
  <2>3. CASE Len(pipe') = 0
    BY <2>1, <2>3
  <2>4. CASE Len(pipe') # 0
    BY <2>2, <2>4
  <2> QED BY <2>3, <2>4
<1> QED BY <1>3, <1>4 DEF Framed

(* The head of the socket pair is read. *)
LEMMA PipeShrinks ==
  ASSUME FInv, pipe # <<>>, pipe' = Tail(pipe)
  PROVE  /\ pipe' \in Seq(Items) /\ Len(pipe) \in Nat \ {0}
         /\ Head(pipe) = pipe[1] /\ 1 \in 1..Len(pipe) /\ Len(pipe') = Len(pipe) - 1
         /\ \A n \in 1..Len(pipe') : n + 1 \in 1..Len(pipe) /\ pipe'[n] = pipe[n + 1]
<1>1. pipe \in Seq(Items) /\ Len(pipe) \in Nat /\ Len(pipe) # 0
  BY DEF FInv
<1> QED BY <1>1

LEMMA FrameShrinks ==
  ASSUME FInv, Framed, pipe # <<>>, pipe' = Tail(pipe), Halfwritten' <=> Halfwritten,
         Taking' <=> Announces(Head(pipe))
  PROVE  Framed'
<1>1. Len(pipe) \in Nat \ {0}
  BY PipeShrinks
<1>2. /\ Len(pipe') = Len(pipe) - 1 /\ Head(pipe) = pipe[1]
      /\ \A n \in 1..Len(pipe') : n + 1 \in 1..Len(pipe) /\ pipe'[n] = pipe[n + 1]
  BY PipeShrinks
<1>3. ASSUME NEW n \in 1..Len(pipe')
      PROVE  IsPointer(pipe'[n]) <=> IF n = 1 THEN Taking' ELSE Announces(pipe'[n - 1])
  <2>1. /\ n + 1 \in 1..Len(pipe) /\ pipe'[n] = pipe[n + 1] /\ n + 1 # 1 /\ (n + 1) - 1 = n
        /\ n # 1 => n - 1 \in 1..Len(pipe') /\ pipe'[n - 1] = pipe[n]
    BY <1>1, <1>2
  <2>2. IsPointer(pipe[n + 1]) <=> Announces(pipe[n])
    BY <2>1 DEF Framed
  <2> QED BY <1>2, <2>1, <2>2
<1>4. Halfwritten <=> Announces(pipe[Len(pipe)])
  BY <1>1 DEF Framed
<1>5. Halfwritten' <=> IF Len(pipe') = 0 THEN Taking' ELSE Announces(pipe'[Len(pipe')])
  <2>1. CASE Len(pipe') = 0
    <3>1. pipe[Len(pipe)] = Head(pipe)
      BY <1>1, <1>2, <2>1
    <3>2. Halfwritten' <=> Taking'
      BY <1>4, <3>1
    <3> QED BY <2>1, <3>2
  <2>2. CASE Len(pipe') # 0
    <3>1. Len(pipe') \in 1..Len(pipe') /\ Len(pipe') + 1 = Len(pipe)
      BY <1>1, <1>2, <2>2
    <3>2. pipe'[Len(pipe')] = pipe[Len(pipe)]
      BY <1>2, <3>1
    <3> QED BY <1>4, <2>2, <3>2
  <2> QED BY <2>1, <2>2
<1> QED BY <1>3, <1>5 DEF Framed

(* One caller alone is at the socket pair. *)
LEMMA Sole ==
  ASSUME NEW c \in Callers,
         \A d \in Callers : d # c => pc[d] \notin Holding /\ pc'[d] = pc[d]
  PROVE  /\ Halfwritten <=> pc[c] = "pointer"
         /\ Halfwritten' <=> pc'[c] = "pointer"
         /\ Complete = IF pc[c] \in {"length", "pointer"} THEN written - 1 ELSE written
         /\ Complete' = IF pc'[c] \in {"length", "pointer"} THEN written' - 1 ELSE written'
<1>1. \A d \in Callers : d # c => pc[d] \notin {"length", "pointer"} /\ pc'[d] = pc[d]
  BY DEF Holding
<1> QED BY <1>1 DEF Halfwritten, Complete

(* The mutex is taken: to wake the loop, or to write a message. *)
LEMMA MutexTaken ==
  ASSUME FInv, NEW c \in Callers, ~writing, writing' = TRUE, UNCHANGED <<pipe, clients, rushed>>,
         \A d \in Callers : d # c => pc'[d] = pc[d], Taking' <=> Taking,
         \/ pc'[c] = "wake" /\ UNCHANGED <<written, message>>
         \/ pc'[c] = "length" /\ written' = written + 1
            /\ message' = [message EXCEPT ![c] = written']
  PROVE  FInv'
<1>1. \A d \in Callers : pc[d] \notin Holding
  BY DEF FInv, WriterHolds, Holds
<1>2. written \in Nat /\ message \in [Callers -> Nat]
  BY DEF FInv, WriterHolds
<1>3. /\ Halfwritten' <=> Halfwritten
      /\ Complete' = Complete
  <2>1. /\ Halfwritten <=> pc[c] = "pointer"
        /\ Halfwritten' <=> pc'[c] = "pointer"
        /\ Complete = IF pc[c] \in {"length", "pointer"} THEN written - 1 ELSE written
        /\ Complete' = IF pc'[c] \in {"length", "pointer"} THEN written' - 1 ELSE written'
    BY <1>1, Sole
  <2>2. pc[c] \notin {"length", "pointer"}
    BY <1>1 DEF Holding
  <2> QED BY <1>2, <2>1, <2>2
<1>4. WriterHolds'
  <2>1. \A d \in Callers : d # c => pc'[d] \notin Holding /\ pc'[d] \notin {"length", "pointer"}
    BY <1>1 DEF Holding
  <2>2. pc'[c] = "length" => message'[c] = written' /\ written' > 0
    BY <1>2
  <2>3. written' \in Nat /\ message' \in [Callers -> Nat]
    BY <1>2
  <2>4. pc'[c] \in {"wake", "length"}
    OBVIOUS
  <2> QED BY <2>1, <2>2, <2>3, <2>4 DEF WriterHolds, Holds
<1>5. ~rushed' => Framed'
  BY <1>3 DEF FInv, Framed
<1>6. PassedInOrder' /\ EarlierHaveMore'
  BY <1>3 DEF FInv, PassedInOrder, EarlierHaveMore
<1> QED BY <1>4, <1>5, <1>6 DEF FInv

(* A wake-up or a length is written. *)
LEMMA NumberFrames ==
  ASSUME FInv, NEW c \in Callers, UNCHANGED <<clients, written, message, rushed>>,
         \A d \in Callers : d # c => pc'[d] = pc[d], Taking' <=> Taking,
         \/ /\ pc[c] = "wake" /\ pc'[c] = "unlocked"
            /\ pipe' = Append(pipe, Wakeup) /\ writing' = FALSE
         \/ /\ pc[c] = "length" /\ pc'[c] = "pointer"
            /\ pipe' = Append(pipe, Length(message[c])) /\ writing' = writing
  PROVE  FInv'
<1> DEFINE x == IF pc[c] = "wake" THEN Wakeup ELSE Length(message[c])
<1>1. /\ writing /\ \A d \in Callers : d # c => pc[d] \notin Holding
      /\ written \in Nat /\ message \in [Callers -> Nat]
      /\ pc[c] = "length" => message[c] = written /\ written > 0
  <2>1. pc[c] \in Holding
    BY DEF Holding
  <2> QED BY <2>1 DEF FInv, WriterHolds, Holds
<1>2. /\ pipe' = Append(pipe, x) /\ x \in Items /\ ~IsPointer(x)
      /\ Announces(x) <=> pc'[c] = "pointer"
  <2>1. CASE pc[c] = "wake"
    BY <2>1, ItemKinds DEF Announces
  <2>2. CASE pc[c] = "length"
    <3>1. x = Length(message[c]) /\ message[c] \in Nat /\ message[c] # 0
      BY <1>1, <2>2
    <3>2. x \in Items /\ ~IsPointer(x) /\ Announces(x)
      BY <3>1, ItemKinds DEF Items, Announces
    <3> QED BY <2>2, <3>2
  <2> QED BY <2>1, <2>2
<1> HIDE DEF x
<1>3. /\ pipe' \in Seq(Items) /\ Len(pipe) \in Nat
      /\ Len(pipe') = Len(pipe) + 1 /\ pipe'[Len(pipe) + 1] = x
      /\ \A n \in 1..Len(pipe) : pipe'[n] = pipe[n]
  BY <1>2, PipeGrows
<1>4. /\ Halfwritten <=> pc[c] = "pointer"
      /\ Halfwritten' <=> pc'[c] = "pointer"
      /\ Complete = IF pc[c] \in {"length", "pointer"} THEN written - 1 ELSE written
      /\ Complete' = IF pc'[c] \in {"length", "pointer"} THEN written' - 1 ELSE written'
  BY <1>1, Sole
<1>5. ~Halfwritten /\ Complete' = Complete
  BY <1>4
<1>6. WriterHolds'
  <2>1. \A d \in Callers : d # c => pc'[d] \notin Holding /\ pc'[d] \notin {"length", "pointer"}
    BY <1>1 DEF Holding
  <2>2. \/ pc'[c] = "unlocked" /\ pc'[c] \notin Holding
        \/ pc'[c] = "pointer" /\ writing' /\ message'[c] = written' /\ written' > 0
    BY <1>1 DEF Holding
  <2> QED BY <1>1, <2>1, <2>2 DEF WriterHolds, Holds
<1>7. ~rushed' => Framed'
  BY <1>2, <1>4, <1>5, FrameGrows DEF FInv
<1>8. \A n \in 1..Len(pipe') : IsPointer(pipe'[n]) => n \in 1..Len(pipe)
  BY <1>2, <1>3
<1>9. PassedInOrder'
  <2> SUFFICES ASSUME NEW n \in 1..Len(pipe'), IsPointer(pipe'[n])
               PROVE  /\ pipe'[n].pointer \in 1..Complete
                      /\ \A i \in 1..Len(clients) : clients[i] < pipe'[n].pointer
                      /\ \A m \in 1..(n - 1) : IsPointer(pipe'[m]) =>
                           pipe'[m].pointer < pipe'[n].pointer
    BY <1>5 DEF PassedInOrder
  <2>1. n \in 1..Len(pipe) /\ pipe'[n] = pipe[n]
    BY <1>3, <1>8
  <2>2. \A m \in 1..(n - 1) : pipe'[m] = pipe[m]
    BY <1>3, <2>1
  <2> QED BY <2>1, <2>2 DEF FInv, PassedInOrder
<1>10. EarlierHaveMore'
  BY <1>5 DEF FInv, EarlierHaveMore
<1> QED BY <1>3, <1>6, <1>7, <1>9, <1>10 DEF FInv

LEMMA PointerFrames ==
  ASSUME FInv, NEW c \in Callers, WritePointer(c), Taking' <=> Taking,
         pc'[c] = "idle", \A d \in Callers : d # c => pc'[d] = pc[d]
  PROVE  FInv'
<1> DEFINE x == Pointer(message[c])
<1>1. /\ pc[c] = "pointer" /\ writing' = FALSE /\ written' = written /\ clients' = clients
      /\ message' = [message EXCEPT ![c] = 0] /\ pipe' = Append(pipe, x) /\ rushed' = rushed
  BY DEF WritePointer, loopVars
<1>2. /\ written \in Nat /\ message \in [Callers -> Nat] /\ message[c] = written
      /\ written > 0 /\ \A d \in Callers : d # c => pc[d] \notin Holding
  <2>1. pc[c] \in Holding
    BY <1>1 DEF Holding
  <2> QED BY <1>1, <2>1 DEF FInv, WriterHolds, Holds
<1>3. x \in Items /\ IsPointer(x) /\ ~Announces(x) /\ x.pointer = written
  BY <1>2, ItemKinds DEF Items
<1> HIDE DEF x
<1>4. /\ pipe' \in Seq(Items) /\ Len(pipe) \in Nat
      /\ Len(pipe') = Len(pipe) + 1 /\ pipe'[Len(pipe) + 1] = x
      /\ \A n \in 1..Len(pipe) : pipe'[n] = pipe[n]
  BY <1>1, <1>3, PipeGrows
<1>5. Complete' = written /\ Complete = written - 1 /\ Halfwritten /\ ~Halfwritten'
  <2>1. /\ Halfwritten <=> pc[c] = "pointer"
        /\ Halfwritten' <=> pc'[c] = "pointer"
        /\ Complete = IF pc[c] \in {"length", "pointer"} THEN written - 1 ELSE written
        /\ Complete' = IF pc'[c] \in {"length", "pointer"} THEN written' - 1 ELSE written'
    BY <1>2, Sole
  <2> QED BY <1>1, <2>1
<1>6. WriterHolds'
  <2>1. \A d \in Callers : pc'[d] \notin Holding /\ pc'[d] \notin {"length", "pointer"}
    BY <1>2 DEF Holding
  <2>2. written' \in Nat /\ message' \in [Callers -> Nat]
    BY <1>1, <1>2
  <2> QED BY <2>1, <2>2 DEF WriterHolds, Holds
<1>7. ~rushed' => Framed'
  BY <1>1, <1>3, <1>5, FrameGrows DEF FInv
<1>9. PassedInOrder'
  <2> SUFFICES ASSUME NEW n \in 1..Len(pipe'), IsPointer(pipe'[n])
               PROVE  /\ pipe'[n].pointer \in 1..Complete'
                      /\ \A i \in 1..Len(clients) : clients[i] < pipe'[n].pointer
                      /\ \A m \in 1..(n - 1) : IsPointer(pipe'[m]) =>
                           pipe'[m].pointer < pipe'[n].pointer
    BY <1>1 DEF PassedInOrder
  <2>1. CASE n \in 1..Len(pipe)
    <3>1. /\ pipe[n].pointer \in 1..Complete
          /\ \A i \in 1..Len(clients) : clients[i] < pipe[n].pointer
          /\ \A m \in 1..(n - 1) : IsPointer(pipe[m]) => pipe[m].pointer < pipe[n].pointer
      BY <1>4, <2>1 DEF FInv, PassedInOrder
    <3>2. \A m \in 1..(n - 1) : pipe'[m] = pipe[m]
      BY <1>4, <2>1
    <3>3. pipe'[n] = pipe[n]
      BY <1>4, <2>1
    <3>4. pipe[n].pointer \in 1..written
      BY <1>2, <1>5, <3>1
    <3> QED BY <1>5, <3>1, <3>2, <3>3, <3>4
  <2>2. CASE n = Len(pipe) + 1
    <3>1. pipe'[n].pointer = written
      BY <1>3, <1>4, <2>2
    <3>2. \A i \in 1..Len(clients) : clients[i] < written
      <4>1. \A i \in 1..Len(clients) : clients[i] \in Int /\ clients[i] <= written - 1
        BY <1>5 DEF FInv, EarlierHaveMore, Gone
      <4> QED BY <1>2, <4>1
    <3>3. ASSUME NEW m \in 1..(n - 1), IsPointer(pipe'[m]) PROVE pipe'[m].pointer < written
      <4>1. m \in 1..Len(pipe) /\ pipe'[m] = pipe[m]
        BY <1>4, <2>2
      <4>2. pipe[m].pointer \in 1..Complete
        BY <3>3, <4>1 DEF FInv, PassedInOrder
      <4> QED BY <1>2, <1>5, <4>1, <4>2
    <3> QED BY <1>2, <1>5, <3>1, <3>2, <3>3
  <2> QED BY <1>4, <2>1, <2>2
<1>10. EarlierHaveMore'
  <2>1. \A i \in 1..Len(clients) : clients[i] \in Int /\ clients[i] <= written - 1
    BY <1>5 DEF FInv, EarlierHaveMore, Gone
  <2>2. \A i \in 1..Len(clients) : clients[i] <= written
    BY <1>2, <2>1
  <2> QED BY <1>1, <1>5, <2>2 DEF FInv, EarlierHaveMore
<1> QED BY <1>4, <1>6, <1>7, <1>9, <1>10 DEF FInv

LEMMA ReadFrames ==
  ASSUME FInv, HoldersStay, UNCHANGED <<written, writing, message, rushed>>,
         pipe # <<>>, pipe' = Tail(pipe), ~rushed => (Taking' <=> Announces(Head(pipe))),
         \/ clients' = clients
         \/ IsPointer(Head(pipe)) /\ clients' = GivenToAll(Head(pipe).pointer)
  PROVE  FInv'
<1>1. /\ pipe' \in Seq(Items) /\ Len(pipe) \in Nat \ {0}
      /\ Head(pipe) = pipe[1] /\ 1 \in 1..Len(pipe) /\ Len(pipe') = Len(pipe) - 1
      /\ \A n \in 1..Len(pipe') : n + 1 \in 1..Len(pipe) /\ pipe'[n] = pipe[n + 1]
  BY PipeShrinks
<1>2. /\ WriterHolds' /\ Complete' = Complete /\ Complete \in Nat
      /\ Halfwritten' <=> Halfwritten
  BY HoldersStayed
<1>3. clients \in Seq(Nat \cup {Gone})
  BY DEF FInv, EarlierHaveMore
<1>0. ~rushed' => Framed'
  BY <1>2, FrameShrinks DEF FInv
<1>4. ASSUME NEW n \in 1..Len(pipe'), IsPointer(pipe'[n])
      PROVE  /\ pipe'[n].pointer \in 1..Complete
             /\ \A i \in 1..Len(clients) : clients[i] < pipe'[n].pointer
             /\ IsPointer(pipe[1]) => pipe[1].pointer < pipe'[n].pointer
             /\ \A m \in 1..(n - 1) : IsPointer(pipe'[m]) =>
                  pipe'[m].pointer < pipe'[n].pointer
  <2>1. n + 1 \in 1..Len(pipe) /\ pipe'[n] = pipe[n + 1] /\ 1 \in 1..(n + 1) - 1
    BY <1>1
  <2>2. /\ pipe[n + 1].pointer \in 1..Complete
        /\ \A i \in 1..Len(clients) : clients[i] < pipe[n + 1].pointer
        /\ \A m \in 1..(n + 1) - 1 : IsPointer(pipe[m]) => pipe[m].pointer < pipe[n + 1].pointer
    BY <1>4, <2>1 DEF FInv, PassedInOrder
  <2>3. ASSUME NEW m \in 1..(n - 1), IsPointer(pipe'[m])
        PROVE  pipe'[m].pointer < pipe'[n].pointer
    <3>1. m \in 1..Len(pipe') /\ m + 1 \in 1..(n + 1) - 1 /\ pipe'[m] = pipe[m + 1]
      BY <1>1
    <3> QED BY <2>1, <2>2, <2>3, <3>1
  <2> QED BY <2>1, <2>2, <2>3
<1>5. CASE clients' = clients
  <2>1. PassedInOrder'
    BY <1>2, <1>4, <1>5 DEF PassedInOrder
  <2>2. EarlierHaveMore'
    BY <1>2, <1>5 DEF FInv, EarlierHaveMore
  <2> QED BY <1>0, <1>1, <1>2, <2>1, <2>2 DEF FInv
<1>6. CASE IsPointer(Head(pipe)) /\ clients' = GivenToAll(Head(pipe).pointer)
  <2> DEFINE p == pipe[1].pointer
  <2>1. IsPointer(pipe[1]) /\ p \in 1..Complete
    BY <1>1, <1>6 DEF FInv, PassedInOrder
  <2>2. clients' = [i \in DOMAIN clients |-> p]
    BY <1>1, <1>6 DEF GivenToAll
  <2> HIDE DEF p
  <2>3. p \in Nat /\ p <= Complete
    BY <1>2, <2>1
  <2>4. /\ clients' \in Seq(Nat \cup {Gone}) /\ Len(clients') = Len(clients)
        /\ \A i \in 1..Len(clients') : clients'[i] = p
    <3>1. DOMAIN clients = 1..Len(clients) /\ Len(clients) \in Nat
      BY <1>3
    <3> QED BY <2>2, <2>3, <3>1
  <2>5. PassedInOrder'
    <3>1. \A n \in 1..Len(pipe') : IsPointer(pipe'[n]) => p < pipe'[n].pointer
      BY <1>4, <2>1 DEF p
    <3>2. \A n \in 1..Len(pipe') : IsPointer(pipe'[n]) =>
            \A i \in 1..Len(clients') : clients'[i] < pipe'[n].pointer
      BY <2>4, <3>1
    <3> QED BY <1>2, <1>4, <3>2 DEF PassedInOrder
  <2>6. EarlierHaveMore'
    BY <1>2, <2>3, <2>4 DEF EarlierHaveMore
  <2> QED BY <1>0, <1>1, <1>2, <2>5, <2>6 DEF FInv
<1> QED BY <1>5, <1>6

(* What the loop does to its clients between reads of the pair: some die, *)
(* the dead are taken out, and one may come.                               *)
Lost(cs) ==
  /\ cs \in Seq(Nat \cup {Gone})
  /\ \A k, n \in 1..Len(cs) : k < n /\ cs[k] # Gone /\ cs[n] # Gone => cs[k] >= cs[n]
  /\ \A i \in 1..Len(cs) : cs[i] \in {Gone, 0} \/ \E k \in 1..Len(clients) : cs[i] = clients[k]

LEMMA Simple == FInv => Lost(clients) /\ Lost(<<>>) /\ Lost(<<0>>)
<1> SUFFICES ASSUME FInv PROVE Lost(clients) /\ Lost(<<>>) /\ Lost(<<0>>)
  OBVIOUS
<1>1. Lost(clients)
  BY DEF FInv, EarlierHaveMore, Lost
<1>2. Lost(<<>>)
  BY DEF Lost
<1>3. Lost(<<0>>)
  <2>1. <<0>> \in Seq(Nat \cup {Gone}) /\ Len(<<0>>) = 1 /\ <<0>>[1] = 0
    OBVIOUS
  <2>2. \A i \in 1..Len(<<0>>) : i = 1
    BY <2>1
  <2> QED BY <2>1, <2>2 DEF Lost
<1> QED BY <1>1, <1>2, <1>3

LEMMA Buried ==
  ASSUME FInv, NEW dead,
         clients' = [i \in DOMAIN clients |-> IF i \in dead THEN Gone ELSE clients[i]]
  PROVE  Lost(clients')
<1>1. /\ clients \in Seq(Nat \cup {Gone}) /\ DOMAIN clients = 1..Len(clients) /\ Len(clients) \in Nat
      /\ \A k, n \in 1..Len(clients) :
           k < n /\ clients[k] # Gone /\ clients[n] # Gone => clients[k] >= clients[n]
  BY DEF FInv, EarlierHaveMore
<1>2. /\ clients' \in Seq(Nat \cup {Gone}) /\ Len(clients') = Len(clients)
      /\ \A i \in 1..Len(clients) : clients'[i] = IF i \in dead THEN Gone ELSE clients[i]
  BY <1>1
<1> QED BY <1>1, <1>2 DEF Lost

LEMMA Served ==
  ASSUME FInv, NEW l \in Loops, Serve(l)
  PROVE  Lost(clients')
<1> DEFINE s == Compact(clients)
<1>1. clients' = s \/ clients' = Append(s, 0)
  BY DEF Serve
<1>2. Halfway(s, clients)
  <2>1. Halfway(clients, clients)
    BY DEF FInv, EarlierHaveMore, Halfway
  <2> QED BY <2>1, Compacted
<1> HIDE DEF s
<1>3. CASE clients' = s
  BY <1>2, <1>3 DEF Halfway, Lost
<1>4. CASE clients' = Append(s, 0)
  <2>1. /\ clients' \in Seq(Nat \cup {Gone}) /\ Len(clients') = Len(s) + 1 /\ Len(s) \in Nat
        /\ clients'[Len(s) + 1] = 0
        /\ \A k \in 1..Len(s) : clients'[k] = s[k] /\ s[k] \in Nat \cup {Gone}
    BY <1>2, <1>4 DEF Halfway
  <2>2. \A k \in 1..Len(clients') : k \in 1..Len(s) \/ k = Len(s) + 1
    BY <2>1
  <2>3. ASSUME NEW k \in 1..Len(clients'), NEW n \in 1..Len(clients'), k < n,
               clients'[k] # Gone, clients'[n] # Gone
        PROVE  clients'[k] >= clients'[n]
    <3>1. k \in 1..Len(s)
      BY <2>1, <2>3
    <3>2. CASE n \in 1..Len(s)
      BY <1>2, <2>1, <2>3, <3>1, <3>2 DEF Halfway
    <3>3. CASE n = Len(s) + 1
      <4>1. clients'[k] \in Nat /\ clients'[n] = 0
        BY <2>1, <2>3, <3>1, <3>3
      <4> QED BY <4>1
    <3> QED BY <2>2, <3>2, <3>3
  <2>4. \A i \in 1..Len(clients') :
          clients'[i] \in {Gone, 0} \/ \E k \in 1..Len(clients) : clients'[i] = clients[k]
    BY <1>2, <2>1, <2>2 DEF Halfway
  <2> QED BY <2>1, <2>3, <2>4 DEF Lost
<1> QED BY <1>1, <1>3, <1>4

LEMMA FramesStep ==
  ASSUME IInv, FInv, [Next]_vars
  PROVE  FInv'
<1> DEFINE Still == UNCHANGED <<pipe, written, writing, message>> /\ (~rushed' => ~rushed)
<1>1. /\ pc \in [Callers \cup Loops -> CallerPlaces \cup LoopPlaces]
      /\ next \in [Callers -> {"idle", "send"}]
      /\ ~rushed => \A k, l \in Loops : Alive(k) /\ Alive(l) => k = l
  BY DEF IInv, PlacesOK, AliveAlone
<1>2. Lost(clients) /\ Lost(<<>>) /\ Lost(<<0>>)
  BY Simple
<1>3. Still /\ Lost(clients') /\ HoldersStay /\ (Taking' <=> Taking) => FInv'
  BY Beside DEF Lost
(* What a caller does leaves the loops where they are, *)
<1>4. ASSUME NEW c \in Callers, NEW p, pc' = [pc EXCEPT ![c] = p]
      PROVE  /\ Taking' <=> Taking
             /\ pc[c] \notin Holding /\ p \notin Holding => HoldersStay
             /\ pc'[c] = p /\ \A d \in Callers : d # c => pc'[d] = pc[d]
  BY <1>1, <1>4, Apart DEF Taking, HoldersStay
(* and a loop where the callers are.                                       *)
<1>5. ASSUME NEW l \in Loops, NEW p, pc' = [pc EXCEPT ![l] = p]
      PROVE  /\ pc[l] # "take" /\ p # "take" => (Taking' <=> Taking)
             /\ HoldersStay
             /\ pc'[l] = p /\ \A k \in Loops : k # l => pc'[k] = pc[k]
  BY <1>1, <1>5, Apart DEF Taking, HoldersStay
<1>6. ASSUME NEW c \in Callers, Call(c) PROVE FInv'
  <2>1. CASE Start(c) \/ WriteRestarts(c)
    <3>1. /\ Still /\ clients' \in {clients, <<0>>} /\ pc[c] \notin Holding
          /\ \E p \in {"idle", "claim"} : pc' = [pc EXCEPT ![c] = p]
      BY <2>1 DEF Start, WriteRestarts, Returned, StartSocket, Goto, Connected, writeVars, Holding
    <3> QED BY <1>2, <1>3, <1>4, <3>1 DEF Holding
  <2>2. CASE Claim(c)
    <3>1. /\ Still /\ clients' = clients /\ pc[c] \notin Holding
          /\ \E p \in {"idle", "send", "create"} : pc' = [pc EXCEPT ![c] = p]
      BY <1>1, <2>2 DEF Claim, StartReturns, Goto, writeVars, loopVars, Holding
    <3> QED BY <1>2, <1>3, <1>4, <3>1 DEF Holding
  <2>3. CASE Create(c)
    <3>1. Still /\ clients' = clients
      BY <2>3 DEF Create, writeVars, loopVars
    <3>2. PICK l \in Loops :
            /\ pc[c] = "create" /\ pc[l] = "none"
            /\ pc' = [pc EXCEPT ![c] = next[c], ![l] = "starting"]
      BY <2>3 DEF Create
    <3>3. /\ pc'[c] \in {"idle", "send"} /\ pc'[l] = "starting"
          /\ \A p \in Callers \cup Loops : p \notin {c, l} => pc'[p] = pc[p]
      BY <1>1, <3>2, Apart
    <3>4. HoldersStay
      <4>1. ASSUME NEW d \in Callers, pc[d] \in Holding \/ pc'[d] \in Holding PROVE pc'[d] = pc[d]
        <5>1. d # l
          BY Apart
        <5>2. d # c
          BY <3>2, <3>3, <4>1 DEF Holding
        <5> QED BY <3>3, <5>1, <5>2
      <4> QED BY <4>1 DEF HoldersStay
    <3>5. Taking' <=> Taking
      BY <3>2, <3>3, Apart DEF Taking
    <3> QED BY <1>2, <1>3, <3>1, <3>4, <3>5
  <2>4. CASE CreateFails(c)
    <3>1. /\ Still /\ clients' \in {clients, <<>>} /\ pc' = [pc EXCEPT ![c] = "idle"]
          /\ pc[c] \notin Holding
      BY <2>4 DEF CreateFails, Goto, writeVars, Holding
    <3> QED BY <1>2, <1>3, <1>4, <3>1 DEF Holding
  <2>5. CASE Stop(c)
    <3>1. CASE ~stopped /\ running
      <4>1. /\ ~writing /\ writing' = TRUE
            /\ UNCHANGED <<pipe, clients, rushed, written, message>>
            /\ pc' = [pc EXCEPT ![c] = "wake"]
        BY <2>5, <3>1 DEF Stop, Goto, loopVars
      <4> QED BY <1>4, <4>1, MutexTaken
    <3>2. CASE ~(~stopped /\ running)
      <4>1. /\ Still /\ clients' = clients /\ pc[c] \notin Holding
            /\ pc' = [pc EXCEPT ![c] = "halted"]
        BY <2>5, <3>2 DEF Stop, Goto, Returned, loopVars, Holding
      <4> QED BY <1>2, <1>3, <1>4, <4>1 DEF Holding
    <3> QED BY <3>1, <3>2
  <2>6. CASE Write(c) \/ WriteRefused(c) \/ WriteAccepted(c) \/ BeginJoin(c) \/ Join(c)
    <3>1. /\ Still /\ clients' = clients /\ pc[c] \notin Holding
          /\ \E p \in {"idle", "halted", "retry", "send", "lock", "join"} :
               pc' = [pc EXCEPT ![c] = p]
      BY <2>6 DEF Write, WriteRefused, WriteAccepted, BeginJoin, Join, Returned, Goto,
         writeVars, loopVars, Holding
    <3> QED BY <1>2, <1>3, <1>4, <3>1 DEF Holding
  <2>7. CASE LockWrite(c)
    <3>1. /\ ~writing /\ writing' = TRUE /\ UNCHANGED <<pipe, clients, rushed>>
          /\ written' = written + 1 /\ message' = [message EXCEPT ![c] = written']
          /\ pc' = [pc EXCEPT ![c] = "length"]
      BY <2>7 DEF LockWrite, MutexFree, Goto, loopVars
    <3> QED BY <1>4, <3>1, MutexTaken
  <2>8. CASE WakeLoop(c) \/ WriteLength(c)
    <3>1. /\ UNCHANGED <<clients, written, message, rushed>>
          /\ \/ /\ pc[c] = "wake" /\ pc' = [pc EXCEPT ![c] = "unlocked"]
                /\ pipe' = Append(pipe, Wakeup) /\ writing' = FALSE
             \/ /\ pc[c] = "length" /\ pc' = [pc EXCEPT ![c] = "pointer"]
                /\ pipe' = Append(pipe, Length(message[c])) /\ writing' = writing
      BY <2>8 DEF WakeLoop, WriteLength, Goto, writeVars, loopVars
    <3> QED BY <1>4, <3>1, NumberFrames
  <2>9. CASE WritePointer(c)
    <3>1. pc' = [pc EXCEPT ![c] = "idle"]
      BY <2>9 DEF WritePointer, Goto
    <3> QED BY <1>4, <2>9, <3>1, PointerFrames
  <2> QED BY <1>6, <2>1, <2>2, <2>3, <2>4, <2>5, <2>6, <2>7, <2>8, <2>9 DEF Call, Continue
<1>7. ASSUME NEW l \in Loops, Run(l) \/ OtherEvent(l) PROVE FInv'
  <2>1. CASE Begin(l) \/ Top(l) \/ Ending(l) \/ EndDead(l) \/ OtherEvent(l)
    <3>1. /\ Still /\ clients' = clients /\ pc[l] # "take"
          /\ \E p \in {"top", "connect", "ending", "ended", "net"} : pc' = [pc EXCEPT ![l] = p]
      BY <2>1 DEF Begin, Top, Ending, EndDead, OtherEvent, Goto, writeVars, loopVars
    <3> QED BY <1>2, <1>3, <1>5, <3>1
  <2>2. CASE Reconnect(l)
    <3>1. /\ Still /\ clients' \in {clients, <<0>>} /\ pc[l] # "take"
          /\ pc' = [pc EXCEPT ![l] = "poll"]
      BY <2>2 DEF Reconnect, Goto, Connected, writeVars
    <3> QED BY <1>2, <1>3, <1>5, <3>1
  <2>3. CASE Offline(l) \/ Stay(l) \/ Die(l)
    <3>1. /\ Still /\ clients' \in {clients, <<>>} /\ pc[l] # "take"
          /\ \E p \in {"top", "dying"} : pc' = [pc EXCEPT ![l] = p]
      BY <2>3 DEF Offline, Stay, Die, ToTop, Goto, writeVars
    <3> QED BY <1>2, <1>3, <1>5, <3>1
  <2>4. CASE Bury(l)
    <3>1. /\ Still /\ pc[l] # "take" /\ pc' = [pc EXCEPT ![l] = "compact"]
          /\ \E dead \in SUBSET (DOMAIN clients) :
               clients' = [i \in DOMAIN clients |-> IF i \in dead THEN Gone ELSE clients[i]]
      BY <2>4 DEF Bury, Goto, writeVars
    <3>2. Lost(clients')
      BY <3>1, Buried
    <3> QED BY <1>3, <1>5, <3>1, <3>2
  <2>5. CASE Serve(l)
    <3>1. Still /\ pc[l] # "take" /\ pc' = [pc EXCEPT ![l] = "top"]
      BY <2>5 DEF Serve, ToTop, Goto, writeVars
    <3>2. Lost(clients')
      BY <2>5, Served
    <3> QED BY <1>3, <1>5, <3>1, <3>2
  <2>6. CASE ReadLength(l)
    <3>1. /\ pc[l] = "poll" /\ pipe # <<>> /\ pipe' = Tail(pipe)
          /\ UNCHANGED <<written, writing, message, rushed, clients>>
          /\ pc' = [pc EXCEPT ![l] = IF Head(pipe) = Wakeup THEN "net" ELSE "take"]
      BY <2>6 DEF ReadLength, Goto, writeVars, loopVars
    <3>2. ASSUME ~rushed PROVE Taking' <=> Announces(Head(pipe))
      <4>1. ~Taking
        BY <1>1, <3>1, <3>2 DEF Taking, Alive
      <4>2. ~IsPointer(Head(pipe))
        <5>1. 1 \in 1..Len(pipe) /\ Head(pipe) = pipe[1]
          BY <3>1, PipeShrinks
        <5> QED BY <3>2, <4>1, <5>1 DEF FInv, Framed
      <4>3. /\ pc'[l] = IF Head(pipe) = Wakeup THEN "net" ELSE "take"
            /\ \A k \in Loops : k # l => pc'[k] = pc[k]
        BY <1>5, <3>1
      <4>4. Taking' <=> Head(pipe) # Wakeup
        BY <4>1, <4>3 DEF Taking
      <4> QED BY <4>2, <4>4 DEF Announces
    <3>3. HoldersStay
      BY <1>5, <3>1
    <3> QED BY <3>1, <3>2, <3>3, ReadFrames
  <2>7. CASE ReadPointer(l)
    <3>1. /\ pc[l] = "take" /\ pipe # <<>> /\ pipe' = Tail(pipe)
          /\ UNCHANGED <<written, writing, message, rushed>>
          /\ \/ clients' = clients
             \/ IsPointer(Head(pipe)) /\ clients' = GivenToAll(Head(pipe).pointer)
          /\ pc' = [pc EXCEPT ![l] = "net"]
      BY <2>7 DEF ReadPointer, Given, IsPointer, Goto, writeVars
    <3>2. ASSUME ~rushed PROVE Taking' <=> Announces(Head(pipe))
      <4>1. Taking
        BY <3>1 DEF Taking
      <4>2. IsPointer(Head(pipe))
        <5>1. 1 \in 1..Len(pipe) /\ Head(pipe) = pipe[1]
          BY <3>1, PipeShrinks
        <5> QED BY <3>2, <4>1, <5>1 DEF FInv, Framed
      <4>3. pc'[l] = "net" /\ \A k \in Loops : k # l => pc'[k] = pc[k]
        BY <1>5, <3>1
      <4>4. ~Taking'
        BY <1>1, <3>1, <3>2, <4>3 DEF Taking, Alive
      <4> QED BY <4>2, <4>4 DEF Announces
    <3>3. HoldersStay
      BY <1>5, <3>1
    <3> QED BY <3>1, <3>2, <3>3, ReadFrames
  <2> QED BY <1>7, <2>1, <2>2, <2>3, <2>4, <2>5, <2>6, <2>7 DEF Run
<1>8. CASE UNCHANGED vars
  <2>1. Still /\ clients' = clients /\ UNCHANGED pc
    BY <1>8 DEF vars, writeVars, loopVars
  <2>2. HoldersStay /\ (Taking' <=> Taking)
    BY <2>1 DEF Taking, HoldersStay
  <2> QED BY <1>2, <1>3, <2>1, <2>2
<1> QED BY <1>6, <1>7, <1>8 DEF Next

LEMMA FramesHold == Spec => [](IInv /\ FInv)
<1>1. IInv /\ FInv /\ [Next]_vars => (IInv /\ FInv)'
  BY StepKeeps, FramesStep
<1> QED BY InitHolds, InitFramed, <1>1, PTL DEF Spec

(* SocketAddress: a loop finds a length where it reads one and a pointer   *)
(* after it, and gives each client its messages in the order of the        *)
(* writes, none of them twice, for any number of writers and a pair of any *)
(* size that blocks them, as long as there is one loop.                    *)
THEOREM FramesAreKept == Spec => []FramesKept
<1>1. ASSUME IInv, FInv PROVE FramesKept
  <2> SUFFICES ASSUME ~rushed
               PROVE  /\ \A l \in Loops : pipe # <<>> =>
                           /\ pc[l] = "poll" => "length" \in DOMAIN Head(pipe)
                           /\ pc[l] = "take" => "pointer" \in DOMAIN Head(pipe)
                      /\ \A n \in DOMAIN pipe : "pointer" \in DOMAIN pipe[n] =>
                           /\ \A i \in DOMAIN clients : clients[i] < pipe[n].pointer
                           /\ \A m \in 1..(n - 1) :
                                "pointer" \in DOMAIN pipe[m] => pipe[m].pointer < pipe[n].pointer
    BY DEF FramesKept
  <2>1. /\ pipe \in Seq(Items) /\ DOMAIN pipe = 1..Len(pipe)
        /\ clients \in Seq(Nat \cup {Gone}) /\ DOMAIN clients = 1..Len(clients)
    BY <1>1 DEF FInv, EarlierHaveMore
  <2>2. ASSUME NEW l \in Loops, pipe # <<>>
        PROVE  /\ pc[l] = "poll" => "length" \in DOMAIN Head(pipe)
               /\ pc[l] = "take" => "pointer" \in DOMAIN Head(pipe)
    <3>1. 1 \in 1..Len(pipe) /\ Head(pipe) = pipe[1] /\ Head(pipe) \in Items
      BY <2>1, <2>2
    <3>2. IsPointer(Head(pipe)) <=> Taking
      BY <1>1, <3>1 DEF FInv, Framed
    <3>3. pc[l] = "poll" => ~Taking
      BY <1>1 DEF IInv, AliveAlone, Taking, Alive
    <3>4. pc[l] = "take" => Taking
      BY DEF Taking
    <3> QED BY <3>1, <3>2, <3>3, <3>4, ItemKinds DEF IsPointer
  <2>3. ASSUME NEW n \in 1..Len(pipe), "pointer" \in DOMAIN pipe[n]
        PROVE  /\ \A i \in 1..Len(clients) : clients[i] < pipe[n].pointer
               /\ \A m \in 1..(n - 1) :
                    "pointer" \in DOMAIN pipe[m] => pipe[m].pointer < pipe[n].pointer
    BY <1>1, <2>3 DEF FInv, PassedInOrder, IsPointer
  <2> QED BY <2>1, <2>2, <2>3
<1> QED BY <1>1, FramesHold, PTL

(* SocketAddress::runEventLoop: no client that lives is passed over, and   *)
(* the compaction of m_Clients keeps the order of those it leaves, however *)
(* many die in one round.                                                  *)
THEOREM ClientsAreServed == Spec => []ClientsServed
<1>1. FInv => ClientsServed
  <2> SUFFICES ASSUME FInv, NEW i \in DOMAIN clients, NEW k \in 1..(i - 1)
               PROVE  Gone \in {clients[k], clients[i]} \/ clients[k] >= clients[i]
    BY DEF ClientsServed
  <2>1. i \in 1..Len(clients) /\ Len(clients) \in Nat
    BY DEF FInv, EarlierHaveMore
  <2>2. k \in 1..Len(clients) /\ k < i
    BY <2>1
  <2> QED BY <2>1, <2>2 DEF FInv, EarlierHaveMore
<1> QED BY <1>1, FramesHold, PTL
=============================================================================
