-------------------------- MODULE SyncronizerProofs --------------------------
(***************************************************************************)
(* Theorems about a Syncronizer with any number of inputs, over slots of   *)
(* any size, in any wiring and with any setting of storing.                *)
(*                                                                         *)
(* That a set has one time throughout rests on what a reply without flags  *)
(* says, whatever the slot holds.  The order of the sets rests on the      *)
(* order of PendingDataList, which every trigger leaves from the front.    *)
(* Why a trigger is given up rests on the ring: a reader is told that its  *)
(* time is too old only when every cell is later.                          *)
(***************************************************************************)
EXTENDS Syncronizer, TLAPS, WellFoundedInduction, SequenceTheorems

(* A reply without flags to a reader of time t is data of that very time,  *)
(* wherever the walk back through the history ended.                       *)
LEMMA NoFlagsSaysExact ==
  ASSUME NEW s, NEW t \in Nat \ {0}, NEW h, NEW l, ReadFrom(s, t, 0, h, l).code = {}
  PROVE  ReadFrom(s, t, 0, h, l).ids # <<>> /\ ReadFrom(s, t, 0, h, l).time = t
<1>1. /\ NoMore # {} /\ TooOld # {} /\ Future # {} /\ {"TIMESTAMP_ERROR"} # {}
      /\ \A c, p : Give(c, p, 0).code = c /\ Give(c, p, 0).time = p.time
                   /\ Give(c, p, 0).ids # <<>>
      /\ Reply(NoMore, <<>>, 0, 0).code = NoMore
  BY DEF NoMore, TooOld, Future, Give, Reply
<1>2. LET b == ReadBetween(s, t, h, l)
      IN  b.code = {} => b.ids # <<>> /\ b.time = t
  BY DEF ReadBetween, Reply, NoMore
<1>3. \/ ReadFrom(s, t, 0, h, l).code # {}
      \/ /\ s.hist[Back(s, h)].time = t
         /\ ReadFrom(s, t, 0, h, l) = Give({}, s.hist[Back(s, h)], 0)
      \/ ReadFrom(s, t, 0, h, l) = ReadBetween(s, t, h, l)
  BY <1>1 DEF ReadFrom
<1> QED
  BY <1>1, <1>2, <1>3

LEMMA ReadIsExact ==
  ASSUME NEW s, NEW t \in Nat \ {0}, RingRead(s, t, 0).code = {}
  PROVE  RingRead(s, t, 0).ids # <<>> /\ RingRead(s, t, 0).time = t
<1> DEFINE h == Walk(s, 0, LAMBDA p : p.time <= t)
           l == IF s.hist[Back(s, h)].time = t THEN Walk(s, h, LAMBDA p : p.time # t) ELSE h
<1>1. RingRead(s, t, 0) = ReadFrom(s, t, 0, h, l)
  BY DEF RingRead
<1> HIDE DEF h, l
<1> QED
  BY <1>1, NoFlagsSaysExact

(* Inputs are read in order until one ends the reading: if none of those   *)
(* that were read did, all were read.                                      *)
LEMMA AllAreRead ==
  ASSUME NEW answers, NEW port,
         \A i \in Inputs : IsRead(i, answers, port) => answers[i].code = {}
  PROVE  \A i \in Inputs \ {port} : IsRead(i, answers, port)
<1> DEFINE T == {j \in Inputs \ {port} : Ends(answers[j])}
           R == OpToRel(<, Nat)
<1>1. T = {}
  <2> SUFFICES ASSUME T # {} PROVE FALSE
    OBVIOUS
  <2>1. T \subseteq Nat /\ Inputs \subseteq Nat
    BY SyncAssumption DEF Inputs
  <2>2. PICK j \in T : \A k \in T : ~(<<k, j>> \in R)
    <3> HIDE DEF T, R
    <3> QED BY <2>1, WFMin, NatLessThanWellFounded DEF R
  <2>3. \A k \in T : ~(k < j)
    BY <2>1, <2>2 DEF OpToRel
  <2>4. \A k \in 0 .. j - 1 : k \in Inputs
    BY <2>1, SyncAssumption DEF Inputs
  <2>5. IsRead(j, answers, port)
    BY <2>1, <2>3, <2>4 DEF IsRead
  <2> QED BY <2>5 DEF Ends
<1>2. ASSUME NEW i \in Inputs \ {port} PROVE IsRead(i, answers, port)
  <2>1. \A j \in 0 .. i - 1 : j \in Inputs
    BY SyncAssumption DEF Inputs
  <2> QED BY <1>1, <2>1 DEF IsRead
<1> QED BY <1>2

(* If the inputs report nothing, all of them have the trigger's time. *)
LEMMA InputsInStep ==
  ASSUME NEW t \in Nat \ {0}, NEW port, GetInputs(t, port, Answers(t)).code = {}
  PROVE  \A i \in Inputs : GetInputs(t, port, Answers(t)).data[i] = t
<1> DEFINE answers == Answers(t)
           read == {i \in Inputs : IsRead(i, answers, port)}
<1>1. \A i \in read : answers[i].code = {}
  BY DEF GetInputs
<1>2. \A i \in Inputs \ {port} : i \in read
  BY <1>1, AllAreRead
<1>3. ASSUME NEW i \in Inputs, i # port PROVE answers[i].time = t
  <2>1. answers[i] = PullData(i, t) /\ PullData(i, t).code = {}
    BY <1>1, <1>2, <1>3 DEF Answers
  <2>2. i \in pulls
    BY <2>1 DEF PullData
  <2>3. CASE i \in kept
    BY <2>1, <2>2, <2>3 DEF PullData, ReadKept
  <2>4. CASE i \notin kept
    <3>1. PullData(i, t) = ReadSlot(i, t)
      BY <2>2, <2>4 DEF PullData
    <3>2. RingRead(slot[i], t, 0).code = {}
      BY <2>1, <3>1 DEF ReadSlot
    <3> QED BY <2>1, <3>1, <3>2, ReadIsExact DEF ReadSlot
  <2> QED BY <2>3, <2>4
<1> QED BY <1>2, <1>3 DEF GetInputs
-----------------------------------------------------------------------------
(* The list of triggers that wait *)

Trigger == [id : Nat, time : Nat \ {0}, port : Int]

(* b was written after a. *)
After(a, b) == a.id < b.id /\ a.time <= b.time

Sorted(s) == \A i, j \in 1 .. Len(s) : i < j => After(s[i], s[j])

(* What follows the first trigger of the list came after it. *)
LEMMA TailSorted ==
  ASSUME NEW s \in Seq(Trigger), s # <<>>, Sorted(s)
  PROVE  /\ Head(s) \in Trigger /\ Tail(s) \in Seq(Trigger) /\ Sorted(Tail(s))
         /\ Head(s) = s[1] /\ 1 \in 1 .. Len(s)
         /\ \A i \in 1 .. Len(Tail(s)) : Tail(s)[i] = s[i + 1] /\ i + 1 \in 1 .. Len(s)
         /\ \A i \in 1 .. Len(Tail(s)) : After(Head(s), Tail(s)[i])
<1>1. /\ Head(s) \in Trigger /\ Tail(s) \in Seq(Trigger)
      /\ Len(Tail(s)) = Len(s) - 1
      /\ \A i \in 1 .. Len(Tail(s)) : Tail(s)[i] = s[i + 1]
  BY HeadTailProperties
<1>2. Len(s) \in Nat \ {0} /\ Head(s) = s[1]
  OBVIOUS
<1>3. \A i \in 1 .. Len(Tail(s)) : i + 1 \in 1 .. Len(s) /\ 1 < i + 1
  BY <1>1, <1>2
<1>4. \A i, j \in 1 .. Len(Tail(s)) : i < j => i + 1 < j + 1
  BY <1>1, <1>2
<1> QED BY <1>1, <1>2, <1>3, <1>4 DEF Sorted

(* A trigger that came last goes to the end, and perhaps the first goes. *)
LEMMA StoredSorted ==
  ASSUME NEW s \in Seq(Trigger), Sorted(s), NEW x \in Trigger,
         \A i \in 1 .. Len(s) : After(s[i], x)
  PROVE  /\ Stored(s, x) \in Seq(Trigger) /\ Sorted(Stored(s, x))
         /\ \A i \in 1 .. Len(Stored(s, x)) :
              \/ Stored(s, x)[i] = x
              \/ \E k \in 1 .. Len(s) : Stored(s, x)[i] = s[k]
<1> DEFINE a == Append(s, x)
<1>1. /\ a \in Seq(Trigger) /\ a # <<>> /\ Len(a) = Len(s) + 1
      /\ \A i \in 1 .. Len(s) : a[i] = s[i]
      /\ a[Len(s) + 1] = x
  BY AppendProperties
<1>2. Len(s) \in Nat
  OBVIOUS
<1>3. \A i \in 1 .. Len(a) : i \in 1 .. Len(s) \/ i = Len(s) + 1
  BY <1>1, <1>2
<1> HIDE DEF a
<1>4. Sorted(a)
  <2> SUFFICES ASSUME NEW i \in 1 .. Len(a), NEW j \in 1 .. Len(a), i < j
               PROVE  After(a[i], a[j])
    BY DEF Sorted
  <2>1. i \in 1 .. Len(s)
    BY <1>1, <1>2
  <2>2. CASE j \in 1 .. Len(s) BY <1>1, <2>1, <2>2 DEF Sorted
  <2>3. CASE j = Len(s) + 1 BY <1>1, <2>1, <2>3
  <2> QED BY <1>3, <2>2, <2>3
<1>5. Stored(s, x) = a \/ Stored(s, x) = Tail(a)
  BY DEF Stored, a
<1>6. \A i \in 1 .. Len(a) : a[i] = x \/ \E k \in 1 .. Len(s) : a[i] = s[k]
  BY <1>1, <1>3
<1>7. /\ Tail(a) \in Seq(Trigger) /\ Sorted(Tail(a))
      /\ \A i \in 1 .. Len(Tail(a)) : Tail(a)[i] = a[i + 1] /\ i + 1 \in 1 .. Len(a)
  BY <1>1, <1>4, TailSorted
<1>8. CASE Stored(s, x) = a
  BY <1>1, <1>4, <1>6, <1>8
<1>9. CASE Stored(s, x) = Tail(a)
  <2>1. \A i \in 1 .. Len(Tail(a)) :
          Tail(a)[i] = x \/ \E k \in 1 .. Len(s) : Tail(a)[i] = s[k]
    BY <1>6, <1>7
  <2> QED BY <1>7, <1>9, <2>1
<1> QED BY <1>5, <1>8, <1>9
-----------------------------------------------------------------------------
(* The inductive invariant *)

TypeOK ==
  /\ config \in Config
  /\ pending \in Seq(Trigger)
  /\ lastTime \in Nat /\ written \in Nat
  /\ pc \in {"idle", "loop"}
  /\ trig \in Trigger \cup {NoTrigger}
  /\ pushed.id \in Nat /\ pushed.time \in Nat

(* t has been written, and after the last trigger that a set went out for. *)
Due(t) == After(pushed, t) /\ t.id <= written /\ t.time <= lastTime

(* The list is in order of arrival and holds nothing that went out.  One   *)
(* that is not stored is tried once, and write returns.                    *)
InLine ==
  /\ Sorted(pending) /\ \A i \in 1 .. Len(pending) : Due(pending[i])
  /\ pushed.id <= written /\ pushed.time <= lastTime
  /\ ~config.store => pending = <<>>
  /\ ~config.store /\ pc = "loop" => trig \in Trigger /\ Due(trig)

IInv == TypeOK /\ InLine /\ OutputsInStep

LEMMA InitHolds == SyncInit => IInv
<1> SUFFICES ASSUME SyncInit PROVE IInv
  OBVIOUS
<1>1. config \in Config /\ pending = <<>> /\ Len(pending) = 0
  BY SyncAssumption DEF SyncInit
<1>2. TypeOK
  BY <1>1 DEF SyncInit, TypeOK, NoSet
<1>3. InLine
  BY <1>1 DEF SyncInit, InLine, Sorted, NoSet
<1>4. OutputsInStep
  BY DEF SyncInit, OutputsInStep, NoSet
<1> QED BY <1>2, <1>3, <1>4 DEF IInv

(* What a pass of the loop looks at. *)
LEMMA CurrentIsDue ==
  ASSUME IInv, Trying
  PROVE  /\ Current.id \in Nat /\ Current.time \in Nat \ {0} /\ Due(Current)
         /\ Dropped \in Seq(Trigger) /\ Sorted(Dropped)
         /\ \A i \in 1 .. Len(Dropped) : Due(Dropped[i]) /\ After(Current, Dropped[i])
         /\ ~config.store => Dropped = <<>>
<1>1. CASE config.store
  <2>1. pending # <<>>
    BY <1>1 DEF Trying
  <2>2. Current = Head(pending) /\ Dropped = Tail(pending)
    BY <1>1 DEF Current, Dropped
  <2>3. /\ Head(pending) \in Trigger /\ Tail(pending) \in Seq(Trigger)
        /\ Sorted(Tail(pending))
        /\ Head(pending) = pending[1] /\ 1 \in 1 .. Len(pending)
        /\ \A i \in 1 .. Len(Tail(pending)) :
             Tail(pending)[i] = pending[i + 1] /\ i + 1 \in 1 .. Len(pending)
        /\ \A i \in 1 .. Len(Tail(pending)) : After(Head(pending), Tail(pending)[i])
    BY <2>1, TailSorted DEF IInv, TypeOK, InLine
  <2>4. Due(Head(pending)) /\ \A i \in 1 .. Len(Tail(pending)) : Due(Tail(pending)[i])
    BY <2>3 DEF IInv, InLine
  <2> QED BY <1>1, <2>2, <2>3, <2>4 DEF Trigger
<1>2. CASE ~config.store
  <2>1. Dropped = <<>> /\ Current = [trig EXCEPT !.port = -1]
    BY <1>2 DEF Dropped, Current, IInv, InLine
  <2>2. trig \in Trigger /\ Due(trig)
    BY <1>2 DEF Trying, IInv, InLine
  <2>3. Current.id = trig.id /\ Current.time = trig.time
    BY <2>1, <2>2 DEF Trigger
  <2> QED BY <2>1, <2>2, <2>3 DEF Trigger, Due, After, Sorted
<1> QED BY <1>1, <1>2

(* A trigger that is accepted comes after all others. *)
LEMMA AcceptKeeps ==
  ASSUME IInv, NEW t \in 1 .. MaxTime, NEW port \in Triggers, Accept(t, port)
  PROVE  IInv'
<1>1. /\ trig' = [id |-> written + 1, time |-> t, port |-> port] /\ port \in Int
      /\ trig' \in Trigger /\ trig'.id = written + 1 /\ trig'.time = t
  <2>1. port \in Int
    BY SyncAssumption DEF Inputs
  <2>2. written + 1 \in Nat /\ t \in Nat \ {0}
    BY SyncAssumption DEF IInv, TypeOK
  <2>3. trig' = [id |-> written + 1, time |-> t, port |-> port]
    BY DEF Accept
  <2> QED BY <2>1, <2>2, <2>3 DEF Trigger
<1>2. /\ written' = written + 1 /\ lastTime' = t /\ t >= lastTime /\ pc' = "loop"
      /\ config' = config /\ pushed' = pushed
      /\ lastTime \in Nat /\ written \in Nat /\ t \in Nat
  BY SyncAssumption DEF Accept, IInv, TypeOK
<1>3. After(pushed, trig') /\ pushed.id <= written' /\ pushed.time <= lastTime'
  BY <1>1, <1>2 DEF After, IInv, InLine, TypeOK
<1>4. \A x \in Trigger : Due(x) => After(x, trig') /\ x.id <= written' /\ x.time <= lastTime'
  BY <1>1, <1>2 DEF Trigger, Due, After
<1>5. \A i \in 1 .. Len(pending) : pending[i] \in Trigger /\ Due(pending[i])
  BY ElementOfSeq DEF IInv, TypeOK, InLine
<1>6. /\ pending' \in Seq(Trigger) /\ Sorted(pending')
      /\ \A i \in 1 .. Len(pending') :
           pending'[i] = trig' \/ \E k \in 1 .. Len(pending) : pending'[i] = pending[k]
      /\ ~config.store => pending' = <<>>
  <2>1. CASE config.store
    <3>1. pending' = Stored(pending, trig')
      BY <2>1 DEF Accept
    <3> HIDE DEF Accept
    <3>2. pending \in Seq(Trigger) /\ Sorted(pending)
          /\ \A i \in 1 .. Len(pending) : After(pending[i], trig')
      BY <1>4, <1>5 DEF IInv, TypeOK, InLine
    <3> QED BY <2>1, <3>1, <3>2, <1>1, StoredSorted
  <2>2. CASE ~config.store
    BY <2>2 DEF Accept, IInv, TypeOK, InLine
  <2> QED BY <2>1, <2>2
<1>7. TypeOK'
  BY <1>1, <1>2, <1>6 DEF IInv, TypeOK
<1>8. Due(trig)'
  BY <1>1, <1>2, <1>3 DEF Due
<1>9. \A i \in 1 .. Len(pending') : Due(pending[i])'
  <2>1. \A x : x = trig' \/ (x \in Trigger /\ Due(x)) =>
          After(pushed, x) /\ x.id <= written' /\ x.time <= lastTime'
    BY <1>1, <1>2, <1>3, <1>4 DEF Due
  <2> QED BY <1>2, <1>5, <1>6, <2>1 DEF Due
<1>10. InLine'
  BY <1>1, <1>2, <1>3, <1>6, <1>8, <1>9 DEF InLine, Sorted
<1> QED BY <1>2, <1>7, <1>10 DEF IInv, OutputsInStep

(* A pass of the loop gives up the first trigger, or a set goes out for it *)
(* and all that wait came after it.                                        *)
LEMMA TryKeeps ==
  ASSUME IInv, Trying, Try
  PROVE  /\ IInv'
         /\ pushed' # pushed => pushed'.id > pushed.id /\ pushed'.time >= pushed.time
<1> DEFINE t == Current.time
           got == GetInputs(t, Current.port, Answers(t))
           code == r \cup got.code
<1>1. Skip(got, code) \/ CannotInterpolate(got, code) \/ Wait(got, code) \/ PushSet(got, code)
  BY DEF Try
<1>2. /\ t \in Nat \ {0} /\ Current.id \in Nat /\ Due(Current)
      /\ Dropped \in Seq(Trigger) /\ Sorted(Dropped)
      /\ \A i \in 1 .. Len(Dropped) : Due(Dropped[i]) /\ After(Current, Dropped[i])
      /\ ~config.store => Dropped = <<>>
  BY CurrentIsDue
<1> HIDE DEF got, code, t
<1>3. CASE pushed' = pushed
  <2>1. /\ pending' = Dropped \/ pending' = pending
        /\ \/ pc' = "idle" /\ trig' = NoTrigger
           \/ config.store /\ pc' = pc /\ trig' = trig
        /\ UNCHANGED <<config, lastTime, written>>
    BY <1>1, <1>3 DEF Skip, CannotInterpolate, Wait, PushSet, Done, NextPass
  <2>2. /\ pending' \in Seq(Trigger) /\ Sorted(pending')
        /\ \A i \in 1 .. Len(pending') : Due(pending'[i])
        /\ ~config.store => pending' = <<>>
    BY <1>2, <2>1 DEF IInv, TypeOK, InLine
  <2>3. TypeOK'
    BY <1>3, <2>1, <2>2 DEF IInv, TypeOK
  <2>4. InLine'
    BY <1>3, <2>1, <2>2 DEF IInv, InLine, Due, Sorted
  <2>5. OutputsInStep'
    BY <1>3 DEF IInv, OutputsInStep
  <2> QED BY <1>3, <2>3, <2>4, <2>5 DEF IInv
<1>4. CASE PushSet(got, code)
  <2>1. /\ pushed' = [id |-> Current.id, time |-> t, data |-> got.data]
        /\ pending' = Dropped
        /\ \/ pc' = "idle" /\ trig' = NoTrigger
           \/ config.store /\ pc' = pc /\ trig' = trig
        /\ UNCHANGED <<config, lastTime, written>>
    BY <1>4 DEF PushSet, Done, NextPass, t
  <2>2. /\ pushed'.id = Current.id /\ pushed'.time = t /\ pushed'.data = got.data
        /\ pushed'.id > pushed.id /\ pushed'.time >= pushed.time
        /\ pushed'.id <= written /\ pushed'.time <= lastTime
    BY <1>2, <2>1 DEF Due, After, IInv, TypeOK, t
  <2>3. TypeOK'
    BY <1>2, <2>1, <2>2 DEF IInv, TypeOK
  <2>4. \A i \in 1 .. Len(pending') : Due(pending[i])'
    BY <1>2, <2>1, <2>2 DEF Due, After, t
  <2>5. InLine'
    BY <1>2, <2>1, <2>2, <2>4 DEF IInv, InLine, Sorted
  <2>6. got.code = {}
    BY <1>4 DEF PushSet, code
  <2>7. \A i \in Inputs : got.data[i] = t
    BY <1>2, <2>6, InputsInStep DEF got
  <2>8. OutputsInStep'
    BY <2>2, <2>7 DEF OutputsInStep
  <2> QED BY <2>2, <2>3, <2>5, <2>8 DEF IInv
<1>5. CASE Skip(got, code)
  BY <1>3, <1>5 DEF Skip
<1>6. CASE CannotInterpolate(got, code)
  BY <1>3, <1>6 DEF CannotInterpolate
<1>7. CASE Wait(got, code)
  BY <1>3, <1>7 DEF Wait
<1> QED BY <1>1, <1>4, <1>5, <1>6, <1>7

LEMMA StepKeeps ==
  IInv /\ [SyncNext]_syncronizerVars =>
    IInv' /\ (pushed' # pushed => pushed'.id > pushed.id /\ pushed'.time >= pushed.time)
<1> SUFFICES ASSUME IInv, [SyncNext]_syncronizerVars
             PROVE  /\ IInv'
                    /\ pushed' # pushed =>
                         pushed'.id > pushed.id /\ pushed'.time >= pushed.time
  OBVIOUS
<1>1. ASSUME UNCHANGED syncVars, config' = config
      PROVE  IInv' /\ pushed' = pushed
  BY <1>1 DEF syncVars, IInv, TypeOK, InLine, Due, Sorted, OutputsInStep
<1>2. CASE \E i \in Inputs : SlotWrite(i) \/ SlotGone(i)
  BY <1>1, <1>2 DEF SlotWrite, SlotGone
<1>3. CASE Refuse
  BY <1>3 DEF Refuse, IInv, TypeOK, InLine, Due, Sorted, OutputsInStep
<1>4. CASE \E t \in 1 .. MaxTime, port \in Triggers : Accept(t, port)
  <2>1. pushed' = pushed
    BY <1>4 DEF Accept
  <2> QED BY <1>4, <2>1, AcceptKeeps
<1>5. CASE NothingPending
  BY <1>5 DEF NothingPending, Done, IInv, TypeOK, InLine, Due, Sorted, OutputsInStep
<1>6. CASE Trying /\ Try
  BY <1>6, TryKeeps
<1>7. CASE UNCHANGED syncronizerVars
  BY <1>1, <1>7 DEF syncronizerVars
<1> QED BY <1>2, <1>3, <1>4, <1>5, <1>6, <1>7 DEF SyncNext, Pass
-----------------------------------------------------------------------------
(* Syncronizer::write: whenever a set goes out, all its data have the time *)
(* of its trigger.                                                         *)
THEOREM SetsInStep == SyncSpec => []OutputsInStep
<1>1. IInv /\ [SyncNext]_syncronizerVars => IInv'
  BY StepKeeps
<1>2. IInv => OutputsInStep
  BY DEF IInv
<1> QED BY InitHolds, <1>1, <1>2, PTL DEF SyncSpec

(* Syncronizer::write: sets go out in the order of their triggers, and no  *)
(* trigger twice.                                                          *)
THEOREM SetsInOrder == SyncSpec => PushedInOrder
<1>1. IInv /\ [SyncNext]_syncronizerVars => IInv'
  BY StepKeeps
<1>2. IInv /\ [SyncNext]_syncronizerVars =>
        [pushed' # pushed => pushed'.id > pushed.id /\ pushed'.time >= pushed.time]_pushed
  BY StepKeeps
<1> QED BY InitHolds, <1>1, <1>2, PTL DEF SyncSpec, PushedInOrder
-----------------------------------------------------------------------------
(* A set of numbers that is not empty has a least member. *)
LEMMA LeastIn ==
  ASSUME NEW S \in SUBSET Nat, S # {}
  PROVE  \E n \in S : \A m \in S : n <= m
<1>1. PICK i \in S : \A j \in S : ~(<<j, i>> \in OpToRel(<, Nat))
  BY WFMin, NatLessThanWellFounded
<1>2. \A j \in S : ~(j < i)
  BY <1>1 DEF OpToRel
<1>3. \A j \in S : i <= j
  BY <1>2
<1> QED BY <1>3

(* How many writes ago a cell was written. *)
Age(s, c) == IF c <= s.last THEN s.last - c ELSE s.last + Size - c

(* A slot that was written in time order: the longer ago, the older; and   *)
(* cell 0 is the last to be written.                                       *)
Aged(s) ==
  /\ s.last \in Cell /\ s.num \in 0 .. Size
  /\ DOMAIN s.hist = Cell /\ \A c \in Cell : s.hist[c].time \in Nat
  /\ \A c, d \in Cell : Age(s, c) <= Age(s, d) => s.hist[d].time <= s.hist[c].time
  /\ s.num < Size => s.last = s.num /\ s.hist[0].time = 0

(* A newer datum is the youngest, all others age by one. *)
LEMMA NewestAged ==
  ASSUME NEW s, NEW p, Aged(s), p.time \in Nat, p.time >= s.hist[s.last].time
  PROVE  Aged(RingWrite(s, p))
<1> DEFINE q == RingWrite(s, p)
           n == Nxt(s.last)
<1>1. Size \in Nat \ {0} /\ s.last \in 0 .. Size - 1 /\ s.num \in 0 .. Size /\ Cell = 0 .. Size - 1
  BY SizeAssumption DEF Aged, Cell
<1>2. n \in 0 .. Size - 1
  BY <1>1 DEF Nxt
<1>3. q = [hist |-> [s.hist EXCEPT ![n] = p], last |-> n, num |-> Bump(s.num)]
  <2>1. s.hist[s.last].time \in Nat
    BY <1>1 DEF Aged
  <2>2. ~Late(s, p)
    BY <2>1 DEF Late
  <2> QED BY <2>2 DEF RingWrite, PutNewest
<1>4. /\ q.last = n /\ q.num = Bump(s.num) /\ DOMAIN q.hist = Cell /\ q.hist[n] = p
      /\ \A c \in Cell : c # n => q.hist[c] = s.hist[c]
  BY <1>1, <1>2, <1>3 DEF Aged
<1> HIDE DEF q
<1>5. /\ Age(q, n) = 0 /\ Age(s, s.last) = 0
      /\ \A c \in Cell : Age(s, c) \in 0 .. Size - 1 /\ Age(q, c) \in 0 .. Size - 1
      /\ \A c \in Cell : c # n => Age(q, c) = Age(s, c) + 1
  <2>1. Age(q, n) = 0 /\ Age(s, s.last) = 0
    BY <1>1, <1>2, <1>4 DEF Age
  <2>2. ASSUME NEW c \in Cell
        PROVE  Age(s, c) \in 0 .. Size - 1 /\ Age(q, c) \in 0 .. Size - 1
    <3>1. c \in 0 .. Size - 1
      BY <1>1
    <3> HIDE DEF n
    <3> QED BY <1>1, <1>2, <1>4, <3>1 DEF Age
  <2>3. ASSUME NEW c \in Cell, c # n PROVE Age(q, c) = Age(s, c) + 1
    <3>1. c \in 0 .. Size - 1 /\ c # n
      BY <1>1, <2>3
    <3>2. CASE s.last = Size - 1
      <4>1. n = 0 /\ q.last = 0 /\ c # 0
        BY <1>4, <3>1, <3>2 DEF Nxt
      <4> HIDE DEF n
      <4> QED BY <1>1, <3>1, <3>2, <4>1 DEF Age
    <3>3. CASE s.last # Size - 1
      <4>1. q.last = s.last + 1 /\ c # s.last + 1
        BY <1>4, <3>1, <3>3 DEF Nxt
      <4> HIDE DEF n
      <4> QED BY <1>1, <3>1, <3>3, <4>1, SMTT(30) DEF Age
    <3> QED BY <3>2, <3>3
  <2> QED BY <2>1, <2>2, <2>3
<1>6. \A c \in Cell : q.hist[c].time \in Nat /\ s.hist[c].time \in Nat
  BY <1>1, <1>2, <1>4 DEF Aged
<1>7. \A c \in Cell : s.hist[c].time <= p.time
  <2> SUFFICES ASSUME NEW c \in Cell PROVE s.hist[c].time <= p.time
    OBVIOUS
  <2>1. Age(s, s.last) <= Age(s, c) /\ s.last \in Cell
    BY <1>1, <1>5
  <2>2. s.hist[c].time <= s.hist[s.last].time
    BY <2>1 DEF Aged
  <2> QED BY <1>1, <1>6, <2>1, <2>2
<1>8. ASSUME NEW c \in Cell, NEW d \in Cell, Age(q, c) <= Age(q, d) PROVE q.hist[d].time <= q.hist[c].time
  <2>1. CASE c = n
    <3>1. CASE d = n
      BY <1>6, <2>1, <3>1
    <3>2. CASE d # n
      BY <1>4, <1>7, <2>1, <3>2
    <3> QED BY <3>1, <3>2
  <2>2. CASE c # n
    <3>1. Age(q, c) = Age(s, c) + 1 /\ Age(s, c) \in 0 .. Size - 1
      BY <1>5, <2>2
    <3>2. d # n
      BY <1>1, <1>5, <1>8, <3>1
    <3>3. Age(q, d) = Age(s, d) + 1 /\ Age(s, d) \in 0 .. Size - 1
      BY <1>5, <3>2
    <3>4. Age(s, c) <= Age(s, d)
      BY <1>1, <1>8, <3>1, <3>3
    <3>5. s.hist[d].time <= s.hist[c].time
      BY <3>4 DEF Aged
    <3> QED BY <1>4, <2>2, <3>2, <3>5
  <2> QED BY <2>1, <2>2
<1>9. q.num \in 0 .. Size
  BY <1>1, <1>4 DEF Bump
<1>10. q.num < Size => q.last = q.num /\ q.hist[0].time = 0
  <2> SUFFICES ASSUME q.num < Size PROVE q.last = q.num /\ q.hist[0].time = 0
    OBVIOUS
  <2>1. s.num < Size - 1 /\ q.num = s.num + 1
    BY <1>1, <1>4 DEF Bump
  <2>2. s.last = s.num /\ s.hist[0].time = 0
    BY <1>1, <2>1 DEF Aged
  <2>3. n = s.last + 1 /\ n # 0 /\ 0 \in Cell
    BY <1>1, <2>1, <2>2 DEF Nxt
  <2> QED BY <1>4, <2>1, <2>2, <2>3
<1>11. Aged(q)
  BY <1>1, <1>2, <1>4, <1>6, <1>8, <1>9, <1>10 DEF Aged
<1> QED BY <1>11 DEF q

(* Every cell is as many steps back as it is old. *)
LEMMA BackByAge ==
  ASSUME NEW s, s.last \in Cell, NEW c \in Cell
  PROVE  Age(s, c) \in 0 .. Size - 1 /\ Back(s, Age(s, c)) = c
<1>1. Size \in Nat \ {0} /\ s.last \in 0 .. Size - 1 /\ c \in 0 .. Size - 1
  BY SizeAssumption DEF Cell
<1>2. Age(s, c) \in 0 .. Size - 1 /\ (s.last + Size - Age(s, c) = c \/ s.last + Size - Age(s, c) = c + Size)
  BY <1>1 DEF Age
<1>3. c % Size = c /\ (c + Size) % Size = c
  BY <1>1
<1> QED BY <1>2, <1>3 DEF Back

(* A reader is told that its time is too old only when nothing as old is   *)
(* left; it is never told that it cannot interpolate.                      *)
LEMMA TooOldIsGone ==
  ASSUME NEW s, Aged(s), NEW t \in Nat \ {0}
  PROVE  /\ "NO_INTERPOLATE" \notin RingRead(s, t, 0).code
         /\ "TIMESTAMP_TOO_OLD" \in RingRead(s, t, 0).code => \A c \in Cell : s.hist[c].time > t
<1> DEFINE h == Walk(s, 0, LAMBDA p : p.time <= t)
           l == IF s.hist[Back(s, h)].time = t THEN Walk(s, h, LAMBDA p : p.time # t) ELSE h
           x == RingRead(s, t, 0)
<1>1. Size \in Nat \ {0} /\ s.last \in 0 .. Size - 1 /\ s.num \in 0 .. Size /\ Cell = 0 .. Size - 1
  BY SizeAssumption DEF Aged, Cell
<1>2. x = ReadFrom(s, t, 0, h, l)
  BY DEF RingRead
<1>3. h = Size => \A c \in Cell : s.hist[c].time > t
  <2> SUFFICES ASSUME h = Size, NEW c \in Cell PROVE s.hist[c].time > t
    OBVIOUS
  <2> DEFINE hits == {n \in 0 .. Size - 1 : s.hist[Back(s, n)].time <= t}
  <2>1. h = IF hits = {} THEN Size ELSE CHOOSE n \in hits : \A m \in hits : n <= m
    BY DEF Walk
  <2>2. hits = {}
    <3> SUFFICES ASSUME hits # {} PROVE FALSE
      OBVIOUS
    <3>1. hits \in SUBSET Nat /\ hits \subseteq 0 .. Size - 1
      BY <1>1
    <3> HIDE DEF hits, h
    <3>2. \E n \in hits : \A m \in hits : n <= m
      BY <3>1, LeastIn
    <3>4. h \in hits
      BY <2>1, <3>2
    <3> QED BY <1>1, <2>1, <3>1, <3>4, SMTT(30)
  <2>3. Age(s, c) \in 0 .. Size - 1 /\ Back(s, Age(s, c)) = c
    BY <1>1, BackByAge
  <2>4. ~(s.hist[c].time <= t)
    BY <2>2, <2>3
  <2>5. s.hist[c].time \in Nat
    BY DEF Aged
  <2> QED BY <2>4, <2>5
<1>4. l = Size /\ s.hist[Back(s, h)].time # t => h = Size
  OBVIOUS
<1> HIDE DEF h, l, x
<1>5. t < s.hist[RingOldest(s)].time => \A c \in Cell : s.hist[c].time > t
  <2> SUFFICES ASSUME t < s.hist[RingOldest(s)].time, NEW c \in Cell PROVE s.hist[c].time > t
    OBVIOUS
  <2>1. s.num = Size
    <3> SUFFICES ASSUME s.num < Size PROVE FALSE
      BY <1>1
    <3>1. RingOldest(s) = 0 /\ s.hist[0].time = 0
      BY DEF RingOldest, Aged
    <3> QED BY <3>1
  <2>2. RingOldest(s) = (s.last + 1) % Size
    BY <1>1, <2>1 DEF RingOldest
  <2>3. (s.last + 1) % Size = IF s.last = Size - 1 THEN 0 ELSE s.last + 1
    <3>1. CASE s.last = Size - 1
      BY <1>1, <3>1
    <3>2. CASE s.last # Size - 1
      BY <1>1, <3>2, SMTT(30)
    <3> QED BY <3>1, <3>2
  <2>4. RingOldest(s) \in Cell /\ Age(s, RingOldest(s)) = Size - 1
    BY <1>1, <2>2, <2>3 DEF Age
  <2>5. Age(s, c) \in 0 .. Size - 1
    BY <1>1, BackByAge
  <2>6. s.hist[RingOldest(s)].time <= s.hist[c].time
    BY <1>1, <2>4, <2>5 DEF Aged
  <2>7. s.hist[c].time \in Nat /\ s.hist[RingOldest(s)].time \in Nat
    BY <2>4 DEF Aged
  <2> QED BY <2>6, <2>7
<1>6. /\ "NO_INTERPOLATE" \notin NoMore \cup TooOld \cup Future \cup {"TIMESTAMP_ERROR"}
      /\ "TIMESTAMP_TOO_OLD" \notin NoMore \cup Future \cup {"TIMESTAMP_ERROR"}
      /\ \A c, p : Give(c, p, 0).code = c
      /\ Reply(NoMore, <<>>, 0, 0).code = NoMore
  BY DEF NoMore, TooOld, Future, Give, Reply
<1>7. ReadBetween(s, t, h, l).code \in {{}, NoMore}
  BY DEF ReadBetween, Reply
<1>8. \/ x.code \in {{}, NoMore, Future, {"TIMESTAMP_ERROR"}}
      \/ x.code = TooOld /\ (t < s.hist[RingOldest(s)].time \/ h = Size)
  BY <1>2, <1>4, <1>6, <1>7 DEF ReadFrom
<1>9. "NO_INTERPOLATE" \notin x.code
  BY <1>6, <1>8
<1>10. "TIMESTAMP_TOO_OLD" \in x.code => \A c \in Cell : s.hist[c].time > t
  BY <1>3, <1>5, <1>6, <1>8
<1> QED BY <1>9, <1>10 DEF x

(* While write runs no flags are left over from another trigger; the slots *)
(* are written in time order.                                              *)
ReasonInv ==
  /\ pc = "loop" => r = {}
  /\ DOMAIN slot = Inputs /\ \A i \in Inputs : Aged(slot[i])

(* Nothing is written and nothing tried. *)
LEMMA InitReason == SyncInit => ReasonInv
<1> SUFFICES ASSUME SyncInit PROVE ReasonInv
  OBVIOUS
<1>1. pc = "idle" /\ slot = [i \in Inputs |-> EmptySlot] /\ Size \in Nat \ {0}
  BY SizeAssumption DEF SyncInit
<1>2. Aged(EmptySlot)
  <2>1. 0 \in Cell /\ 0 \in 0 .. Size
    BY <1>1 DEF Cell
  <2>2. /\ EmptySlot.last = 0 /\ EmptySlot.num = 0 /\ DOMAIN EmptySlot.hist = Cell
        /\ \A c \in Cell : EmptySlot.hist[c].time = 0
    BY DEF EmptySlot, NoData
  <2> QED BY <2>1, <2>2 DEF Aged
<1> QED BY <1>1, <1>2 DEF ReasonInv

(* What a pass may do to the list of triggers, and why. *)
LEMMA PassHasReason ==
  ASSUME IInv, ReasonInv, Trying, Try
  PROVE  /\ pc' = "loop" => r' = {}
         /\ pending' # pending =>
              \/ pushed'.id = Head(pending).id
              \/ \E i \in Inputs \ {Head(pending).port} :
                   \/ OutOfReach(i, Head(pending).time)
                   \/ i \in kept /\ Newest(i) # Head(pending).time
<1> DEFINE t == Current.time
           answers == Answers(t)
           got == GetInputs(t, Current.port, answers)
           code == r \cup got.code
<1>1. Skip(got, code) \/ CannotInterpolate(got, code) \/ Wait(got, code) \/ PushSet(got, code)
  BY DEF Try
<1>2. t \in Nat \ {0}
  BY CurrentIsDue
<1>3. r = {} /\ code = got.code
  BY DEF ReasonInv, Trying
<1>4. got.code = UNION {answers[i].code : i \in {i \in Inputs : IsRead(i, answers, Current.port)}}
  BY DEF GetInputs
<1>5. \A i \in Inputs : answers[i] = PullData(i, t)
  BY DEF Answers
<1>6. \A i \in Inputs : IsRead(i, answers, Current.port) => i # Current.port
  BY DEF IsRead
<1> HIDE DEF t, answers, got, code
<1>7. ASSUME NEW i \in Inputs
      PROVE  /\ "TIMESTAMP_TOO_OLD" \in answers[i].code => OutOfReach(i, t)
             /\ "NO_INTERPOLATE" \in answers[i].code => i \in kept /\ Newest(i) # t
  <2>4. answers[i].code = PullData(i, t).code
    BY <1>5
  <2>1. CASE i \notin pulls
    <3>1. PullData(i, t).code = {"RESOURCE_ERROR"}
      BY <2>1 DEF PullData
    <3> QED BY <2>4, <3>1
  <2>2. CASE i \in pulls /\ i \in kept
    <3>1. PullData(i, t).code = IF t = 0 \/ Newest(i) = t THEN {} ELSE {"TIMESTAMP_ERROR", "NO_INTERPOLATE"}
      BY <2>2 DEF PullData, ReadKept
    <3> QED BY <2>2, <2>4, <3>1
  <2>3. CASE i \in pulls /\ i \notin kept
    <3>1. PullData(i, t).code = RingRead(slot[i], t, 0).code
      BY <2>3 DEF PullData, ReadSlot
    <3>2. Aged(slot[i])
      BY DEF ReasonInv
    <3> QED BY <1>2, <2>3, <2>4, <3>1, <3>2, TooOldIsGone DEF OutOfReach
  <2> QED BY <2>1, <2>2, <2>3
<1>8. ASSUME NEW flag \in {"TIMESTAMP_TOO_OLD", "NO_INTERPOLATE"}, flag \in code
      PROVE  \E i \in Inputs \ {Current.port} : OutOfReach(i, t) \/ (i \in kept /\ Newest(i) # t)
  <2>1. PICK i \in Inputs : IsRead(i, answers, Current.port) /\ flag \in answers[i].code
    BY <1>3, <1>4, <1>8
  <2> QED BY <1>6, <1>7, <2>1
<1>9. pc' = "loop" => r' = {}
  BY <1>1, <1>3 DEF Skip, CannotInterpolate, Wait, PushSet, Done, NextPass
<1>10. ASSUME pending' # pending
       PROVE  \/ pushed'.id = Head(pending).id
              \/ \E i \in Inputs \ {Head(pending).port} :
                   \/ OutOfReach(i, Head(pending).time)
                   \/ i \in kept /\ Newest(i) # Head(pending).time
  <2>1. pending' = Dropped
    BY <1>1, <1>10 DEF Skip, CannotInterpolate, Wait, PushSet
  <2>2. config.store /\ Current = Head(pending)
    BY <1>10, <2>1 DEF Dropped, Current
  <2>3. t = Head(pending).time
    BY <2>2 DEF t
  <2>4. CASE PushSet(got, code)
    BY <2>2, <2>4 DEF PushSet
  <2>5. CASE Skip(got, code) \/ CannotInterpolate(got, code)
    <3>1. PICK flag \in {"TIMESTAMP_TOO_OLD", "NO_INTERPOLATE"} : flag \in code
      BY <2>5 DEF Skip, CannotInterpolate
    <3> QED BY <1>8, <2>2, <2>3, <3>1
  <2>6. CASE Wait(got, code)
    BY <1>10, <2>6 DEF Wait
  <2> QED BY <1>1, <2>4, <2>5, <2>6
<1> QED BY <1>9, <1>10

(* Every step. *)
LEMMA StepHasReason ==
  ASSUME IInv, ReasonInv, [SyncNext]_syncronizerVars
  PROVE  /\ ReasonInv'
         /\ pc = "loop" /\ pending' # pending =>
              \/ pushed'.id = Head(pending).id
              \/ \E i \in Inputs \ {Head(pending).port} :
                   \/ OutOfReach(i, Head(pending).time)
                   \/ i \in kept /\ Newest(i) # Head(pending).time
<1>1. CASE \E i \in Inputs : SlotWrite(i)
  <2>1. PICK i \in Inputs : SlotWrite(i)
    BY <1>1
  <2>2. PICK t \in Newest(i) + 1 .. MaxTime :
               slot' = [slot EXCEPT ![i] = RingWrite(@, [time |-> t, id |-> 0])]
    BY <2>1 DEF SlotWrite
  <2> DEFINE p == [time |-> t, id |-> 0]
  <2>3. Aged(slot[i]) /\ Newest(i) \in Nat
    BY DEF ReasonInv, Aged, Newest
  <2>4. p.time \in Nat /\ p.time >= slot[i].hist[slot[i].last].time
    BY <2>3, SyncAssumption DEF Newest
  <2>5. pc = "idle" /\ pc' = "idle"
    BY <2>1 DEF SlotWrite, syncVars
  <2> HIDE DEF p
  <2>6. Aged(RingWrite(slot[i], p))
    BY <2>3, <2>4, NewestAged
  <2>7. slot' = [slot EXCEPT ![i] = RingWrite(slot[i], p)]
    BY <2>2 DEF p
  <2> QED BY <2>5, <2>6, <2>7 DEF ReasonInv
<1>2. CASE \E i \in Inputs : SlotGone(i)
  BY <1>2 DEF SlotGone, syncVars, ReasonInv
<1>3. CASE Refuse
  BY <1>3 DEF Refuse, ReasonInv
<1>4. CASE \E t \in 1 .. MaxTime, port \in Triggers : Accept(t, port)
  BY <1>4 DEF Accept, ReasonInv
<1>5. CASE NothingPending
  BY <1>5 DEF NothingPending, Done, ReasonInv
<1>6. CASE Trying /\ Try
  <2>1. slot' = slot
    BY <1>6 DEF Try, Skip, CannotInterpolate, Wait, PushSet
  <2> QED BY <1>6, <2>1, PassHasReason DEF ReasonInv
<1>7. CASE UNCHANGED syncronizerVars
  BY <1>7 DEF syncronizerVars, syncVars, ReasonInv
<1> QED BY <1>1, <1>2, <1>3, <1>4, <1>5, <1>6, <1>7 DEF SyncNext, Pass

(* Syncronizer::write gives up a trigger that waits only when its set went *)
(* out, when an input has nothing left that is as old, or when one cannot  *)
(* interpolate to its time: a failure of another trigger never costs it.   *)
THEOREM GivenUpWithReason == SyncSpec => GivenUpForReason
<1>1. IInv /\ ReasonInv /\ [SyncNext]_syncronizerVars => (IInv /\ ReasonInv)'
  BY StepKeeps, StepHasReason
<1>2. IInv /\ ReasonInv /\ [SyncNext]_syncronizerVars =>
        [pc = "loop" /\ pending' # pending =>
           \/ pushed'.id = Head(pending).id
           \/ \E i \in Inputs \ {Head(pending).port} :
                \/ OutOfReach(i, Head(pending).time)
                \/ i \in kept /\ Newest(i) # Head(pending).time]_syncronizerVars
  BY StepHasReason
<1> QED BY InitHolds, InitReason, <1>1, <1>2, PTL DEF SyncSpec, GivenUpForReason
=============================================================================
