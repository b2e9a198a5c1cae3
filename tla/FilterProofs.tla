----------------------------- MODULE FilterProofs -----------------------------
(***************************************************************************)
(* Theorems about the filters.                                             *)
(*                                                                         *)
(* First about the replay of any files of any lengths, with any setting of *)
(* the sequencer and whichever addresses are deleted.  The argument is in  *)
(* three parts: what one write does to the sequencer's list; that the      *)
(* files are written oldest first behind their odometry; and that          *)
(* therefore nothing comes later than what has gone out.                   *)
(*                                                                         *)
(* Then about what CollisionAvoidance takes for stopped, see below.        *)
(***************************************************************************)
EXTENDS Replay, MotionControl, TLAPS, WellFoundedInduction, SequenceTheorems

(* The minimum of a set of numbers and the maximum of a bounded one.       *)
LEMMA MinIsLeast ==
  ASSUME NEW S \in SUBSET Nat, S # {}
  PROVE  Min(S) \in S /\ \A y \in S : Min(S) <= y
<1> DEFINE R == OpToRel(<, Nat)
<1>1. PICK x \in S : \A y \in S : ~(<<y, x>> \in R)
  <2> HIDE DEF R
  <2> QED BY WFMin, NatLessThanWellFounded DEF R
<1>2. ASSUME NEW y \in S PROVE x <= y
  <2>1. x \in Nat /\ y \in Nat
    OBVIOUS
  <2>2. ~(y < x)
    BY <1>1, <2>1 DEF OpToRel
  <2> QED BY <2>1, <2>2
<1> QED BY <1>2 DEF Min

LEMMA MaxIsGreatest ==
  ASSUME NEW n \in Nat, NEW S \in SUBSET (0 .. n), S # {}
  PROVE  Max(S) \in S /\ \A y \in S : y <= Max(S)
<1> DEFINE T == {n - x : x \in S}
<1>1. T \in SUBSET Nat /\ T # {}
  <2>1. \A x \in 0 .. n : n - x \in Nat
    OBVIOUS
  <2>2. \A x \in S : x \in 0 .. n
    OBVIOUS
  <2> QED BY <2>1, <2>2
<1>2. Min(T) \in T /\ \A y \in T : Min(T) <= y
  BY <1>1, MinIsLeast
<1>3. PICK x \in S : Min(T) = n - x
  BY <1>2
<1>4. \A y \in S : x >= y
  <2> SUFFICES ASSUME NEW y \in S PROVE x >= y
    OBVIOUS
  <2>1. n - x <= n - y
    BY <1>2, <1>3
  <2> QED BY <2>1
<1> QED BY <1>4 DEF Max

LEMMA MaxOfTwo ==
  ASSUME NEW a \in Int, NEW b \in Int
  PROVE  Max({a, b}) \in {a, b} /\ a <= Max({a, b}) /\ b <= Max({a, b})
<1>1. \E x \in {a, b} : \A y \in {a, b} : x >= y
  <2>1. CASE a >= b BY <2>1
  <2>2. CASE b >= a BY <2>2
  <2> QED BY <2>1, <2>2
<1> QED BY <1>1 DEF Max
-----------------------------------------------------------------------------
(* The sequencer *)

Measurement == [time : Nat, type : Types]

Sorted(s) == \A i, j \in 1 .. Len(s) : i <= j => s[i].time <= s[j].time

(* The list is in the order of time and holds nothing older than what went *)
(* out.                                                                    *)
SeqOK ==
  /\ setting \in [trigger : Types, margin : Nat]
  /\ meas \in Seq(Measurement) /\ Sorted(meas)
  /\ lastOut \in Nat /\ trigTime \in Int /\ refused \in BOOLEAN
  /\ \A n \in 1 .. Len(meas) : lastOut <= meas[n].time

(* A measurement is put in front of the first later one. *)
LEMMA InsertedSorted ==
  ASSUME SeqOK, NEW m \in Measurement
  PROVE  /\ Inserted(m) \in Seq(Measurement) /\ Sorted(Inserted(m))
         /\ Len(Inserted(m)) = Len(meas) + 1
         /\ \A i \in 1 .. Len(meas) + 1 :
              Inserted(m)[i] = m \/ \E k \in 1 .. Len(meas) : Inserted(m)[i] = meas[k]
<1> DEFINE later == {n \in DOMAIN meas : m.time < meas[n].time}
           all == Inserted(m)
<1>1. /\ meas \in Seq(Measurement) /\ Len(meas) \in Nat /\ DOMAIN meas = 1 .. Len(meas)
      /\ m.time \in Nat /\ \A i \in 1 .. Len(meas) : meas[i] \in Measurement
      /\ \A i \in 1 .. Len(meas) : meas[i].time \in Nat
  <2>1. meas \in Seq(Measurement) /\ m.time \in Nat
    BY DEF SeqOK, Measurement
  <2>2. /\ Len(meas) \in Nat /\ DOMAIN meas = 1 .. Len(meas)
        /\ \A i \in 1 .. Len(meas) : meas[i] \in Measurement
    BY <2>1, ElementOfSeq, LenProperties
  <2>3. \A x \in Measurement : x.time \in Nat
    BY DEF Measurement
  <2> QED BY <2>1, <2>2, <2>3
<1>2. PICK k \in 1 .. Len(meas) + 1 :
        /\ \A i \in 1 .. k - 1 : meas[i].time <= m.time
        /\ \A i \in k .. Len(meas) : m.time <= meas[i].time
        /\ all \in Seq(Measurement) /\ Len(all) = Len(meas) + 1
        /\ \A i \in 1 .. k - 1 : all[i] = meas[i]
        /\ all[k] = m
        /\ \A i \in k + 1 .. Len(meas) + 1 : all[i] = meas[i - 1]
  <2>1. CASE later = {}
    <3>1. all = Append(meas, m)
      BY <2>1 DEF Inserted
    <3>2. /\ all \in Seq(Measurement) /\ Len(all) = Len(meas) + 1
          /\ \A i \in 1 .. Len(meas) : all[i] = meas[i]
          /\ all[Len(meas) + 1] = m
      BY <1>1, <3>1, AppendProperties
    <3>3. \A i \in 1 .. Len(meas) : meas[i].time <= m.time
      BY <1>1, <2>1
    <3> HIDE DEF all, later
    <3> QED BY <1>1, <3>2, <3>3
  <2>2. CASE later # {}
    <3> DEFINE k == Min(later)
    <3>1. k \in later /\ \A y \in later : k <= y
      <4>1. later \in SUBSET Nat
        BY <1>1
      <4> HIDE DEF later
      <4> QED BY <2>2, <4>1, MinIsLeast
    <3>2. all = SubSeq(meas, 1, k - 1) \o <<m>> \o SubSeq(meas, k, Len(meas))
      BY <2>2 DEF Inserted, InsertAt
    <3>3. k \in 1 .. Len(meas) /\ m.time < meas[k].time
      BY <1>1, <3>1
    <3>4. ASSUME NEW i \in 1 .. k - 1 PROVE meas[i].time <= m.time
      <4>1. i \in 1 .. Len(meas) /\ ~(k <= i)
        BY <1>1, <3>3
      <4>2. i \notin later
        BY <3>1, <4>1
      <4> QED BY <1>1, <4>1, <4>2
    <3>5. \A i \in k .. Len(meas) : m.time <= meas[i].time
      BY <1>1, <3>3 DEF SeqOK, Sorted
    <3> HIDE DEF all, later, k
    <3>6. /\ SubSeq(meas, 1, k - 1) \in Seq(Measurement)
          /\ Len(SubSeq(meas, 1, k - 1)) = k - 1
          /\ \A i \in 1 .. k - 1 : SubSeq(meas, 1, k - 1)[i] = meas[i]
          /\ SubSeq(meas, k, Len(meas)) \in Seq(Measurement)
          /\ Len(SubSeq(meas, k, Len(meas))) = Len(meas) - k + 1
          /\ \A i \in 1 .. Len(meas) - k + 1 : SubSeq(meas, k, Len(meas))[i] = meas[k + i - 1]
      BY <1>1, <3>3
    <3>7. /\ all \in Seq(Measurement) /\ Len(all) = Len(meas) + 1
          /\ \A i \in 1 .. k - 1 : all[i] = meas[i]
          /\ all[k] = m
          /\ \A i \in k + 1 .. Len(meas) + 1 : all[i] = meas[i - 1]
      <4> DEFINE front == SubSeq(meas, 1, k - 1)
                 back == SubSeq(meas, k, Len(meas))
      <4>1. /\ <<m>> \in Seq(Measurement) /\ Len(<<m>>) = 1 /\ <<m>>[1] = m
        OBVIOUS
      <4> HIDE DEF front, back
      <4>2. /\ front \o <<m>> \in Seq(Measurement) /\ Len(front \o <<m>>) = k
            /\ \A i \in 1 .. k - 1 : (front \o <<m>>)[i] = meas[i]
            /\ (front \o <<m>>)[k] = m
        BY <3>3, <3>6, <4>1, ConcatProperties DEF front
      <4>3. /\ (front \o <<m>>) \o back \in Seq(Measurement)
            /\ Len((front \o <<m>>) \o back) = k + (Len(meas) - k + 1)
            /\ \A i \in 1 .. k : ((front \o <<m>>) \o back)[i] = (front \o <<m>>)[i]
            /\ \A i \in k + 1 .. Len(meas) + 1 :
                 ((front \o <<m>>) \o back)[i] = back[i - k]
        <5> DEFINE f == front \o <<m>>
        <5>1. f \in Seq(Measurement) /\ Len(f) = k
          BY <4>2
        <5>2. back \in Seq(Measurement) /\ Len(back) = Len(meas) - k + 1
          BY <3>6 DEF back
        <5> HIDE DEF f
        <5>3. /\ f \o back \in Seq(Measurement)
              /\ Len(f \o back) = k + (Len(meas) - k + 1)
              /\ \A i \in 1 .. k + (Len(meas) - k + 1) :
                   (f \o back)[i] = IF i <= k THEN f[i] ELSE back[i - k]
          BY <5>1, <5>2, ConcatProperties
        <5>4. k \in Nat /\ k + (Len(meas) - k + 1) = Len(meas) + 1 /\ k <= Len(meas)
          BY <1>1, <3>3
        <5>5. \A i \in 1 .. k : (f \o back)[i] = f[i]
          BY <1>1, <5>3, <5>4
        <5>6. \A i \in k + 1 .. Len(meas) + 1 : (f \o back)[i] = back[i - k]
          BY <1>1, <5>3, <5>4
        <5> QED BY <5>3, <5>5, <5>6 DEF f
      <4>4. \A i \in k + 1 .. Len(meas) + 1 : back[i - k] = meas[i - 1]
        BY <1>1, <3>3, <3>6 DEF back
      <4>5. all = (front \o <<m>>) \o back
        BY <3>2 DEF front, back
      <4> QED BY <1>1, <3>3, <4>2, <4>3, <4>4, <4>5
    <3> QED BY <3>3, <3>4, <3>5, <3>7
  <2> QED BY <2>1, <2>2
<1> HIDE DEF all
<1>3. Sorted(all)
  <2> SUFFICES ASSUME NEW i \in 1 .. Len(all), NEW j \in 1 .. Len(all), i <= j
               PROVE  all[i].time <= all[j].time
    BY DEF Sorted
  <2>1. CASE i < k /\ j < k
    <3>1. all[i] = meas[i] /\ all[j] = meas[j] /\ i \in 1 .. Len(meas) /\ j \in 1 .. Len(meas)
      BY <1>1, <1>2, <2>1
    <3> QED BY <3>1 DEF SeqOK, Sorted
  <2>2. CASE i < k /\ j = k BY <1>1, <1>2, <2>2
  <2>3. CASE i < k /\ j > k
    <3>1. /\ all[i] = meas[i] /\ all[j] = meas[j - 1] /\ i <= j - 1
          /\ i \in 1 .. Len(meas) /\ j - 1 \in 1 .. Len(meas)
      BY <1>1, <1>2, <2>3
    <3> QED BY <3>1 DEF SeqOK, Sorted
  <2>4. CASE i = k /\ j = k BY <1>1, <1>2, <2>4
  <2>5. CASE i = k /\ j > k BY <1>1, <1>2, <2>5
  <2>6. CASE i > k /\ j > k BY <1>1, <1>2, <2>6 DEF SeqOK, Sorted
  <2> QED BY <1>1, <1>2, <2>1, <2>2, <2>3, <2>4, <2>5, <2>6
<1>4. ASSUME NEW i \in 1 .. Len(meas) + 1
      PROVE  all[i] = m \/ \E n \in 1 .. Len(meas) : all[i] = meas[n]
  <2>1. CASE i < k BY <1>1, <1>2, <2>1
  <2>2. CASE i = k BY <1>2, <2>2
  <2>3. CASE i > k BY <1>1, <1>2, <2>3
  <2> QED BY <1>1, <1>2, <2>1, <2>2, <2>3
<1> QED BY <1>2, <1>3, <1>4 DEF all

(* What has been sent out is a beginning of the list, up to the trigger's  *)
(* time, and what stays is all later than that.                            *)
LEMMA DueIsFront ==
  ASSUME SeqOK, NEW m \in Measurement
  PROVE  \E d \in 0 .. Len(meas) + 1 :
           /\ Due(m) = SubSeq(Inserted(m), 1, d) /\ Len(Due(m)) = d
           /\ d > 0 => m.type = setting.trigger
           /\ \A i \in 1 .. d : Inserted(m)[i].time <= Horizon(m)
           /\ m.type = setting.trigger =>
                \A i \in d + 1 .. Len(meas) + 1 : Inserted(m)[i].time > Horizon(m)
<1> DEFINE all == Inserted(m)
           upTo == {n \in 0 .. Len(all) : \A i \in 1 .. n : all[i].time <= Horizon(m)}
<1>1. /\ all \in Seq(Measurement) /\ Sorted(all) /\ Len(all) = Len(meas) + 1
      /\ Len(meas) \in Nat /\ Horizon(m) \in Int
  <2>1. m.time \in Nat /\ setting.margin \in Nat
    BY DEF SeqOK, Measurement
  <2>2. Len(meas) \in Nat
    BY LenProperties DEF SeqOK
  <2>3. /\ all \in Seq(Measurement) /\ Sorted(all) /\ Len(all) = Len(meas) + 1
    BY InsertedSorted
  <2> QED BY <2>1, <2>2, <2>3 DEF Horizon
<1>2. \A i \in 1 .. Len(all) : all[i].time \in Nat
  <2>1. \A i \in 1 .. Len(all) : all[i] \in Measurement
    BY <1>1, ElementOfSeq
  <2> QED BY <2>1 DEF Measurement
<1>3. CASE m.type # setting.trigger
  <2>1. Due(m) = <<>> /\ SubSeq(all, 1, 0) = <<>>
    BY <1>1, <1>3 DEF Due
  <2> WITNESS 0 \in 0 .. Len(meas) + 1
  <2> QED BY <1>1, <1>3, <2>1
<1>4. CASE m.type = setting.trigger
  <2> DEFINE d == Max(upTo)
  <2>1. Due(m) = SubSeq(all, 1, d)
    BY <1>4 DEF Due
  <2> HIDE DEF all
  <2>2. upTo \in SUBSET (0 .. Len(all)) /\ 0 \in upTo
    BY <1>1
  <2>3. d \in upTo /\ \A y \in upTo : y <= d
    <3>1. Len(all) \in Nat /\ upTo # {}
      BY <1>1, <2>2
    <3> HIDE DEF upTo
    <3> QED BY <2>2, <3>1, MaxIsGreatest
  <2>4. d \in 0 .. Len(all) /\ \A i \in 1 .. d : all[i].time <= Horizon(m)
    BY <2>3
  <2>5. d + 1 \notin upTo
    BY <2>3, <2>4
  <2> HIDE DEF d
  <2>6. ASSUME NEW i \in d + 1 .. Len(all) PROVE all[i].time > Horizon(m)
    <3>1. d + 1 \in 1 .. Len(all) /\ d + 1 <= i /\ i \in 1 .. Len(all)
      BY <1>1, <2>4
    <3>2. all[d + 1].time > Horizon(m)
      BY <1>1, <1>2, <2>4, <2>5, <3>1
    <3>3. all[d + 1].time <= all[i].time
      BY <1>1, <3>1 DEF Sorted
    <3> QED BY <1>1, <1>2, <3>1, <3>2, <3>3
  <2>7. Len(SubSeq(all, 1, d)) = d
    BY <1>1, <2>4
  <2>8. d \in 0 .. Len(meas) + 1
    BY <1>1, <2>4
  <2> HIDE DEF upTo
  <2> QED BY <1>1, <1>4, <2>1, <2>4, <2>6, <2>7, <2>8 DEF all
<1> QED BY <1>3, <1>4

(* What one write does to the sequencer.  Only a trigger lets something    *)
(* out, and nothing later than itself less the margin.                     *)
LEMMA SequenceKeeps ==
  ASSUME SeqOK, NEW m \in Measurement, Sequence(m), setting' = setting
  PROVE  /\ SeqOK'
         /\ out' # out => out' >= lastOut
         /\ trigTime' # trigTime => \A n \in DOMAIN meas' : meas'[n].time > trigTime'
         /\ m.time >= lastOut => refused' = refused
         /\ lastOut' = lastOut \/ (m.type = setting.trigger /\ lastOut' <= Horizon(m))
<1> DEFINE all == Inserted(m)
           due == Due(m)
<1>1. /\ m.time \in Nat /\ lastOut \in Nat /\ trigTime \in Int /\ setting.margin \in Nat
      /\ Horizon(m) \in Int
  BY DEF SeqOK, Measurement, Horizon
<1>2. CASE m.time < lastOut
  <2>1. refused' = TRUE /\ UNCHANGED <<meas, lastOut, trigTime, out>>
    BY <1>2 DEF Sequence
  <2>2. SeqOK'
    BY <2>1 DEF SeqOK, Sorted
  <2>3. ~(m.time >= lastOut)
    BY <1>1, <1>2
  <2> HIDE DEF all, due
  <2> QED BY <2>1, <2>2, <2>3
<1>3. CASE ~(m.time < lastOut)
  <2>1. /\ meas' = SubSeq(all, Len(due) + 1, Len(meas) + 1)
        /\ lastOut' = IF due = <<>> THEN lastOut ELSE Last(due).time
        /\ trigTime' = IF m.type = setting.trigger THEN Max({trigTime, Horizon(m)})
                                                  ELSE trigTime
        /\ out' = IF due # <<>> THEN Head(due).time ELSE out
        /\ refused' = refused
    BY <1>3 DEF Sequence
  <2>2. /\ all \in Seq(Measurement) /\ Sorted(all) /\ Len(all) = Len(meas) + 1
        /\ Len(meas) \in Nat
        /\ \A i \in 1 .. Len(all) :
             all[i] = m \/ \E k \in 1 .. Len(meas) : all[i] = meas[k]
    BY InsertedSorted, LenProperties DEF SeqOK
  <2>3. PICK d \in 0 .. Len(all) :
          /\ due = SubSeq(all, 1, d) /\ Len(due) = d
          /\ d > 0 => m.type = setting.trigger
          /\ \A i \in 1 .. d : all[i].time <= Horizon(m)
          /\ m.type = setting.trigger =>
               \A i \in d + 1 .. Len(all) : all[i].time > Horizon(m)
    BY <2>2, DueIsFront
  <2> HIDE DEF all, due
  <2>4. \A i \in 1 .. Len(all) : all[i].time \in Nat /\ lastOut <= all[i].time
    <3>1. \A i \in 1 .. Len(all) : all[i] \in Measurement
      BY <2>2, ElementOfSeq
    <3>2. \A k \in 1 .. Len(meas) : lastOut <= meas[k].time
      BY DEF SeqOK
    <3>3. lastOut <= m.time
      BY <1>1, <1>3
    <3> QED BY <2>2, <3>1, <3>2, <3>3 DEF Measurement
  <2>5. /\ meas' \in Seq(Measurement) /\ Len(meas') = Len(all) - d
        /\ \A n \in 1 .. Len(all) - d : meas'[n] = all[d + n]
    BY <2>1, <2>2, <2>3
  <2>6. /\ due = <<>> <=> d = 0
        /\ d > 0 => Last(due) = all[d] /\ Head(due) = all[1]
    BY <2>2, <2>3 DEF Last
  <2>7. /\ lastOut' = IF d = 0 THEN lastOut ELSE all[d].time
        /\ out' = IF d = 0 THEN out ELSE all[1].time
    BY <2>1, <2>6
  <2>8. /\ lastOut' \in Nat
        /\ out' # out => out' >= lastOut
        /\ lastOut' = lastOut \/ (m.type = setting.trigger /\ lastOut' <= Horizon(m))
    BY <1>1, <2>2, <2>3, <2>4, <2>7
  <2>9. \A n \in 1 .. Len(all) - d : d + n \in d + 1 .. Len(all) /\ d + n \in 1 .. Len(all)
    BY <2>2
  <2>10. \A n \in 1 .. Len(meas') : lastOut' <= meas'[n].time
    <3> SUFFICES ASSUME NEW n \in 1 .. Len(all) - d PROVE lastOut' <= all[d + n].time
      BY <2>5
    <3>1. CASE d = 0 BY <2>4, <2>7, <2>9, <3>1
    <3>2. CASE d > 0
      <4>1. d \in 1 .. Len(all) /\ d + n \in 1 .. Len(all) /\ d <= d + n
        BY <2>2, <2>9, <3>2
      <4> QED BY <2>2, <2>7, <3>2, <4>1 DEF Sorted
    <3> QED BY <2>3, <3>1, <3>2
  <2>11. Sorted(meas')
    <3> SUFFICES ASSUME NEW i \in 1 .. Len(all) - d, NEW j \in 1 .. Len(all) - d, i <= j
                 PROVE  all[d + i].time <= all[d + j].time
      BY <2>5 DEF Sorted
    <3>1. d + i <= d + j
      BY <2>2
    <3> QED BY <2>2, <2>9, <3>1 DEF Sorted
  <2>12. trigTime' \in Int /\ (trigTime' # trigTime =>
                                m.type = setting.trigger /\ trigTime' = Horizon(m))
    BY <1>1, <2>1, MaxOfTwo
  <2>13. trigTime' # trigTime => \A n \in DOMAIN meas' : meas'[n].time > trigTime'
    <3>1. DOMAIN meas' = 1 .. Len(all) - d
      BY <2>5
    <3> QED BY <2>3, <2>5, <2>9, <2>12, <3>1
  <2>14. SeqOK'
    BY <2>1, <2>5, <2>8, <2>10, <2>11, <2>12 DEF SeqOK
  <2> QED BY <2>1, <2>8, <2>13, <2>14
<1> QED BY <1>2, <1>3

(* What a write to the bank may do to the sequencer, m being the datum.    *)
Sequenced(m) ==
  /\ SeqOK'
  /\ out' # out => out' >= lastOut
  /\ trigTime' # trigTime => \A n \in DOMAIN meas' : meas'[n].time > trigTime'
  /\ m.time >= lastOut => refused' = refused
  /\ lastOut' = lastOut \/ (m.type = setting.trigger /\ lastOut' <= Horizon(m))

LEMMA SeqUnchanged ==
  ASSUME SeqOK, UNCHANGED seqVars, setting' = setting, NEW m
  PROVE  Sequenced(m)
<1>1. UNCHANGED <<meas, lastOut, refused, trigTime, out>>
  BY DEF seqVars
<1>2. SeqOK'
  BY <1>1 DEF SeqOK, Sorted
<1> QED BY <1>1, <1>2 DEF Sequenced

LEMMA WriteKeeps ==
  ASSUME SeqOK, NEW m \in Measurement, NEW a, WriteMeas(a, m), setting' = setting
  PROVE  Sequenced(m)
<1>1. CASE Sequence(m) BY <1>1, SequenceKeeps DEF Sequenced
<1>2. CASE UNCHANGED seqVars BY <1>2, SeqUnchanged
<1> QED BY <1>1, <1>2 DEF WriteMeas
-----------------------------------------------------------------------------
(* The files *)

(* Odometry goes up; the file to write next has the oldest datum of all    *)
(* that are left, and none of those is older than the last one written.    *)
FilesOK ==
  /\ odom \in Nat /\ odomTime \in Nat /\ pause \in Nat /\ odomTo \in BOOLEAN
  /\ odomRest \in SUBSET Nat /\ \A x \in odomRest : odom < x
  /\ next \in [Files -> SUBSET Nat]
  /\ cur # 0 => /\ cur \in Files /\ next[cur] # {}
                /\ \A f \in Files : \A x \in next[f] : First(next[cur]) <= x
  /\ wrote.time \in Nat
  /\ \A f \in Files : \A x \in next[f] : wrote.time <= x
  /\ odomTo => odomTime = odom

(* The odometry is still written, and its pauses are within the margin. *)
Mendable == odomTo /\ (setting.trigger = "fake" => pause <= setting.margin)

(* Then nothing that went out is later than what is still to come. *)
Timely ==
  Mendable => /\ ~refused /\ lastOut <= odom
              /\ \A f \in Files : \A x \in next[f] : lastOut <= x

IInv == SeqOK /\ FilesOK /\ Timely

LEMMA InitHolds == Init => IInv
<1> SUFFICES ASSUME Init PROVE IInv
  OBVIOUS
<1>1. PICK f \in OdomFiles : odom = First(f) /\ odomRest = Rest(f) /\ odomTime = First(f)
  BY DEF Init
<1>2. f \in SUBSET Nat /\ f # {}
  BY ReplayAssumption
<1>3. odom \in Nat /\ odomRest \in SUBSET Nat /\ \A x \in odomRest : odom < x
  <2>1. Min(f) \in f /\ \A y \in f : Min(f) <= y
    BY <1>2, MinIsLeast
  <2>2. odom = Min(f) /\ odomRest = f \ {Min(f)}
    BY <1>1 DEF First, Rest
  <2>3. Min(f) \in Nat
    BY <1>2, <2>1
  <2>4. \A x \in f \ {Min(f)} : x \in Nat /\ Min(f) < x
    BY <1>2, <2>1, <2>3
  <2> QED BY <2>2, <2>3, <2>4
<1>4. next \in [Files -> SUBSET Nat]
  <2>1. DataFiles \subseteq SUBSET Nat
    BY ReplayAssumption
  <2> QED BY <2>1 DEF Init
<1>5. SeqOK
  <2>1. setting \in [trigger : Types, margin : Nat]
    BY ReplayAssumption DEF Init
  <2>2. meas = <<>> /\ Len(meas) = 0 /\ meas \in Seq(Measurement)
    BY DEF Init
  <2>3. Sorted(meas) /\ \A n \in 1 .. Len(meas) : lastOut <= meas[n].time
    BY <2>2 DEF Sorted
  <2>4. lastOut \in Nat /\ trigTime \in Int /\ refused \in BOOLEAN
    <3>1. lastOut = 0 /\ trigTime = -1 /\ refused = FALSE
      BY Zenon DEF Init
    <3>2. refused \in BOOLEAN
      BY <3>1, Zenon
    <3>3. -1 \in Int
      OBVIOUS
    <3>4. trigTime \in Int
      BY <3>1, <3>3, Zenon
    <3>5. lastOut \in Nat
      BY <3>1
    <3> QED BY <3>2, <3>4, <3>5
  <2> QED BY <2>1, <2>2, <2>3, <2>4 DEF SeqOK
<1>6. FilesOK
  BY <1>1, <1>3, <1>4 DEF Init, FilesOK
<1>7. Timely
  BY <1>3, <1>4 DEF Init, Timely
<1> QED BY <1>5, <1>6, <1>7 DEF IInv

(* step() chooses the file with the oldest datum. *)
LEMMA OldestIsOldest ==
  ASSUME FilesOK, Unwritten # {}
  PROVE  /\ Oldest \in Files /\ Oldest # 0 /\ next[Oldest] # {}
         /\ \A f \in Files : \A x \in next[f] : First(next[Oldest]) <= x
<1> DEFINE Firsts == {First(next[f]) : f \in Unwritten}
           Early == {f \in Unwritten : First(next[f]) = Min(Firsts)}
<1>1. \A f \in Unwritten : /\ f \in Files /\ f \in Nat \ {0} /\ First(next[f]) \in Nat
                           /\ \A x \in next[f] : First(next[f]) <= x
  <2> SUFFICES ASSUME NEW f \in Unwritten
               PROVE  /\ f \in Files /\ f \in Nat \ {0} /\ First(next[f]) \in Nat
                      /\ \A x \in next[f] : First(next[f]) <= x
    OBVIOUS
  <2>1. f \in Files /\ next[f] \in SUBSET Nat /\ next[f] # {}
    BY DEF FilesOK, Unwritten
  <2>2. f \in Nat \ {0}
    BY <2>1, ReplayAssumption
  <2>3. First(next[f]) \in next[f] /\ \A x \in next[f] : First(next[f]) <= x
    BY <2>1, MinIsLeast DEF First
  <2> QED BY <2>1, <2>2, <2>3
<1>2. Min(Firsts) \in Firsts /\ \A y \in Firsts : Min(Firsts) <= y
  <2>1. Firsts \in SUBSET Nat /\ Firsts # {}
    BY <1>1
  <2> HIDE DEF Firsts
  <2> QED BY <2>1, MinIsLeast
<1>3. Min(Early) \in Early /\ \A g \in Early : Min(Early) <= g
  <2>1. Early \in SUBSET Nat /\ Early # {}
    BY <1>1, <1>2
  <2> HIDE DEF Early
  <2> QED BY <2>1, MinIsLeast
<1>4. \E f \in Unwritten : \A g \in Unwritten :
        \/ First(next[f]) < First(next[g])
        \/ First(next[f]) = First(next[g]) /\ f <= g
  <2> DEFINE f == Min(Early)
  <2>1. f \in Unwritten /\ First(next[f]) = Min(Firsts)
    BY <1>3
  <2>2. ASSUME NEW g \in Unwritten
        PROVE  \/ First(next[f]) < First(next[g])
               \/ First(next[f]) = First(next[g]) /\ f <= g
    <3>1. First(next[g]) \in Firsts /\ Min(Firsts) <= First(next[g])
      BY <1>2
    <3>2. CASE g \in Early
      BY <1>3, <2>1, <3>2
    <3>3. CASE g \notin Early
      <4>1. First(next[g]) # Min(Firsts)
        BY <3>3
      <4>2. First(next[g]) \in Nat /\ Min(Firsts) \in Nat
        BY <1>1, <2>1
      <4> QED BY <2>1, <3>1, <4>1, <4>2
    <3> QED BY <3>2, <3>3
  <2> QED BY <2>1, <2>2
<1>5. /\ Oldest \in Unwritten
      /\ \A g \in Unwritten : First(next[Oldest]) < First(next[g])
                             \/ First(next[Oldest]) = First(next[g])
  BY <1>4 DEF Oldest
<1>6. ASSUME NEW f \in Files, NEW x \in next[f] PROVE First(next[Oldest]) <= x
  <2>1. f \in Unwritten /\ x \in Nat
    BY DEF Unwritten, FilesOK
  <2> QED BY <1>1, <1>5, <2>1
<1> QED BY <1>1, <1>5, <1>6 DEF Unwritten
-----------------------------------------------------------------------------
(* The steps *)

(* The rest of a set of times is later than its first. *)
LEMMA FirstAndRest ==
  ASSUME NEW S \in SUBSET Nat, S # {}
  PROVE  /\ First(S) \in S /\ First(S) \in Nat
         /\ Rest(S) \in SUBSET S /\ \A x \in Rest(S) : First(S) < x
<1>1. Min(S) \in S /\ \A y \in S : Min(S) <= y
  BY MinIsLeast
<1>2. Min(S) \in Nat
  BY <1>1
<1>3. \A x \in S \ {Min(S)} : x \in Nat /\ Min(S) < x
  BY <1>1, <1>2
<1> QED BY <1>1, <1>2, <1>3 DEF First, Rest

(* Odometry is read while everything the files still have is later: the    *)
(* empty measurement lets nothing out that is later than the odometry it   *)
(* passed, as the margin covers the pause.                                 *)
LEMMA OdomRead ==
  ASSUME IInv, odomRest # {}, odom' = First(odomRest), odomRest' = Rest(odomRest),
         pause' = Max({pause, odom' - odom}),
         odomTo' \in BOOLEAN, odomTo' => odomTo /\ odomTime' = odom',
         odomTime' \in Nat,
         UNCHANGED <<fileVars, setting>>,
         \A f \in Files : \A x \in next[f] : odom <= x,
         Sequenced(Fake(odomTime'))
  PROVE  IInv'
<1>1. /\ odom \in Nat /\ odom' \in Nat /\ odom < odom'
      /\ odomRest' \in SUBSET Nat /\ \A x \in odomRest' : odom' < x
  <2>1. odomRest \in SUBSET Nat /\ odom \in Nat /\ \A x \in odomRest : odom < x
    BY DEF IInv, FilesOK
  <2> QED BY <2>1, FirstAndRest
<1>2. pause' \in Nat /\ pause <= pause' /\ odom' - odom <= pause'
  <2>1. pause \in Nat /\ odom' - odom \in Int /\ 0 <= odom' - odom
    BY <1>1 DEF IInv, FilesOK
  <2> DEFINE p == odom' - odom
  <2>2. p \in Int /\ 0 <= p /\ pause \in Int /\ pause' = Max({pause, p})
    BY <2>1
  <2> HIDE DEF p
  <2>3. pause' \in {pause, p} /\ pause <= pause' /\ p <= pause'
    BY <2>2, MaxOfTwo
  <2>4. pause' \in Nat
    BY <2>1, <2>2, <2>3
  <2> QED BY <2>3, <2>4 DEF p
<1>3. next' = next /\ cur' = cur /\ wrote' = wrote /\ setting' = setting
  BY DEF fileVars
<1>4. FilesOK'
  BY <1>1, <1>2, <1>3 DEF IInv, FilesOK
<1>5. SeqOK'
  BY DEF Sequenced
<1>6. ASSUME Mendable'
      PROVE  /\ ~refused' /\ lastOut' <= odom'
             /\ \A f \in Files : \A x \in next'[f] : lastOut' <= x
  <2>1. /\ setting.margin \in Nat /\ pause \in Nat /\ lastOut \in Nat /\ lastOut' \in Nat
    BY <1>5 DEF IInv, SeqOK, FilesOK
  <2>2. odomTime' = odom' /\ odomTo /\ (setting.trigger = "fake" => pause' <= setting.margin)
    BY <1>3, <1>6 DEF Mendable
  <2>3. Mendable
    BY <1>2, <2>1, <2>2 DEF Mendable
  <2>4. ~refused /\ lastOut <= odom
    BY <2>3 DEF IInv, Timely
  <2>5. /\ Fake(odomTime').time = odom' /\ Fake(odomTime').type = "fake"
        /\ Horizon(Fake(odomTime')) = odom' - setting.margin
    BY <2>2 DEF Fake, Horizon
  <2>6. ~refused'
    BY <1>1, <2>1, <2>4, <2>5 DEF Sequenced
  <2>7. lastOut' <= odom
    <3>1. CASE lastOut' = lastOut BY <2>4, <3>1
    <3>2. CASE setting.trigger = "fake" /\ lastOut' <= odom' - setting.margin
      BY <1>1, <1>2, <2>1, <2>2, <3>2
    <3> QED BY <2>5, <3>1, <3>2 DEF Sequenced
  <2>8. \A f \in Files : \A x \in next[f] : x \in Nat
    BY DEF IInv, FilesOK
  <2> QED BY <1>1, <1>3, <2>1, <2>6, <2>7, <2>8
<1> QED BY <1>4, <1>5, <1>6 DEF IInv, Timely

(* In the loop the file's datum is later than the odometry. *)
LEMMA CatchUpKeeps ==
  ASSUME IInv, CatchUp, ReadOdom
  PROVE  IInv' /\ \E m : Sequenced(m)
<1>1. \A f \in Files : \A x \in next[f] : odom <= x
  <2>1. cur \in Files /\ next[cur] # {} /\ odom \in Nat /\ next \in [Files -> SUBSET Nat]
    BY DEF IInv, FilesOK, CatchUp
  <2>2. First(next[cur]) \in Nat
    BY <2>1, FirstAndRest
  <2>3. odom < First(next[cur])
    BY <2>1, <2>2 DEF CatchUp, CaughtUp
  <2>4. \A f \in Files : \A x \in next[f] : x \in Nat /\ First(next[cur]) <= x
    BY <2>1 DEF IInv, FilesOK, CatchUp
  <2> QED BY <2>1, <2>2, <2>3, <2>4
<1>2. odom' \in Nat /\ odomTime' \in Nat
  <2>1. odomRest \in SUBSET Nat /\ odomRest # {} /\ odomTime \in Nat
    BY DEF IInv, FilesOK, ReadOdom
  <2> QED BY <2>1, FirstAndRest DEF ReadOdom
<1>3. Sequenced(Fake(odomTime'))
  <2>1. Fake(odomTime') \in Measurement
    BY <1>2 DEF Fake, Measurement, Types
  <2> QED BY <2>1, WriteKeeps DEF IInv, ReadOdom
<1>4. odomTo' \in BOOLEAN /\ (odomTo' => odomTo /\ odomTime' = odom')
  BY DEF ReadOdom
<1> QED BY <1>1, <1>2, <1>3, <1>4, OdomRead DEF ReadOdom

(* After the last datum of the files there is nothing to be late for. *)
LEMMA OdomOnlyKeeps ==
  ASSUME IInv, Unwritten = {}, ReadOdomOnly
  PROVE  IInv' /\ \E m : Sequenced(m)
<1>1. \A f \in Files : \A x \in next[f] : odom <= x
  BY DEF Unwritten
<1>2. odom' \in Nat /\ odomTime' \in Nat
  <2>1. odomRest \in SUBSET Nat /\ odomRest # {} /\ odomTime \in Nat
    BY DEF IInv, FilesOK, ReadOdomOnly
  <2> QED BY <2>1, FirstAndRest DEF ReadOdomOnly
<1>3. Sequenced(Fake(odomTime'))
  <2>1. Fake(odomTime') \in Measurement
    BY <1>2 DEF Fake, Measurement, Types
  <2>2. CASE odomTo BY <2>1, <2>2, WriteKeeps DEF IInv, ReadOdomOnly
  <2>3. CASE ~odomTo BY <2>1, <2>3, SeqUnchanged DEF IInv, ReadOdomOnly
  <2> QED BY <2>2, <2>3
<1>4. odomTo' \in BOOLEAN /\ (odomTo' => odomTo /\ odomTime' = odom')
  BY DEF ReadOdomOnly
<1> QED BY <1>1, <1>2, <1>3, <1>4, OdomRead DEF ReadOdomOnly

(* A datum of a file is as old as the odometry or older, and older than    *)
(* all that follow it.                                                     *)
LEMMA DataKeeps ==
  ASSUME IInv, WriteData
  PROVE  /\ IInv' /\ \E m : Sequenced(m)
         /\ wrote'.time >= wrote.time
         /\ odomTo => wrote'.odom >= wrote'.time
<1> DEFINE t == First(next[cur])
           m == [time |-> t, type |-> TypeOf[cur]]
<1>1. /\ cur \in Files /\ next \in [Files -> SUBSET Nat] /\ next[cur] \in SUBSET Nat
      /\ next[cur] # {} /\ wrote.time \in Nat /\ odom \in Nat /\ t <= odom
  BY DEF IInv, FilesOK, WriteData, CaughtUp
<1>2. /\ t \in next[cur] /\ t \in Nat
      /\ Rest(next[cur]) \in SUBSET next[cur]
  BY <1>1, FirstAndRest
<1>3. m \in Measurement
  BY <1>1, <1>2, ReplayAssumption DEF Measurement
<1>4. /\ next' = [next EXCEPT ![cur] = Rest(next[cur])] /\ cur' = 0
      /\ wrote' = [time |-> t, odom |-> odomTime]
      /\ UNCHANGED <<odomVars, setting>>
  BY DEF WriteData
<1>5. Sequenced(m)
  BY <1>3, <1>4, WriteKeeps DEF IInv, WriteData
<1>6. \A f \in Files : \A x \in next'[f] : x \in next[f] /\ x \in Nat /\ t <= x
  <2>1. \A f \in Files : \A x \in next[f] : x \in Nat /\ t <= x
    BY <1>1 DEF IInv, FilesOK, WriteData
  <2>2. \A f \in Files : next'[f] \subseteq next[f]
    BY <1>1, <1>2, <1>4
  <2> QED BY <2>1, <2>2
<1> HIDE DEF t
<1>7. FilesOK'
  <2>1. /\ odom' = odom /\ odomTime' = odomTime /\ pause' = pause /\ odomTo' = odomTo
        /\ odomRest' = odomRest
    BY <1>4 DEF odomVars
  <2>2. next' \in [Files -> SUBSET Nat]
    BY <1>1, <1>2, <1>4
  <2>3. wrote'.time = t
    BY <1>4
  <2> QED BY <1>2, <1>4, <1>6, <2>1, <2>2, <2>3 DEF IInv, FilesOK
<1>8. ASSUME Mendable'
      PROVE  /\ ~refused' /\ lastOut' <= odom'
             /\ \A f \in Files : \A x \in next'[f] : lastOut' <= x
  <2>1. Mendable /\ odom' = odom
    BY <1>4, <1>8 DEF Mendable, odomVars
  <2>2. ~refused /\ lastOut <= odom /\ lastOut <= t
    BY <1>1, <1>2, <2>1 DEF IInv, Timely
  <2>3. lastOut \in Nat /\ lastOut' \in Nat /\ setting.margin \in Nat
    BY <1>5 DEF IInv, SeqOK, Sequenced
  <2>4. m.time = t /\ Horizon(m) = t - setting.margin
    BY DEF Horizon
  <2>5. ~refused'
    BY <1>2, <1>5, <2>2, <2>3, <2>4 DEF Sequenced
  <2>6. lastOut' <= t
    <3>1. CASE lastOut' = lastOut BY <2>2, <3>1
    <3>2. CASE lastOut' <= Horizon(m) BY <1>2, <2>3, <2>4, <3>2
    <3> HIDE DEF m
    <3> QED BY <1>5, <3>1, <3>2 DEF Sequenced
  <2> QED BY <1>1, <1>2, <1>6, <2>1, <2>3, <2>5, <2>6
<1>9. IInv'
  BY <1>5, <1>7, <1>8 DEF IInv, Timely, Sequenced
<1>10. wrote'.time = t /\ wrote'.odom = odomTime /\ wrote.time <= t
  BY <1>1, <1>2, <1>4 DEF IInv, FilesOK
<1>11. odomTo => odomTime = odom
  BY DEF IInv, FilesOK
<1> HIDE DEF m
<1> QED BY <1>1, <1>2, <1>5, <1>9, <1>10, <1>11

(* What leaves the sequencer, the odometry and the data alone. *)
LEMMA RestKeeps ==
  ASSUME IInv, UNCHANGED <<odom, odomRest, odomTo, odomTime, pause, next, wrote, setting,
                           seqVars>>,
         \/ cur' = cur \/ cur' = 0
         \/ cur' = Oldest /\ Unwritten # {}
  PROVE  IInv' /\ \E m : Sequenced(m)
<1>1. Sequenced(Fake(0))
  BY SeqUnchanged DEF IInv
<1>2. cur' # 0 => /\ cur' \in Files /\ next[cur'] # {}
                  /\ \A f \in Files : \A x \in next[f] : First(next[cur']) <= x
  <2>1. CASE cur' = cur BY <2>1 DEF IInv, FilesOK
  <2>2. CASE cur' = Oldest /\ Unwritten # {} BY <2>2, OldestIsOldest DEF IInv
  <2> QED BY <2>1, <2>2
<1>3. FilesOK'
  BY <1>2 DEF IInv, FilesOK
<1>4. Timely'
  BY DEF IInv, Timely, Mendable, seqVars
<1> QED BY <1>1, <1>3, <1>4 DEF IInv, Sequenced

LEMMA StepKeeps ==
  ASSUME IInv, [Next]_vars
  PROVE  /\ IInv' /\ \E m : Sequenced(m)
         /\ wrote' # wrote => /\ wrote'.time >= wrote.time
                              /\ odomTo => wrote'.odom >= wrote'.time
<1>1. ASSUME NEW a \in Addresses, Delete(a)
      PROVE  IInv' /\ (\E m : Sequenced(m)) /\ wrote' = wrote
  BY <1>1, RestKeeps DEF Delete, odomVars, fileVars
<1>2. CASE Begin
  BY <1>2, RestKeeps DEF Begin, odomVars
<1>3. CASE CloseOdom
  BY <1>3, RestKeeps DEF CloseOdom
<1>4. CASE CatchUp /\ ReadOdom
  <2>1. wrote' = wrote
    BY <1>4 DEF ReadOdom, fileVars
  <2> QED BY <1>4, <2>1, CatchUpKeeps
<1>5. CASE NoMoreData /\ ReadOdomOnly
  <2>1. wrote' = wrote /\ Unwritten = {}
    BY <1>5 DEF ReadOdomOnly, NoMoreData, fileVars
  <2> QED BY <1>5, <2>1, OdomOnlyKeeps
<1>6. CASE WriteData
  BY <1>6, DataKeeps
<1>7. CASE UNCHANGED vars
  BY <1>7, RestKeeps DEF vars, odomVars, fileVars
<1> QED BY <1>1, <1>2, <1>3, <1>4, <1>5, <1>6, <1>7 DEF Next, Step, CatchUp, NoMoreData
-----------------------------------------------------------------------------
LEMMA Inductive == Spec => []IInv
<1>1. Init => IInv
  BY InitHolds
<1>2. IInv /\ [Next]_vars => IInv'
  BY StepKeeps
<1> QED BY <1>1, <1>2, PTL DEF Spec

(* No measurement of any files comes too late for the sequencer, whatever  *)
(* triggers it, while the odometry is written and the margin covers its    *)
(* pauses when it is the trigger: FileAddressManager::step and             *)
(* MeasSequencer::write together.                                          *)
THEOREM NothingComesLate == Spec => []NothingRefused
<1>1. IInv => NothingRefused
  BY DEF IInv, Timely, Mendable, NothingRefused
<1> QED BY <1>1, Inductive, PTL

(* What MeasSequencer::write puts out is never older than what went before *)
(* and includes all that a trigger asks for.                               *)
THEOREM SequencedInOrder == Spec => OutInOrder
<1>1. IInv /\ [Next]_vars =>
        [/\ out' # out => out' >= lastOut
         /\ trigTime' # trigTime => \A n \in DOMAIN meas' : meas'[n].time > trigTime']_seqVars
  BY StepKeeps DEF Sequenced
<1> QED BY <1>1, Inductive, PTL DEF Spec, OutInOrder

(* FileAddressManager::step writes the data of all files oldest first,     *)
(* each behind an odometry that is as new.                                 *)
THEOREM OdometryIsAhead == Spec => OdomAhead
<1>1. IInv /\ [Next]_vars =>
        [wrote' # wrote => /\ wrote'.time >= wrote.time
                           /\ odomTo => wrote'.odom >= wrote'.time]_vars
  BY StepKeeps
<1> QED BY <1>1, Inductive, PTL DEF Spec, OdomAhead
-----------------------------------------------------------------------------
(* MotionControl: what CollisionAvoidance takes for stopped does not move,  *)
(* for any users, priorities and timeouts.  A STOP is pushed with the       *)
(* priority that OutputCommand happens to have, so the argument is about    *)
(* that priority: as long as the drive moves, neither it nor the priority   *)
(* of the current command is below the one the drive executes.              *)

(* A moving drive refuses neither a stop nor the next speed. *)
Reached ==
  drive.moving => drive.prio <= outPrio /\ drive.prio <= current.prio

(* Only a speed is driven. *)
DrivesSpeed == ~stoped => current.type = "SPEED"

MotionInv == TypeOK /\ Reached /\ DrivesSpeed /\ StoppedIsStopped

(* A stop that is pushed with at least the priority of the drive stops it, *)
(* and one that is refused leaves it as it was.                            *)
LEMMA StopStops ==
  ASSUME NEW d \in [prio : 0..MaxPriority, moving : BOOLEAN], NEW p \in 0..MaxPriority,
         d.moving => d.prio <= p
  PROVE  /\ Driven(d, "STOP", p) \in [prio : 0..MaxPriority, moving : BOOLEAN]
         /\ ~Driven(d, "STOP", p).moving
BY MotionAssumption DEF Driven

(* A release moves nothing. *)
LEMMA ReleaseKeeps ==
  ASSUME NEW d \in [prio : 0..MaxPriority, moving : BOOLEAN], NEW p \in 0..MaxPriority
  PROVE  /\ Driven(d, "RELEASE", p) \in [prio : 0..MaxPriority, moving : BOOLEAN]
         /\ Driven(d, "RELEASE", p).moving = d.moving
BY MotionAssumption DEF Driven

(* What is left of the time is a time. *)
LEMMA LeftInTime ==
  ASSUME TypeOK, NEW t \in Elapsed, TimeLeft(t)
  PROVE  timeout' \in 0..MaxTimeout /\ fresh' = FALSE
BY MotionAssumption DEF TypeOK, TimeLeft, Elapsed

LEMMA MotionInitHolds == MotionInit => MotionInv
BY MotionAssumption DEF MotionInit, MotionInv, TypeOK, Reached, DrivesSpeed, StoppedIsStopped, Command

LEMMA MotionStepKeeps == MotionInv /\ [MotionNext]_motionVars => MotionInv'
<1> SUFFICES ASSUME MotionInv, [MotionNext]_motionVars PROVE MotionInv'
  OBVIOUS
<1> USE MotionAssumption
<1> USE DEF MotionInv, TypeOK, Reached, DrivesSpeed, StoppedIsStopped, pathVars
<1>1. /\ drive \in [prio : 0..MaxPriority, moving : BOOLEAN]
      /\ outPrio \in 0..MaxPriority /\ current.prio \in 0..MaxPriority
  OBVIOUS
<1>2. /\ StoppedDrive \in [prio : 0..MaxPriority, moving : BOOLEAN]
      /\ ~StoppedDrive.moving
  BY <1>1, StopStops DEF StoppedDrive
<1>3. ASSUME NEW u \in Users, NEW prio \in Priorities, Speed(u, prio)
      PROVE  MotionInv'
  <2>1. /\ prio \in 0..MaxPriority /\ current.prio <= prio
        /\ current' = [type |-> "SPEED", prio |-> prio, sender |-> u]
        /\ outPrio' = outPrio
    BY <1>1, <1>3 DEF Speed, LetsIn, Command, Priorities
  <2>2. \/ stoped' = FALSE /\ drive' = drive
        \/ stoped' = TRUE /\ drive' = StoppedDrive
    BY <1>3 DEF Speed
  <2>3. timeout' \in 0..MaxTimeout /\ fresh' = TRUE /\ avoidOn' = avoidOn
    BY <1>3 DEF Speed
  <2>4. TypeOK'
    BY <1>1, <1>2, <2>1, <2>2, <2>3
  <2>5. Reached' /\ DrivesSpeed' /\ StoppedIsStopped'
    BY <1>1, <1>2, <2>1, <2>2
  <2> QED
    BY <2>4, <2>5
<1>4. ASSUME NEW u \in Users, NEW prio \in Priorities, Stop(u, prio)
      PROVE  MotionInv'
  <2>1. /\ drive' \in [prio : 0..MaxPriority, moving : BOOLEAN]
        /\ ~drive'.moving
    BY <1>1, <1>2, <1>4, StopStops DEF Stop
  <2> QED
    BY <1>1, <1>4, <2>1 DEF Stop, Command, Priorities
<1>5. ASSUME NEW u \in Users, NEW prio \in Priorities, AvoidOn(u, prio)
      PROVE  MotionInv'
  BY <1>1, <1>5 DEF AvoidOn
<1>6. ASSUME NEW u \in Users, NEW prio \in Priorities, AvoidOff(u, prio)
      PROVE  MotionInv'
  <2>1. /\ drive' = StoppedDrive /\ stoped' = TRUE /\ avoidOn' = FALSE
        /\ current' = [type |-> "SET", prio |-> prio, sender |-> u]
        /\ UNCHANGED <<outPrio, timeout, fresh>>
    BY <1>6 DEF AvoidOff, Command
  <2>2. drive' \in [prio : 0..MaxPriority, moving : BOOLEAN] /\ ~drive'.moving
    BY <1>2, <2>1
  <2>3. current'.prio \in 0..MaxPriority /\ current'.sender \in Users /\ current'.type = "SET"
    BY <2>1 DEF Priorities
  <2>4. TypeOK'
    <3>1. current' \in [type : {"none", "SPEED", "STOP", "SET", "RELEASE"},
                       prio : 0..MaxPriority, sender : Users \cup {Nobody}]
      BY <2>1, <2>3
    <3>2. stoped' \in BOOLEAN /\ avoidOn' \in BOOLEAN
      BY <2>1
    <3> QED
      BY <2>1, <2>2, <3>1, <3>2
  <2>5. Reached' /\ DrivesSpeed' /\ StoppedIsStopped'
    BY <2>1, <2>2
  <2> QED
    BY <2>4, <2>5
<1>7. ASSUME NEW u \in Users, NEW prio \in Priorities, Release(u, prio)
      PROVE  MotionInv'
  <2>1. /\ drive' \in [prio : 0..MaxPriority, moving : BOOLEAN]
        /\ ~drive'.moving
    BY <1>1, <1>2, <1>7, ReleaseKeeps DEF Release
  <2> QED
    BY <1>1, <1>7, <2>1 DEF Release, Command, Priorities
<1>8. ASSUME NEW t \in Elapsed, GoalReached(t)
      PROVE  MotionInv'
  BY <1>1, <1>2, <1>8 DEF GoalReached
<1>9. ASSUME NEW t \in Elapsed, Unreachable(t)
      PROVE  MotionInv'
  <2>1. timeout' \in 0..MaxTimeout /\ fresh' = FALSE
    BY <1>9, LeftInTime DEF Unreachable
  <2> QED
    BY <2>1, <1>9 DEF Unreachable
<1>10. ASSUME NEW t \in Elapsed, Drive(t)
       PROVE  MotionInv'
  <2>1. timeout' \in 0..MaxTimeout /\ fresh' = FALSE
    BY <1>10, LeftInTime DEF Drive
  <2>2. /\ drive' \in [prio : 0..MaxPriority, moving : BOOLEAN]
        /\ drive'.moving => drive'.prio <= current.prio
    BY <1>1, <1>10 DEF Drive, Driven
  <2>3. outPrio' = current.prio /\ current' = current /\ stoped' = stoped /\ avoidOn' = avoidOn
    BY <1>10 DEF Drive
  <2>4. DrivesSpeed' /\ StoppedIsStopped'
    BY <1>10, <2>3 DEF Drive
  <2> QED
    BY <1>1, <2>1, <2>2, <2>3, <2>4
<1>11. CASE UNCHANGED motionVars
  BY <1>11 DEF motionVars
<1> QED
  BY <1>3, <1>4, <1>5, <1>6, <1>7, <1>8, <1>9, <1>10, <1>11
     DEF MotionNext, AnySpeed, Calc

(* The variables have their types. *)
THEOREM MotionTypeCorrect == MotionSpec => []TypeOK
<1>1. MotionInv => TypeOK
  BY DEF MotionInv
<1> QED
  BY <1>1, MotionInitHolds, MotionStepKeeps, PTL DEF MotionSpec

(* What the avoidance takes for stopped does not move. *)
THEOREM StopIsObeyed == MotionSpec => []StoppedIsStopped
<1>1. MotionInv => StoppedIsStopped
  BY DEF MotionInv
<1> QED
  BY <1>1, MotionInitHolds, MotionStepKeeps, PTL DEF MotionSpec
=============================================================================
