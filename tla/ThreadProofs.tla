---------------------------- MODULE ThreadProofs ----------------------------
(***************************************************************************)
(* Theorems about the threads of an AddressBank.                           *)
(*                                                                         *)
(* The pusher thread of a ThreadMerger, with any number of writers, ports  *)
(* and address spaces.                                                     *)
(*                                                                         *)
(* The locks of the address spaces: no address is removed while it is      *)
(* called, and none that has not asked for it is called without its lock,  *)
(* for any threads, spaces, switchers and addresses, and whatever threads  *)
(* wait for each other.  Who calls an address holds the lock of its space, *)
(* or calls it by a permit.  The one who deletes it holds the lock of its  *)
(* space too, and those of all the spaces with a permit, one of which the  *)
(* caller holds.                                                           *)
(***************************************************************************)
EXTENDS ThreadMerger, ThreadSpaces, SequenceTheorems, TLAPS

(* Moving the head of a queue into empty hands changes no concatenation. *)
LEMMA HeadMoves ==
  ASSUME NEW S, NEW a \in Seq(S), NEW q \in Seq(S), q # <<>>
  PROVE  /\ <<Head(q)>> \in Seq(S) /\ Tail(q) \in Seq(S)
         /\ Len(Tail(q)) = Len(q) - 1
         /\ (a \o <<>>) \o q = (a \o <<Head(q)>>) \o Tail(q)
<1>1. Head(q) \in S /\ Tail(q) \in Seq(S) /\ Len(Tail(q)) = Len(q) - 1
  BY HeadTailProperties
<1>2. q = <<Head(q)>> \o Tail(q) BY <1>1
<1>3. <<Head(q)>> \in Seq(S) BY <1>1
<1>4. a \o <<>> = a OBVIOUS
<1>5. a \o (<<Head(q)>> \o Tail(q)) = (a \o <<Head(q)>>) \o Tail(q)
  BY <1>1, <1>3, ConcatAssociative
<1> QED BY <1>1, <1>2, <1>3, <1>4, <1>5

LEMMA HandsEmpty ==
  ASSUME NEW S, NEW a \in Seq(S), NEW b \in Seq(S), NEW q \in Seq(S)
  PROVE  (a \o b) \o q = ((a \o b) \o <<>>) \o q
<1>1. a \o b \in Seq(S) OBVIOUS
<1> QED BY <1>1
-----------------------------------------------------------------------------
(* Where the pusher may have a datum in its hands: it has one exactly when *)
(* it found one, from the queue to the end of the push.                    *)
Hands ==
  /\ ppc \in {"take", "resume", "doze", "asleep", "done"} => sd = <<>>
  /\ ppc \in {"pause", "lockPause", "push"} => (nap <=> sd = <<>>)
  /\ ppc \in {"lockSpace", "pushing"} => sd # <<>>

QInv == MergerTypeOK /\ NothingLost /\ QueueLengthExact /\ Hands

LEMMA InitQInv == MergerInit => QInv
<1> SUFFICES ASSUME MergerInit PROVE QInv OBVIOUS
<1>1. MergerTypeOK
  <2>1. NoDatum \in 0 .. MaxWrites BY MergerAssumption DEF NoDatum
  <2>2. <<>> \in Seq(Item) /\ Len(<<>>) = 0 OBVIOUS
  <2>3. spaceOwner \in [PortSpaces -> {None, "pusher", "app"}] BY DEF MergerInit
  <2>4. wrote \in [Writers -> 0 .. MaxWrites] BY <2>1 DEF MergerInit
  <2>5. wpc \in [Writers -> {"idle", "signal", "fill", "report"}] BY DEF MergerInit
  <2>6. /\ queue \in Seq(Item) /\ accepted \in Seq(Item) /\ pushed \in Seq(Item)
        /\ sd \in Seq(Item) /\ Len(sd) <= 1 /\ queueLength \in Nat
    BY <2>2 DEF MergerInit
  <2>7. /\ running \in BOOLEAN /\ allowPause \in BOOLEAN /\ pushLocked \in BOOLEAN
        /\ paused \in BOOLEAN /\ nap \in BOOLEAN
    BY DEF MergerInit
  <2>8. ppc \in PusherAt /\ report \in 0 .. MaxWrites BY <2>1 DEF MergerInit, PusherAt
  <2>9. /\ pauseOwner \in {None, "pusher", "app"}
        /\ upc \in {"idle", "inside", "pausing", "paused", "stopping", "joining", "gone"}
    BY DEF MergerInit
  <2> QED BY <2>3, <2>4, <2>5, <2>6, <2>7, <2>8, <2>9 DEF MergerTypeOK
<1>2. NothingLost BY DEF MergerInit, NothingLost
<1> QED BY <1>1, <1>2 DEF MergerInit, QInv, QueueLengthExact, Hands

LEMMA NextQInv == QInv /\ [MergerNext]_mergerVars => QInv'
<1> SUFFICES ASSUME QInv, [MergerNext]_mergerVars PROVE QInv' OBVIOUS
<1> USE DEF QInv, queueVars, confVars, pusherVars, lockVars, writerVars
<1>0. MergerTypeOK /\ NothingLost /\ QueueLengthExact /\ Hands OBVIOUS
<1>1. ASSUME NEW w \in Writers, NEW p \in Ports, Enqueue(w, p) PROVE QInv'
  <2> DEFINE d == [id |-> Len(accepted) + 1, port |-> p]
  <2>1. d \in Item BY <1>1, MergerAssumption DEF Enqueue, Item, MergerTypeOK
  <2>2. queue' = queue \o <<d>> /\ accepted' = accepted \o <<d>>
    BY <1>1 DEF Enqueue
  <2>3. queue' \in Seq(Item) /\ accepted' \in Seq(Item) /\ Len(queue') = Len(queue) + 1
    BY <2>1, <2>2 DEF MergerTypeOK
  <2>4. NothingLost'
    <3>1. pushed' = pushed /\ sd' = sd BY <1>1 DEF Enqueue
    <3>2. pushed \in Seq(Item) /\ sd \in Seq(Item) /\ queue \in Seq(Item) BY DEF MergerTypeOK
    <3>3. pushed \o sd \in Seq(Item) BY <3>2
    <3>4. accepted = (pushed \o sd) \o queue BY DEF NothingLost
    <3>5. <<d>> \in Seq(Item) BY <2>1
    <3>6. ((pushed \o sd) \o queue) \o <<d>> = (pushed \o sd) \o (queue \o <<d>>)
      BY <3>2, <3>3, <3>5, ConcatAssociative, SMTT(30)
    <3> HIDE DEF d, QInv
    <3> QED BY <2>2, <3>1, <3>4, <3>6 DEF NothingLost
  <2>5. QueueLengthExact' BY <1>1, <2>3 DEF Enqueue, QueueLengthExact
  <2>6. Hands' BY <1>1 DEF Enqueue, Hands
  <2>7. MergerTypeOK' BY <1>1, <2>1, <2>3 DEF Enqueue, Item, MergerTypeOK
  <2> QED BY <2>4, <2>5, <2>6, <2>7
<1>2. ASSUME NEW w \in Writers, Signal(w) PROVE QInv'
  <2>1. MergerTypeOK' BY <1>2 DEF Signal, Wake, MergerTypeOK, PusherAt
  <2> QED BY <1>2, <2>1 DEF Signal, Wake, NothingLost, QueueLengthExact, Hands
<1>3. ASSUME NEW w \in Writers, FillReport(w) PROVE QInv'
  <2>1. MergerTypeOK' BY <1>3 DEF FillReport, MergerTypeOK
  <2> QED BY <1>3, <2>1 DEF FillReport, NothingLost, QueueLengthExact, Hands
<1>4. ASSUME NEW w \in Writers, PushReport(w) PROVE QInv'
  <2>1. MergerTypeOK' BY <1>4, MergerAssumption DEF PushReport, MergerTypeOK, NoDatum
  <2> QED BY <1>4, <2>1 DEF PushReport, NothingLost, QueueLengthExact, Hands
<1>5. CASE Finish
  <2>1. MergerTypeOK' BY <1>5 DEF Finish, AtQueue, MergerTypeOK, PusherAt
  <2> QED BY <1>5, <2>1 DEF Finish, AtQueue, NothingLost, QueueLengthExact, Hands
<1>6. CASE FindNothing
  <2>1. MergerTypeOK' BY <1>6 DEF FindNothing, AtQueue, MergerTypeOK, PusherAt
  <2> QED BY <1>6, <2>1 DEF FindNothing, AtQueue, NothingLost, QueueLengthExact, Hands
<1>7. CASE TakeDatum
  <2>1. queue # <<>> /\ sd = <<>> /\ sd' = <<Head(queue)>> /\ queue' = Tail(queue)
    BY <1>7 DEF TakeDatum, AtQueue, Hands
  <2>2. /\ sd' \in Seq(Item) /\ queue' \in Seq(Item)
        /\ Len(queue') = Len(queue) - 1 /\ Len(sd') = 1 /\ sd' # <<>>
    BY <2>1, HeadMoves DEF MergerTypeOK
  <2>3. NothingLost'
    BY <1>7, <2>1, HeadMoves, SMTT(30) DEF TakeDatum, AtQueue, MergerTypeOK, NothingLost
  <2>4. QueueLengthExact' BY <1>7, <2>2 DEF TakeDatum, QueueLengthExact
  <2>5. Hands' BY <1>7, <2>2 DEF TakeDatum, Hands
  <2>6. queueLength' \in Nat BY <2>2, <2>4 DEF QueueLengthExact
  <2>7. MergerTypeOK'
    <3>1. /\ UNCHANGED <<accepted, running, allowPause, pushLocked, paused, pushed, pauseOwner,
                         spaceOwner, wpc, wrote, report, upc>>
          /\ ppc' = "pause" /\ nap' = FALSE
      BY <1>7 DEF TakeDatum, AtQueue
    <3>2. nap' \in BOOLEAN /\ ppc' \in PusherAt BY <3>1 DEF PusherAt
    <3>3. sd' \in Seq(Item) /\ Len(sd') <= 1 BY <2>2
    <3> QED BY <2>2, <2>6, <3>1, <3>2, <3>3 DEF MergerTypeOK
  <2> QED BY <2>3, <2>4, <2>5, <2>7
<1>8. CASE AskPause
  <2>1. MergerTypeOK' BY <1>8 DEF AskPause, MergerTypeOK, PusherAt
  <2> QED BY <1>8, <2>1 DEF AskPause, NothingLost, QueueLengthExact, Hands
<1>9. CASE LockPause
  <2>1. MergerTypeOK' BY <1>9 DEF LockPause, MergerTypeOK, PusherAt
  <2> QED BY <1>9, <2>1 DEF LockPause, NothingLost, QueueLengthExact, Hands
<1>10. CASE StartPush
  <2>1. MergerTypeOK' BY <1>10 DEF StartPush, MergerTypeOK, PusherAt
  <2> QED BY <1>10, <2>1 DEF StartPush, NothingLost, QueueLengthExact, Hands
<1>11. CASE LockSpace
  <2>1. MergerTypeOK' BY <1>11 DEF LockSpace, MergerTypeOK, PusherAt
  <2> QED BY <1>11, <2>1 DEF LockSpace, NothingLost, QueueLengthExact, Hands
<1>12. CASE EndPush
  <2>1. pushed' = pushed \o sd /\ sd' = <<>> BY <1>12 DEF EndPush
  <2>2. pushed' \in Seq(Item) BY <2>1 DEF MergerTypeOK
  <2>3. NothingLost' BY <1>12, <2>1, HandsEmpty DEF EndPush, MergerTypeOK, NothingLost
  <2>4. MergerTypeOK'
    <3>1. /\ UNCHANGED <<queue, queueLength, accepted, running, allowPause, pushLocked, paused,
                         nap, pauseOwner, wpc, wrote, report, upc>>
          /\ ppc' = "resume"
      BY <1>12 DEF EndPush
    <3>2. spaceOwner' \in [PortSpaces -> {None, "pusher", "app"}]
      BY <1>12 DEF EndPush, MergerTypeOK
    <3>3. sd' \in Seq(Item) /\ Len(sd') = 0 BY <2>1
    <3> QED BY <2>2, <3>1, <3>2, <3>3 DEF MergerTypeOK, PusherAt
  <2> QED BY <1>12, <2>3, <2>4 DEF EndPush, QueueLengthExact, Hands
<1>13. CASE EndPause
  <2>1. MergerTypeOK' BY <1>13 DEF EndPause, MergerTypeOK, PusherAt
  <2> QED BY <1>13, <2>1 DEF EndPause, NothingLost, QueueLengthExact, Hands
<1>14. CASE Doze
  <2>1. MergerTypeOK' BY <1>14 DEF Doze, MergerTypeOK, PusherAt
  <2> QED BY <1>14, <2>1 DEF Doze, NothingLost, QueueLengthExact, Hands
<1>15. CASE Timeout
  <2>1. MergerTypeOK' BY <1>15 DEF Timeout, MergerTypeOK, PusherAt
  <2> QED BY <1>15, <2>1 DEF Timeout, NothingLost, QueueLengthExact, Hands
<1>16. CASE Application
  <2> USE DEF App
  <2>1. /\ UNCHANGED <<queueVars, sd, nap, pushed, writerVars, paused>>
        /\ ppc' = ppc \/ (ppc = "asleep" /\ ppc' = "take")
    BY <1>16 DEF Application, EnterSpace, Leave, Pause, Paused, Resume, ConfigAllowPause,
                 ConfigPushLocked, Stop, StopSignal, Wake, Join
  <2>2. /\ running' \in BOOLEAN /\ allowPause' \in BOOLEAN /\ pushLocked' \in BOOLEAN
        /\ pauseOwner' \in {None, "pusher", "app"}
        /\ upc' \in {"idle", "inside", "pausing", "paused", "stopping", "joining", "gone"}
    BY <1>16 DEF Application, EnterSpace, Leave, Pause, Paused, Resume, ConfigAllowPause,
                 ConfigPushLocked, Stop, StopSignal, Join, MergerTypeOK
  <2>3. spaceOwner' \in [PortSpaces -> {None, "pusher", "app"}]
    BY <1>16 DEF Application, EnterSpace, Leave, Pause, Paused, Resume, ConfigAllowPause,
                 ConfigPushLocked, Stop, StopSignal, Join, MergerTypeOK
  <2>4. MergerTypeOK' BY <2>1, <2>2, <2>3 DEF MergerTypeOK, PusherAt
  <2> QED BY <2>1, <2>4 DEF NothingLost, QueueLengthExact, Hands
<1>17. CASE UNCHANGED mergerVars
  BY <1>17 DEF mergerVars, MergerTypeOK, NothingLost, QueueLengthExact, Hands
<1> QED BY <1>1, <1>2, <1>3, <1>4, <1>5, <1>6, <1>7, <1>8, <1>9, <1>10, <1>11, <1>12,
           <1>13, <1>14, <1>15, <1>16, <1>17 DEF MergerNext, Writer, Pusher, Take

THEOREM QueueInvariance == MergerSpec => []QInv
BY InitQInv, NextQInv, PTL DEF MergerSpec

(* The variables keep their types for any number of writers and ports. *)
THEOREM MergerTypeCorrect == MergerSpec => []MergerTypeOK
<1>1. QInv => MergerTypeOK BY DEF QInv
<1> QED BY <1>1, QueueInvariance, PTL

(* However writers, pusher, pauses and configuration interleave, the data  *)
(* accepted by write are, in order, those pushed, the one in the pusher's  *)
(* hands and those in the queue: none is lost, doubled or overtaken.       *)
THEOREM MergerLosesNothing == MergerSpec => []NothingLost
<1>1. QInv => NothingLost BY DEF QInv
<1> QED BY <1>1, QueueInvariance, PTL

(* The counter m_QueueLength never drifts from the list it counts. *)
THEOREM CounterExact == MergerSpec => []QueueLengthExact
<1>1. QInv => QueueLengthExact BY DEF QInv
<1> QED BY <1>1, QueueInvariance, PTL
-----------------------------------------------------------------------------
(* While m_AllowPause cannot be taken back, a pusher that may be paused    *)
(* holds PauseMutex from before it looks for the lock of the output's      *)
(* space to the end of the push, and an application that paused it is the  *)
(* holder.                                                                 *)
PauseInv ==
  /\ paused => pauseOwner = "pusher" /\ allowPause
  /\ upc = "paused" => pauseOwner = "app"
  /\ upc \in {"pausing", "paused"} => allowPause
  /\ ppc = "lockPause" => allowPause
  /\ allowPause /\ sd # <<>> /\ ppc \in {"push", "lockSpace", "pushing"} => paused

LEMMA NothingYet == QInv /\ accepted = <<>> => sd = <<>>
<1> SUFFICES ASSUME QInv, accepted = <<>> PROVE sd = <<>> OBVIOUS
<1>1. pushed \in Seq(Item) /\ sd \in Seq(Item) /\ queue \in Seq(Item) BY DEF QInv, MergerTypeOK
<1>2. pushed \o sd \in Seq(Item) BY <1>1
<1>3. Len((pushed \o sd) \o queue) = Len(pushed) + Len(sd) + Len(queue)
  BY <1>1, <1>2
<1>4. (pushed \o sd) \o queue = <<>> BY DEF QInv, NothingLost
<1>5. Len(pushed) + Len(sd) + Len(queue) = 0 BY <1>3, <1>4
<1>6. Len(sd) = 0 BY <1>1, <1>5
<1> QED BY <1>1, <1>6

LEMMA InitPauseInv == MergerInit => PauseInv
  BY DEF MergerInit, PauseInv

LEMMA NextPauseInv ==
  ASSUME ~ReconfigLive
  PROVE  QInv /\ PauseInv /\ [MergerNext]_mergerVars => PauseInv'
<1> SUFFICES ASSUME QInv, PauseInv, [MergerNext]_mergerVars PROVE PauseInv' OBVIOUS
<1> USE DEF queueVars, confVars, pusherVars, lockVars, writerVars
<1>1. ASSUME NEW w \in Writers, Writer(w) PROVE PauseInv'
  <2>1. /\ UNCHANGED <<paused, pauseOwner, upc, allowPause, sd>>
        /\ ppc' = ppc \/ (ppc = "asleep" /\ ppc' = "take")
    BY <1>1 DEF Writer, Enqueue, Signal, Wake, FillReport, PushReport
  <2> QED BY <2>1 DEF PauseInv
<1>2. CASE Take
  BY <1>2 DEF Take, Finish, FindNothing, TakeDatum, AtQueue, PauseInv
<1>3. CASE AskPause BY <1>3 DEF AskPause, PauseInv
<1>4. CASE LockPause BY <1>4 DEF LockPause, PauseInv, None
<1>5. CASE StartPush BY <1>5 DEF StartPush, PauseInv
<1>6. CASE LockSpace BY <1>6 DEF LockSpace, PauseInv
<1>7. CASE EndPush BY <1>7 DEF EndPush, PauseInv
<1>8. CASE EndPause BY <1>8 DEF EndPause, PauseInv, None
<1>9. CASE Doze BY <1>9 DEF Doze, PauseInv
<1>10. CASE Timeout BY <1>10 DEF Timeout, PauseInv
<1>11. ASSUME NEW b \in BOOLEAN, ConfigAllowPause(b) PROVE PauseInv'
  <2>1. sd = <<>> BY <1>11, NothingYet DEF ConfigAllowPause
  <2> QED BY <1>11, <2>1 DEF ConfigAllowPause, App, PauseInv
<1>12. ASSUME NEW b \in BOOLEAN, ConfigPushLocked(b) PROVE PauseInv'
  BY <1>12 DEF ConfigPushLocked, App, PauseInv
<1>13. ASSUME NEW sp \in PortSpaces, EnterSpace(sp) PROVE PauseInv'
  BY <1>13 DEF EnterSpace, App, PauseInv
<1>14. CASE Leave BY <1>14 DEF Leave, App, PauseInv
<1>15. CASE Pause BY <1>15 DEF Pause, App, PauseInv
<1>16. CASE Paused BY <1>16 DEF Paused, App, PauseInv, None
<1>17. CASE Resume BY <1>17 DEF Resume, App, PauseInv, None
<1>18. CASE Stop BY <1>18 DEF Stop, App, PauseInv
<1>19. CASE StopSignal BY <1>19 DEF StopSignal, Wake, App, PauseInv
<1>20. CASE Join BY <1>20 DEF Join, App, PauseInv
<1>21. CASE UNCHANGED mergerVars BY <1>21 DEF mergerVars, PauseInv
<1> QED BY <1>1, <1>2, <1>3, <1>4, <1>5, <1>6, <1>7, <1>8, <1>9, <1>10, <1>11, <1>12,
           <1>13, <1>14, <1>15, <1>16, <1>17, <1>18, <1>19, <1>20, <1>21
           DEF MergerNext, Pusher, Application

(* "This blocks untill the current data is finished being pushed": an      *)
(* application that holds the pause never runs beside a push, if pausing   *)
(* is configured once, before data comes in.                               *)
THEOREM PauseWorks ==
  ASSUME ~ReconfigLive
  PROVE  MergerSpec => []PauseExcludesPush
<1>1. MergerInit => QInv /\ PauseInv BY InitQInv, InitPauseInv
<1>2. QInv /\ PauseInv /\ [MergerNext]_mergerVars => (QInv /\ PauseInv)'
  BY NextQInv, NextPauseInv
<1>3. QInv /\ PauseInv => PauseExcludesPush
  BY DEF QInv, Hands, PauseInv, PauseExcludesPush
<1> QED BY <1>1, <1>2, <1>3, PTL DEF MergerSpec
-----------------------------------------------------------------------------
(* The refinement *)

(* A datum that is accepted goes to the end of the line, also when there   *)
(* is one in the pusher's hands.                                           *)
LEMMA EnqueueAccepts ==
  ASSUME QInv, NEW w \in Writers, NEW p \in Ports, Enqueue(w, p)
  PROVE  \E d \in Item : Merged!Accept(d)
<1> DEFINE d == [id |-> Len(accepted) + 1, port |-> p]
<1>1. d \in Item
  BY MergerAssumption DEF Enqueue, Item, QInv, MergerTypeOK
<1>2. /\ queue' = queue \o <<d>> /\ accepted' = accepted \o <<d>>
      /\ UNCHANGED <<sd, pushed, upc>>
  BY DEF Enqueue, pusherVars
<1>3. sd \in Seq(Item) /\ queue \in Seq(Item) /\ <<d>> \in Seq(Item)
  BY <1>1 DEF QInv, MergerTypeOK
<1> HIDE DEF d
<1>4. sd' \o queue' = (sd \o queue) \o <<d>>
  BY <1>2, <1>3, ConcatAssociative
<1> QED BY <1>1, <1>2, <1>4 DEF Merged!Accept

(* Taking a datum into the hands leaves the line as it is. *)
LEMMA TakeKeepsLine ==
  ASSUME QInv, TakeDatum
  PROVE  sd' \o queue' = sd \o queue
<1>1. queue # <<>> /\ sd = <<>> /\ sd' = <<Head(queue)>> /\ queue' = Tail(queue)
  BY DEF TakeDatum, AtQueue, QInv, Hands
<1>2. queue \in Seq(Item)
  BY DEF QInv, MergerTypeOK
<1>3. <<Head(queue)>> \o Tail(queue) = queue /\ <<>> \o queue = queue
  BY <1>1, <1>2, HeadTailProperties
<1> QED BY <1>1, <1>3

(* The pushed datum is the first in line, and nobody holds the pause. *)
LEMMA EndPushDelivers ==
  ASSUME QInv, PauseInv, EndPush
  PROVE  Merged!Deliver
<1>1. /\ sd # <<>> /\ sd \in Seq(Item) /\ Len(sd) <= 1 /\ queue \in Seq(Item)
      /\ upc # "paused"
  BY DEF EndPush, QInv, MergerTypeOK, Hands, PauseInv
<1>2. /\ pushed' = pushed \o sd /\ sd' = <<>> /\ UNCHANGED <<accepted, queue, upc>>
  BY DEF EndPush, queueVars
<1>3. sd = <<sd[1]>> /\ sd[1] \in Item
  <2>1. sd[1] \in Item /\ Len(sd) \in Nat /\ Len(sd) # 0
    BY <1>1, EmptySeq, LenProperties
  <2>2. Len(sd) = 1
    <3> DEFINE n == Len(sd)
    <3>1. n \in Nat /\ n # 0 /\ n <= 1
      BY <1>1, <2>1
    <3> HIDE DEF n
    <3>2. n = 1
      BY <3>1
    <3> QED BY <3>2 DEF n
  <2> QED BY <1>1, <2>1, <2>2
<1>4. /\ sd \o queue # <<>> /\ Head(sd \o queue) = sd[1] /\ Tail(sd \o queue) = queue
  <2>1. sd \o queue = <<sd[1]>> \o queue
    BY <1>3
  <2>2. /\ <<sd[1]>> \o queue # <<>>
        /\ Head(<<sd[1]>> \o queue) = sd[1]
        /\ Tail(<<sd[1]>> \o queue) = queue
    BY <1>1, <1>3
  <2> QED BY <2>1, <2>2
<1>5. sd' \o queue' = queue
  BY <1>1, <1>2
<1> QED BY <1>1, <1>2, <1>3, <1>4, <1>5 DEF Merged!Deliver

LEMMA StepIsMerged ==
  ASSUME QInv, PauseInv, [MergerNext]_mergerVars
  PROVE  [Merged!Next]_Merged!vars
<1> USE DEF queueVars, confVars, pusherVars, lockVars, writerVars
<1>1. ASSUME NEW w \in Writers, NEW p \in Ports, Enqueue(w, p)
      PROVE  Merged!Next
  BY <1>1, EnqueueAccepts DEF Merged!Next
<1>2. ASSUME NEW w \in Writers, Signal(w) \/ FillReport(w) \/ PushReport(w)
      PROVE  UNCHANGED Merged!vars
  BY <1>2 DEF Signal, FillReport, PushReport, Merged!vars
<1>3. CASE TakeDatum
  <2>1. UNCHANGED <<accepted, pushed, upc>>
    BY <1>3 DEF TakeDatum, AtQueue
  <2> QED BY <1>3, <2>1, TakeKeepsLine DEF Merged!vars
<1>4. CASE EndPush
  BY <1>4, EndPushDelivers DEF Merged!Next
<1>5. CASE \/ Finish \/ FindNothing \/ AskPause \/ LockPause \/ StartPush \/ LockSpace
           \/ EndPause \/ Doze \/ Timeout
  <2>1. UNCHANGED <<accepted, queue, sd, pushed, upc>>
    BY <1>5 DEF Finish, FindNothing, AtQueue, AskPause, LockPause, StartPush, LockSpace,
                EndPause, Doze, Timeout
  <2> QED BY <2>1 DEF Merged!vars
<1>6. CASE Application
  <2>1. UNCHANGED <<accepted, queue, sd, pushed>>
    BY <1>6 DEF Application, App, EnterSpace, Leave, Pause, Paused, Resume, ConfigAllowPause,
                ConfigPushLocked, Stop, StopSignal, Join
  <2> QED BY <2>1 DEF Merged!vars, Merged!Next, Merged!Hold
<1>7. CASE UNCHANGED mergerVars
  BY <1>7 DEF mergerVars, Merged!vars
<1> QED BY <1>1, <1>2, <1>3, <1>4, <1>5, <1>6, <1>7 DEF MergerNext, Writer, Pusher, Take

(* A merger with any number of writers, ports and spaces is a queue to its *)
(* users, which they can hold, if pausing is configured once.              *)
THEOREM MergerIsQueue ==
  ASSUME ~ReconfigLive
  PROVE  MergerSpec => MergeSpec
<1>1. MergerInit => QInv /\ PauseInv
  BY InitQInv, InitPauseInv
<1>2. QInv /\ PauseInv /\ [MergerNext]_mergerVars => (QInv /\ PauseInv)'
  BY NextQInv, NextPauseInv
<1>3. MergerInit => Merged!Init
  BY DEF MergerInit, Merged!Init
<1>4. QInv /\ PauseInv /\ [MergerNext]_mergerVars => [Merged!Next]_Merged!vars
  BY StepIsMerged
<1> QED BY <1>1, <1>2, <1>3, <1>4, PTL DEF MergerSpec, MergeSpec, Merged!Spec
-----------------------------------------------------------------------------
(* The locks of the address spaces. *)

USE SpacesAssumption

(* A thread that is not between two writes has the lock of its space. *)
HomeHeld == \A w \in Callers : pc[w] # "idle" => owner[Home[w]] = w

(* Who deletes has the lock of the address and those it has got so far. *)
DeleterHolds ==
  \A d \in Deleters : pc[d] = "permitted" =>
    /\ owner[Where[victim[d]]] = d
    /\ \A s \in done[d] : s \in Spaces => owner[s] = d

(* A client that is still there has permitted this thread's space. *)
Permitted(w, a) == a \in bank => a \in Permanent /\ Home[w] \in permits[a]

(* The check has found so of the clients it has done; a switcher that does *)
(* not lock has found it of all.                                           *)
CheckIsRight ==
  \A w \in Callers :
    /\ pc[w] = "check" /\ safe[w] => \A a \in Clients[w] \cap done[w] : Permitted(w, a)
    /\ ~locked[w] /\ Switched(w) => \A a \in Clients[w] : Permitted(w, a)

(* Who pushes has the lock or does without. *)
PushesWith ==
  \A w \in Callers :
    pc[w] \in {"push", "inside"} => owner[Out[w]] = w \/ (~locked[w] /\ Switched(w))

InsideIsClient ==
  \A w \in Callers :
    /\ inside[w] # {} => pc[w] = "inside"
    /\ inside[w] \subseteq bank \cap Clients[w]

(* A writer has no switcher when it is at home in the space of its clients. *)
NoSwitcher ==
  \A w \in Callers : ~Switched(w) =>
    ~called[w] /\ ~locked[w] /\ pc[w] \notin {"check", "lock"}

IInv ==
  /\ TypeOK /\ HomeHeld /\ DeleterHolds /\ CheckIsRight
  /\ PushesWith /\ InsideIsClient /\ NoSwitcher

LEMMA InitHolds == Init => IInv
<1> SUFFICES ASSUME Init PROVE IInv
  OBVIOUS
<1> USE DEF Init, Threads, Switched
<1>1. TypeOK
  BY DEF TypeOK
<1>2. HomeHeld /\ DeleterHolds /\ PushesWith /\ InsideIsClient
  BY DEF HomeHeld, DeleterHolds, PushesWith, InsideIsClient
<1>3. CheckIsRight
  BY DEF CheckIsRight
<1>4. NoSwitcher
  BY DEF NoSwitcher
<1> QED
  BY <1>1, <1>2, <1>3, <1>4 DEF IInv

(* One lemma for each action: it keeps every part of the invariant. *)

LEMMA EnterKeeps == ASSUME IInv, NEW w \in Callers, Enter(w) PROVE IInv'
<1> USE DEF IInv, TypeOK, Threads, Switched, Enter, Goto, Free, bankVars
<1>1. TypeOK'
  BY SMTT(30)
<1>2. HomeHeld'
  BY DEF HomeHeld
<1>3. DeleterHolds'
  BY DEF DeleterHolds
<1>4. CheckIsRight'
  BY DEF CheckIsRight, Permitted
<1>5. PushesWith'
  BY DEF PushesWith
<1>6. InsideIsClient'
  BY DEF InsideIsClient
<1>7. NoSwitcher'
  BY DEF NoSwitcher
<1> QED
  BY <1>1, <1>2, <1>3, <1>4, <1>5, <1>6, <1>7

LEMMA CheckClientKeeps == ASSUME IInv, NEW w \in Callers, CheckClient(w) PROVE IInv'
<1> USE DEF IInv, TypeOK, Threads, Switched, CheckClient, Done, Free, Permit, AllSafe
<1>1. TypeOK'
  OBVIOUS
<1>2. HomeHeld'
  BY DEF HomeHeld
<1>3. DeleterHolds'
  BY DEF DeleterHolds
<1>4. CheckIsRight'
  <2>1. PICK c \in Clients[w] \ done[w] :
          /\ permits' = Permit(c, Home[w])
          /\ safe' = [safe EXCEPT ![w] = AllSafe(w, c)]
          /\ Done(w, c)
    OBVIOUS
  <2>2. \A v \in Callers, a \in Addrs : Permitted(v, a) => Permitted(v, a)'
    BY <2>1 DEF Permitted
  <2>3. safe'[w] => safe[w] /\ Permitted(w, c)'
    BY <2>1 DEF Permitted
  <2>4. \A v \in Callers \ {w} : safe'[v] = safe[v] /\ done'[v] = done[v]
    BY <2>1
  <2>5. done'[w] = done[w] \cup {c}
    BY <2>1
  <2> QED
    BY <2>2, <2>3, <2>4, <2>5 DEF CheckIsRight
<1>5. PushesWith'
  BY DEF PushesWith
<1>6. InsideIsClient'
  BY DEF InsideIsClient
<1>7. NoSwitcher'
  BY DEF NoSwitcher
<1> QED
  BY <1>1, <1>2, <1>3, <1>4, <1>5, <1>6, <1>7

LEMMA CheckDoneKeeps == ASSUME IInv, NEW w \in Callers, CheckDone(w) PROVE IInv'
<1> USE DEF IInv, TypeOK, Threads, Switched, CheckDone, Goto, bankVars, Permitted
<1>1. TypeOK'
  OBVIOUS
<1>2. HomeHeld'
  BY DEF HomeHeld
<1>3. DeleterHolds'
  BY DEF DeleterHolds
<1>4. CheckIsRight'
  BY DEF CheckIsRight, Permitted
<1>5. PushesWith'
  BY DEF PushesWith, NoSwitcher
<1>6. InsideIsClient'
  BY DEF InsideIsClient
<1>7. NoSwitcher'
  BY DEF NoSwitcher
<1> QED
  BY <1>1, <1>2, <1>3, <1>4, <1>5, <1>6, <1>7

LEMMA LockKeeps == ASSUME IInv, NEW w \in Callers, Lock(w) PROVE IInv'
<1> USE DEF IInv, TypeOK, Threads, Switched, Lock, Goto, Free, bankVars, switchVars
<1>1. TypeOK'
  OBVIOUS
<1>2. HomeHeld'
  BY DEF HomeHeld
<1>3. DeleterHolds'
  BY DEF DeleterHolds
<1>4. CheckIsRight'
  BY DEF CheckIsRight, Permitted
<1>5. PushesWith'
  BY DEF PushesWith
<1>6. InsideIsClient'
  BY DEF InsideIsClient
<1>7. NoSwitcher'
  BY DEF NoSwitcher
<1> QED
  BY <1>1, <1>2, <1>3, <1>4, <1>5, <1>6, <1>7

LEMMA CallKeeps == ASSUME IInv, NEW w \in Callers, Call(w) PROVE IInv'
<1> USE DEF IInv, TypeOK, Threads, Switched, Call, Done, bankVars, switchVars
<1>1. TypeOK'
  OBVIOUS
<1>2. HomeHeld'
  BY DEF HomeHeld
<1>3. DeleterHolds'
  BY DEF DeleterHolds
<1>4. CheckIsRight'
  BY DEF CheckIsRight, Permitted
<1>5. PushesWith'
  BY DEF PushesWith
<1>6. InsideIsClient'
  BY DEF InsideIsClient
<1>7. NoSwitcher'
  BY DEF NoSwitcher
<1> QED
  BY <1>1, <1>2, <1>3, <1>4, <1>5, <1>6, <1>7

LEMMA MissKeeps == ASSUME IInv, NEW w \in Callers, Miss(w) PROVE IInv'
<1> USE DEF IInv, TypeOK, Threads, Switched, Miss, Done, bankVars, switchVars
<1>1. TypeOK'
  OBVIOUS
<1>2. HomeHeld'
  BY DEF HomeHeld
<1>3. DeleterHolds'
  BY DEF DeleterHolds
<1>4. CheckIsRight'
  BY DEF CheckIsRight, Permitted
<1>5. PushesWith'
  BY DEF PushesWith
<1>6. InsideIsClient'
  BY DEF InsideIsClient
<1>7. NoSwitcher'
  BY DEF NoSwitcher
<1> QED
  BY <1>1, <1>2, <1>3, <1>4, <1>5, <1>6, <1>7

LEMMA ReturnKeeps == ASSUME IInv, NEW w \in Callers, Return(w) PROVE IInv'
<1> USE DEF IInv, TypeOK, Threads, Switched, Return, bankVars, switchVars
<1>1. TypeOK'
  OBVIOUS
<1>2. HomeHeld'
  BY DEF HomeHeld
<1>3. DeleterHolds'
  BY DEF DeleterHolds
<1>4. CheckIsRight'
  BY DEF CheckIsRight, Permitted
<1>5. PushesWith'
  BY DEF PushesWith
<1>6. InsideIsClient'
  BY DEF InsideIsClient
<1>7. NoSwitcher'
  BY DEF NoSwitcher
<1> QED
  BY <1>1, <1>2, <1>3, <1>4, <1>5, <1>6, <1>7

LEMMA ExitKeeps == ASSUME IInv, NEW w \in Callers, Exit(w) PROVE IInv'
<1> USE DEF IInv, TypeOK, Threads, Switched, Exit, Goto, bankVars, switchVars
<1>1. TypeOK'
  OBVIOUS
<1>2. HomeHeld'
  BY DEF HomeHeld
<1>3. DeleterHolds'
  BY DEF DeleterHolds
<1>4. CheckIsRight'
  BY DEF CheckIsRight, Permitted
<1>5. PushesWith'
  BY DEF PushesWith
<1>6. InsideIsClient'
  BY DEF InsideIsClient
<1>7. NoSwitcher'
  BY DEF NoSwitcher
<1> QED
  BY <1>1, <1>2, <1>3, <1>4, <1>5, <1>6, <1>7

LEMMA BeginDeleteKeeps == ASSUME IInv, NEW d \in Deleters, BeginDelete(d) PROVE IInv'
<1> USE DEF IInv, TypeOK, Threads, Switched, BeginDelete, Goto, Free, bankVars, switchVars
<1>1. TypeOK'
  OBVIOUS
<1>2. HomeHeld'
  BY DEF HomeHeld
<1>3. DeleterHolds'
  BY DEF DeleterHolds
<1>4. CheckIsRight'
  BY DEF CheckIsRight, Permitted
<1>5. PushesWith'
  BY DEF PushesWith
<1>6. InsideIsClient'
  BY DEF InsideIsClient
<1>7. NoSwitcher'
  BY DEF NoSwitcher
<1> QED
  BY <1>1, <1>2, <1>3, <1>4, <1>5, <1>6, <1>7

LEMMA LockPermittedKeeps == ASSUME IInv, NEW d \in Deleters, LockPermitted(d) PROVE IInv'
<1> USE DEF IInv, TypeOK, Threads, Switched, LockPermitted, Done, Free, bankVars, switchVars
<1>1. TypeOK'
  OBVIOUS
<1>2. HomeHeld'
  BY DEF HomeHeld
<1>3. DeleterHolds'
  BY DEF DeleterHolds
<1>4. CheckIsRight'
  BY DEF CheckIsRight, Permitted
<1>5. PushesWith'
  BY DEF PushesWith
<1>6. InsideIsClient'
  BY DEF InsideIsClient
<1>7. NoSwitcher'
  BY DEF NoSwitcher
<1> QED
  BY <1>1, <1>2, <1>3, <1>4, <1>5, <1>6, <1>7

LEMMA RemoveKeeps == ASSUME IInv, NEW d \in Deleters, Remove(d) PROVE IInv'
<1> USE DEF IInv, TypeOK, Threads, Switched, Remove, Goto, switchVars, Permitted
<1>1. TypeOK'
  OBVIOUS
<1>2. HomeHeld'
  BY DEF HomeHeld
<1>3. DeleterHolds'
  BY DEF DeleterHolds
<1>4. CheckIsRight'
  BY DEF CheckIsRight, Permitted
<1>5. PushesWith'
  BY DEF PushesWith
<1>6. InsideIsClient'
  BY DEF InsideIsClient
<1>7. NoSwitcher'
  BY DEF NoSwitcher
<1> QED
  BY <1>1, <1>2, <1>3, <1>4, <1>5, <1>6, <1>7

LEMMA EndDeleteKeeps == ASSUME IInv, NEW d \in Deleters, EndDelete(d) PROVE IInv'
<1> USE DEF IInv, TypeOK, Threads, Switched, EndDelete, Goto, bankVars, switchVars
<1>1. TypeOK'
  OBVIOUS
<1>2. HomeHeld'
  BY DEF HomeHeld
<1>3. DeleterHolds'
  BY DEF DeleterHolds
<1>4. CheckIsRight'
  BY DEF CheckIsRight, Permitted
<1>5. PushesWith'
  BY DEF PushesWith
<1>6. InsideIsClient'
  BY DEF InsideIsClient
<1>7. NoSwitcher'
  BY DEF NoSwitcher
<1> QED
  BY <1>1, <1>2, <1>3, <1>4, <1>5, <1>6, <1>7

LEMMA StepKeeps == IInv /\ [Next]_vars => IInv'
<1> SUFFICES ASSUME IInv, [Next]_vars PROVE IInv'
  OBVIOUS
<1>1. ASSUME NEW w \in Callers, Write(w) PROVE IInv'
  BY <1>1, EnterKeeps, CheckClientKeeps, CheckDoneKeeps, LockKeeps, CallKeeps,
     MissKeeps, ReturnKeeps, ExitKeeps DEF Write
<1>2. ASSUME NEW d \in Deleters, Delete(d) PROVE IInv'
  BY <1>2, BeginDeleteKeeps, LockPermittedKeeps, RemoveKeeps, EndDeleteKeeps DEF Delete
<1>3. CASE UNCHANGED vars
  BY <1>3 DEF vars, bankVars, switchVars, IInv, TypeOK, HomeHeld, DeleterHolds,
     CheckIsRight, Permitted, PushesWith, InsideIsClient, NoSwitcher
<1> QED
  BY <1>1, <1>2, <1>3 DEF Next

LEMMA Invariant == Spec => []IInv
BY InitHolds, StepKeeps, PTL DEF Spec

(* Every variable keeps its type. *)
THEOREM TypeCorrect == Spec => []TypeOK
<1>1. IInv => TypeOK
  BY DEF IInv
<1> QED
  BY <1>1, Invariant, PTL

(* Deleting an address waits for whoever runs its write. *)
THEOREM CalledStaysInBank == Spec => []NotRemovedWhileCalled
<1>1. IInv => NotRemovedWhileCalled
  BY DEF IInv, InsideIsClient, NotRemovedWhileCalled
<1> QED
  BY <1>1, Invariant, PTL

(* An address that has not asked to do without is called with its lock. *)
THEOREM LockedUnlessPermanent == Spec => []CalledWithLock
<1>1. IInv => CalledWithLock
  <2> SUFFICES ASSUME IInv, NEW w \in Callers, NEW a \in inside[w] \ Permanent
               PROVE  owner[Where[a]] = w
    BY DEF CalledWithLock
  <2>1. a \in bank \cap Clients[w] /\ pc[w] = "inside" /\ Where[a] = Out[w]
    BY DEF IInv, InsideIsClient
  <2>2. ~Permitted(w, a)
    BY <2>1 DEF Permitted
  <2> QED
    BY <2>1, <2>2 DEF IInv, PushesWith, CheckIsRight
<1> QED
  BY <1>1, Invariant, PTL
=============================================================================
