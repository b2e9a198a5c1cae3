---------------------------- MODULE ThreadMerger ----------------------------
(***************************************************************************)
(* A ThreadMerger: device threads write data to its in ports, a pusher     *)
(* thread of its own pushes the data out in the address space of the       *)
(* application, and an application thread may pause the pusher, configure  *)
(* the filter and destroy it (AddressBank/src/ThreadMerger.cc).            *)
(*                                                                         *)
(* A section that runs under MergeMutex is one step: nothing inside it     *)
(* blocks.  PauseMutex and the address space locks are held across steps.  *)
(* The condition variable has no memory: a signal that finds the pusher    *)
(* awake is lost.                                                          *)
(***************************************************************************)
EXTENDS Integers, Sequences

CONSTANTS
  Writers,       \* the threads that write to the in ports
  Ports,         \* the in ports; out port p is the one in port p feeds
  OutSpace,      \* the address space of each out port
  OwnSpace,      \* the filter's own space, held by whoever destroys it
  ReconfigLive,  \* may m_AllowPause be configured once data has come in?
  MaxWrites      \* bound: the number of data written in a behaviour

PortSpaces == {OutSpace[p] : p \in Ports} \cup {OwnSpace}

ASSUME MergerAssumption ==
  /\ MaxWrites \in Nat
  /\ ReconfigLive \in BOOLEAN

VARIABLES
  queue,        \* DataList
  queueLength,  \* m_QueueLength
  running,      \* m_PushThreadRunning
  allowPause,   \* m_AllowPause
  pushLocked,   \* m_PushLocked
  report,       \* m_QueueData, shared by all writers: whose time and id it has
  ppc,          \* where the pusher thread is
  sd,           \* the datum the pusher took from the queue, if any
  paused,       \* the pusher's local b: did its pause() lock PauseMutex?
  nap,          \* the pusher's local waitForNewData
  pauseOwner,   \* PauseMutex
  spaceOwner,   \* ThreadMutex of each address space
  wpc, wrote,   \* where each writer is, and the datum it is writing
  upc,          \* where the application thread is
  accepted,     \* history: the data that went into the queue, in order
  pushed        \* history: the data pushed from the out ports, in order

queueVars == <<queue, queueLength, accepted>>
confVars == <<allowPause, pushLocked>>
pusherVars == <<ppc, sd, paused, nap, pushed>>
lockVars == <<pauseOwner, spaceOwner>>
writerVars == <<wpc, wrote, report>>
mergerVars == <<queueVars, running, confVars, pusherVars, lockVars, writerVars, upc>>

None == "none"

Item == [id : 1 .. MaxWrites, port : Ports]
NoDatum == 0

MergerInit ==
  /\ queue = <<>> /\ queueLength = 0
  /\ running = TRUE
  /\ allowPause = FALSE /\ pushLocked = TRUE
  /\ report = NoDatum
  /\ ppc = "take" /\ sd = <<>> /\ paused = FALSE /\ nap = FALSE
  /\ pauseOwner = None
  /\ spaceOwner = [s \in PortSpaces |-> None]
  /\ wpc = [w \in Writers |-> "idle"]
  /\ wrote = [w \in Writers |-> NoDatum]
  /\ upc = "idle"
  /\ accepted = <<>> /\ pushed = <<>>
-----------------------------------------------------------------------------
(* write: queue the datum, signal the pusher, report the queue's length *)

Enqueue(w, p) ==
  LET d == [id |-> Len(accepted) + 1, port |-> p]
  IN  /\ wpc[w] = "idle" /\ upc # "gone"
      /\ Len(accepted) < MaxWrites
      /\ queueLength' = queueLength + 1
      /\ queue' = queue \o <<d>>
      /\ accepted' = accepted \o <<d>>
      /\ wpc' = [wpc EXCEPT ![w] = "signal"]
      /\ wrote' = [wrote EXCEPT ![w] = d.id]
      /\ UNCHANGED <<running, confVars, pusherVars, lockVars, report, upc>>

Wake == ppc' = IF ppc = "asleep" THEN "take" ELSE ppc

Signal(w) ==
  /\ wpc[w] = "signal"
  /\ Wake
  /\ wpc' = [wpc EXCEPT ![w] = "fill"]
  /\ UNCHANGED <<queueVars, running, confVars, sd, paused, nap, pushed,
                 lockVars, wrote, report, upc>>

FillReport(w) ==
  /\ wpc[w] = "fill"
  /\ report' = wrote[w]
  /\ wpc' = [wpc EXCEPT ![w] = "report"]
  /\ UNCHANGED <<queueVars, running, confVars, pusherVars, lockVars, wrote, upc>>

PushReport(w) ==
  /\ wpc[w] = "report"
  /\ wpc' = [wpc EXCEPT ![w] = "idle"]
  /\ wrote' = [wrote EXCEPT ![w] = NoDatum]
  /\ UNCHANGED <<queueVars, running, confVars, pusherVars, lockVars, report, upc>>
-----------------------------------------------------------------------------
(* pusher *)

AtQueue ==
  /\ ppc = "take"
  /\ UNCHANGED <<accepted, running, confVars, paused, pushed, lockVars, writerVars, upc>>

Finish ==
  /\ AtQueue /\ ~running
  /\ ppc' = "done"
  /\ UNCHANGED <<queue, queueLength, sd, nap>>

FindNothing ==
  /\ AtQueue /\ running /\ queue = <<>>
  /\ nap' = TRUE
  /\ ppc' = "pause"
  /\ UNCHANGED <<queue, queueLength, sd>>

(* Mutant: the datum is read but not removed. *)
TakeDatumKept ==
  /\ AtQueue /\ running /\ queue # <<>>
  /\ sd' = <<Head(queue)>>
  /\ nap' = FALSE
  /\ ppc' = "pause"
  /\ UNCHANGED <<queue, queueLength>>

TakeDatum ==
  /\ AtQueue /\ running /\ queue # <<>>
  /\ sd' = <<Head(queue)>>
  /\ queue' = Tail(queue)
  /\ queueLength' = queueLength - 1
  /\ nap' = FALSE
  /\ ppc' = "pause"

Take == Finish \/ FindNothing \/ TakeDatum

(* Mutant: the pusher never asks. *)
AskPauseNever ==
  /\ ppc = "pause"
  /\ ppc' = "push"
  /\ paused' = FALSE
  /\ UNCHANGED <<queueVars, running, confVars, sd, nap, pushed, lockVars, writerVars, upc>>

(* pause() looks at m_AllowPause and only then blocks on PauseMutex. *)
AskPause ==
  /\ ppc = "pause"
  /\ ppc' = IF allowPause THEN "lockPause" ELSE "push"
  /\ paused' = FALSE
  /\ UNCHANGED <<queueVars, running, confVars, sd, nap, pushed, lockVars, writerVars, upc>>

LockPause ==
  /\ ppc = "lockPause" /\ pauseOwner = None
  /\ pauseOwner' = "pusher"
  /\ paused' = TRUE
  /\ ppc' = "push"
  /\ UNCHANGED <<queueVars, running, confVars, sd, nap, pushed, spaceOwner, writerVars, upc>>

(* pushDataLocked or pushData, or nothing when the queue was empty *)
StartPush ==
  /\ ppc = "push"
  /\ ppc' = IF nap THEN "resume" ELSE IF pushLocked THEN "lockSpace" ELSE "pushing"
  /\ UNCHANGED <<queueVars, running, confVars, sd, paused, nap, pushed, lockVars,
                 writerVars, upc>>

LockSpace ==
  LET s == OutSpace[sd[1].port]
  IN  /\ ppc = "lockSpace" /\ spaceOwner[s] = None
      /\ spaceOwner' = [spaceOwner EXCEPT ![s] = "pusher"]
      /\ ppc' = "pushing"
      /\ UNCHANGED <<queueVars, running, confVars, sd, paused, nap, pushed, pauseOwner,
                     writerVars, upc>>

EndPush ==
  LET s == OutSpace[sd[1].port]
  IN  /\ ppc = "pushing"
      /\ pushed' = pushed \o sd
      /\ sd' = <<>>
      /\ spaceOwner' = [spaceOwner EXCEPT ![s] = IF @ = "pusher" THEN None ELSE @]
      /\ ppc' = "resume"
      /\ UNCHANGED <<queueVars, running, confVars, paused, nap, pauseOwner, writerVars, upc>>

(* if (b) resume(), and resume() looks at m_AllowPause again *)
EndPause ==
  /\ ppc = "resume"
  /\ pauseOwner' = IF paused /\ allowPause THEN None ELSE pauseOwner
  /\ ppc' = IF nap THEN "doze" ELSE "take"
  /\ paused' = FALSE /\ nap' = FALSE
  /\ UNCHANGED <<queueVars, running, confVars, sd, pushed, spaceOwner, writerVars, upc>>

Doze ==
  /\ ppc = "doze"
  /\ ppc' = "asleep"
  /\ UNCHANGED <<queueVars, running, confVars, sd, paused, nap, pushed, lockVars,
                 writerVars, upc>>

(* Mutant: pthread_cond_wait, which sleeps on.                            *)
TimeoutNever == ppc = "asleep" /\ UNCHANGED mergerVars

(* pthread_cond_timedwait gives up after at most 200 ms. *)
Timeout ==
  /\ ppc = "asleep"
  /\ ppc' = "take"
  /\ UNCHANGED <<queueVars, running, confVars, sd, paused, nap, pushed, lockVars,
                 writerVars, upc>>

Pusher ==
  \/ Take \/ AskPause \/ LockPause \/ StartPush \/ LockSpace \/ EndPush
  \/ EndPause \/ Doze \/ Timeout
-----------------------------------------------------------------------------
(* the application thread *)

App(from, to) ==
  /\ upc = from /\ upc' = to
  /\ UNCHANGED <<queueVars, sd, paused, nap, pushed, writerVars>>

(* It works in an address space and holds its lock meanwhile. *)
EnterSpace(s) ==
  /\ App("idle", "inside")
  /\ spaceOwner[s] = None
  /\ spaceOwner' = [spaceOwner EXCEPT ![s] = "app"]
  /\ UNCHANGED <<running, confVars, ppc, pauseOwner>>

Leave ==
  /\ App("inside", "idle")
  /\ spaceOwner' = [s \in PortSpaces |-> IF spaceOwner[s] = "app" THEN None ELSE spaceOwner[s]]
  /\ UNCHANGED <<running, confVars, ppc, pauseOwner>>

Pause ==
  /\ App("idle", "pausing")
  /\ allowPause
  /\ UNCHANGED <<running, confVars, ppc, lockVars>>

Paused ==
  /\ App("pausing", "paused")
  /\ pauseOwner = None
  /\ pauseOwner' = "app"
  /\ UNCHANGED <<running, confVars, ppc, spaceOwner>>

Resume ==
  /\ App("paused", "idle")
  /\ pauseOwner' = IF allowPause THEN None ELSE pauseOwner
  /\ UNCHANGED <<running, confVars, ppc, spaceOwner>>

ConfigAllowPause(b) ==
  /\ App("idle", "idle")
  /\ ReconfigLive \/ (accepted = <<>> /\ b)
  /\ allowPause' = b
  /\ UNCHANGED <<running, pushLocked, ppc, lockVars>>

ConfigPushLocked(b) ==
  /\ App("idle", "idle")
  /\ pushLocked' = b
  /\ UNCHANGED <<running, allowPause, ppc, lockVars>>

(* Mutant: m_PushThreadRunning is not reset. *)
StopWithoutFlag ==
  /\ App("idle", "stopping")
  /\ running /\ spaceOwner[OwnSpace] = None
  /\ spaceOwner' = [spaceOwner EXCEPT ![OwnSpace] = "app"]
  /\ UNCHANGED <<running, confVars, ppc, pauseOwner>>

(* disconnectAddresses, called with the lock of the filter's own space *)
Stop ==
  /\ App("idle", "stopping")
  /\ running /\ spaceOwner[OwnSpace] = None
  /\ running' = FALSE
  /\ spaceOwner' = [spaceOwner EXCEPT ![OwnSpace] = "app"]
  /\ UNCHANGED <<confVars, ppc, pauseOwner>>

StopSignal ==
  /\ App("stopping", "joining")
  /\ Wake
  /\ UNCHANGED <<running, confVars, lockVars>>

Join ==
  /\ App("joining", "gone")
  /\ ppc = "done"
  /\ spaceOwner' = [spaceOwner EXCEPT ![OwnSpace] = None]
  /\ UNCHANGED <<running, confVars, ppc, pauseOwner>>

Application ==
  \/ \E s \in PortSpaces : EnterSpace(s)
  \/ Leave \/ Pause \/ Paused \/ Resume
  \/ \E b \in BOOLEAN : ConfigAllowPause(b) \/ ConfigPushLocked(b)
  \/ Stop \/ StopSignal \/ Join

Writer(w) ==
  \/ \E p \in Ports : Enqueue(w, p)
  \/ Signal(w) \/ FillReport(w) \/ PushReport(w)

MergerNext == Application \/ Pusher \/ \E w \in Writers : Writer(w)

(* Every thread that can run runs, and a thread that waits for a mutex its *)
(* holders keep releasing gets it: what the scheduler gives the threads.   *)
(* The application resumes and leaves, but need not write, pause or stop.  *)
MergerFairness ==
  /\ WF_mergerVars(Take) /\ WF_mergerVars(AskPause) /\ WF_mergerVars(StartPush)
  /\ WF_mergerVars(EndPush) /\ WF_mergerVars(EndPause)
  /\ WF_mergerVars(Doze) /\ WF_mergerVars(Timeout)
  /\ SF_mergerVars(LockPause) /\ SF_mergerVars(LockSpace)
  /\ WF_mergerVars(Resume) /\ WF_mergerVars(Leave)
  /\ WF_mergerVars(StopSignal) /\ WF_mergerVars(Join)

MergerSpec == MergerInit /\ [][MergerNext]_mergerVars

FairSpec == MergerSpec /\ MergerFairness
-----------------------------------------------------------------------------
PusherAt == {"take", "pause", "lockPause", "push", "lockSpace", "pushing",
             "resume", "doze", "asleep", "done"}

MergerTypeOK ==
  /\ queue \in Seq(Item) /\ accepted \in Seq(Item) /\ pushed \in Seq(Item)
  /\ sd \in Seq(Item) /\ Len(sd) <= 1
  /\ queueLength \in Nat
  /\ running \in BOOLEAN /\ allowPause \in BOOLEAN /\ pushLocked \in BOOLEAN
  /\ paused \in BOOLEAN /\ nap \in BOOLEAN
  /\ ppc \in PusherAt
  /\ pauseOwner \in {None, "pusher", "app"}
  /\ spaceOwner \in [PortSpaces -> {None, "pusher", "app"}]
  /\ report \in 0 .. MaxWrites /\ wrote \in [Writers -> 0 .. MaxWrites]
  /\ wpc \in [Writers -> {"idle", "signal", "fill", "report"}]
  /\ upc \in {"idle", "inside", "pausing", "paused", "stopping", "joining", "gone"}

(* Whatever the interleaving of writers, pusher, pauses and configuration, *)
(* the data pushed, the datum in the pusher's hands and the queue are the  *)
(* data written, in order: none is lost, doubled or overtaken.  (Class     *)
(* comment: "All data will be pushed".)                                    *)
NothingLost == accepted = pushed \o sd \o queue

(* So the merger is a queue to its users: the datum in the pusher's hands *)
(* still stands in line, and nothing leaves while the pause is held.       *)
Merged == INSTANCE MergeQueue WITH
  Data <- Item,
  line <- sd \o queue,
  delivered <- pushed,
  held <- (upc = "paused")
MergeSpec == Merged!Spec

(* m_QueueLength, which the writers report and adapt their rate to, is the *)
(* length of the queue although it is counted apart from the list.         *)
QueueLengthExact == queueLength = Len(queue)

(* While an application thread holds the pause, the pusher is not in the   *)
(* middle of a push: "This blocks untill the current data is finished      *)
(* being pushed."                                                          *)
PauseExcludesPush == upc = "paused" => ppc # "pushing"

(* Every datum written is pushed unless the merger is destroyed first, in  *)
(* spite of lost signals and of pauses.                                    *)
EveryDatumPushed ==
  \A n \in 1 .. MaxWrites : Len(accepted) >= n ~> (Len(pushed) >= n \/ ~running)

(* The destructor returns: it never waits forever for its pusher thread.   *)
StopReturns == upc = "stopping" ~> upc = "gone"
=============================================================================
