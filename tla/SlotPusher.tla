----------------------------- MODULE SlotPusher -----------------------------
(***************************************************************************)
(* A DataSlotAddress: a DataSlot whose data are pushed on to clients, by   *)
(* the thread that writes them or, after setUseThread(true), by a pusher   *)
(* thread that takes them from a queue                                     *)
(* (AddressBank/src/DataSlotAddress.cc).                                   *)
(*                                                                         *)
(* A section under SlotMutex, QueueMutex or ClientListMutex is one step.   *)
(* But only the copying of the client list locks ClientListMutex: push and *)
(* disconnect set it in a MutexHelper, and MutexHelper::setMutex locks     *)
(* nothing.  So disconnect shifts the array one client per step, and the   *)
(* list may be copied between two of them.                                 *)
(*                                                                         *)
(* An application thread connects clients, starts and stops the thread,    *)
(* works in the address space of the slot and deletes the slot, while data *)
(* is written and pushed.  A client of the bank that is gone keeps its     *)
(* place in the list (see PushPort), so clients that answer are enough     *)
(* here.                                                                   *)
(***************************************************************************)
EXTENDS SlotRing, Sequences

CONSTANTS
  Writers,      \* the threads that write to the slot
  Clients,      \* the addresses that may be pushed to
  Times,        \* the times data may have
  MaxWrites,    \* bound: the number of data written in a behaviour
  MaxCalls      \* bound: how often the application connects, disconnects,
                \* starts the thread and works in the address space

ASSUME PusherAssumption ==
  /\ Times \subseteq Nat \ {0}
  /\ MaxWrites \in Nat /\ MaxCalls \in Nat

VARIABLES
  slot, written,       \* Slot, and how many data have been written
  queue,               \* m_Queue
  running, useThread,  \* m_PushThreadRunning, UseThread
  pushClients,         \* PushClients, the first NumPushClients of it
  wpc, datum, wtodo,   \* each writer: where it is, its datum, clients to write to
  pc, sd, last, todo,  \* the pusher: where it is, its datum if any, lastReadTime,
                       \* clients to write to
  upc, pos,            \* the application: where it is, the index disconnect is at
  calls,               \* how many of its calls the application has made
  taken, pushed,       \* history: what this thread took from the queue and pushed
  received,            \* history: the ids every client was given
  doubled, torn        \* history: the clients that were in the list twice, the
                       \* ids for which it was copied while it was shifted

slotVars == <<slot, written>>
writerVars == <<wpc, datum, wtodo>>
pusherVars == <<pc, sd, last, todo, taken, pushed>>
threadVars == <<running, useThread>>
appVars == <<upc, pos, calls, doubled>>
givenVars == <<received, torn>>
addressVars ==
  <<slotVars, queue, pushClients, writerVars, pusherVars, threadVars, appVars, givenVars>>

NoDatum == [time |-> 0, id |-> 0]

SlotInit ==
  /\ slot = EmptySlot /\ written = 0
  /\ queue = <<>>
  /\ running = FALSE /\ useThread = FALSE
  /\ pushClients = <<>>
  /\ wpc = [w \in Writers |-> "idle"]
  /\ datum = [w \in Writers |-> NoDatum]
  /\ wtodo = [w \in Writers |-> <<>>]
  /\ pc = "off" /\ sd = <<>> /\ last = 0 /\ todo = <<>>
  /\ taken = <<>> /\ pushed = <<>>
  /\ upc = "idle" /\ pos = 0 /\ calls = 0
  /\ received = [c \in Clients |-> <<>>] /\ doubled = {} /\ torn = {}

-----------------------------------------------------------------------------
(* write *)

ToWriter(w, from, to) ==
  /\ wpc[w] = from
  /\ wpc' = [wpc EXCEPT ![w] = to]
  /\ UNCHANGED <<pushClients, threadVars, appVars>>

(* Nobody writes to a slot that is being deleted.  The datum is pushed      *)
(* whatever the slot answers, also when it was refused.                    *)
WriteSlot(w, time, sameClass) ==
  LET d == [time |-> time, id |-> written + 1]
  IN  /\ ToWriter(w, "idle", "choose")
      /\ upc \notin {"deleting", "gone"}
      /\ written < MaxWrites
      /\ written' = written + 1
      /\ slot' = IF Refused(sameClass) THEN slot ELSE RingWrite(slot, d)
      /\ datum' = [datum EXCEPT ![w] = d]
      /\ UNCHANGED <<queue, wtodo, pusherVars, givenVars>>

Choose(w) ==
  /\ ToWriter(w, "choose", IF useThread THEN "queue" ELSE "copy")
  /\ UNCHANGED <<slotVars, queue, datum, wtodo, pusherVars, givenVars>>

Enqueue(w) ==
  /\ ToWriter(w, "queue", "signal")
  /\ queue' = Append(queue, datum[w])
  /\ UNCHANGED <<slotVars, datum, wtodo, pusherVars, givenVars>>

(* A signal that comes before the pusher waits is lost. *)
Wake == pc' = IF pc = "asleep" THEN "check" ELSE pc

(* Mutant: no else, the writer pushes as well. *)
AfterSignalToo == "copy"

AfterSignal == "idle"

Signal(w) ==
  /\ ToWriter(w, "signal", AfterSignal)
  /\ Wake
  /\ UNCHANGED <<slotVars, queue, datum, wtodo, sd, last, todo, taken, pushed, givenVars>>

Tears(i) == torn' = IF upc = "shifting" THEN torn \cup {i} ELSE torn

(* pushData *)
CopyByWriter(w) ==
  /\ ToWriter(w, "copy", "write")
  /\ wtodo' = [wtodo EXCEPT ![w] = pushClients]
  /\ Tears(datum[w].id)
  /\ UNCHANGED <<slotVars, queue, datum, pusherVars, received>>

WriteByWriter(w) ==
  /\ ToWriter(w, "write", "write") /\ wtodo[w] # <<>>
  /\ received' = [received EXCEPT ![Head(wtodo[w])] = Append(@, datum[w].id)]
  /\ wtodo' = [wtodo EXCEPT ![w] = Tail(@)]
  /\ UNCHANGED <<slotVars, queue, datum, pusherVars, torn>>

EndByWriter(w) ==
  /\ ToWriter(w, "write", "idle") /\ wtodo[w] = <<>>
  /\ UNCHANGED <<slotVars, queue, datum, wtodo, pusherVars, givenVars>>

Writer(w) ==
  \/ \E time \in Times, sameClass \in BOOLEAN : WriteSlot(w, time, sameClass)
  \/ Choose(w) \/ Enqueue(w) \/ Signal(w)
  \/ CopyByWriter(w) \/ WriteByWriter(w) \/ EndByWriter(w)
-----------------------------------------------------------------------------
(* pusher *)

ToPusher(from, to) ==
  /\ pc = from /\ pc' = to
  /\ UNCHANGED <<slotVars, pushClients, writerVars, threadVars, appVars>>

(* while (m_PushThreadRunning), read without a lock *)
Check ==
  /\ ToPusher("check", IF running THEN "take" ELSE "done")
  /\ UNCHANGED <<queue, sd, last, todo, taken, pushed, givenVars>>

(* It decides to wait, and has let go of the queue before it does. *)
FindNothing ==
  /\ ToPusher("take", "tired") /\ queue = <<>>
  /\ UNCHANGED <<queue, sd, last, todo, taken, pushed, givenVars>>

(* Mutant: data of the same time pass. *)
InTurnToo(d) == last <= d.time

InTurn(d) == last < d.time

TakeNext ==
  /\ ToPusher("take", "copy") /\ queue # <<>>
  /\ InTurn(Head(queue))
  /\ sd' = <<Head(queue)>> /\ last' = Head(queue).time
  /\ queue' = Tail(queue) /\ taken' = Append(taken, Head(queue))
  /\ UNCHANGED <<todo, pushed, givenVars>>

(* Mutant: it stays in the queue. *)
SkipLateKept ==
  /\ ToPusher("take", "tired") /\ queue # <<>>
  /\ ~InTurn(Head(queue))
  /\ UNCHANGED <<queue, sd, last, todo, taken, pushed, givenVars>>

(* "Logic error": the datum is dropped, and the pusher takes a nap. *)
SkipLate ==
  /\ ToPusher("take", "tired") /\ queue # <<>>
  /\ ~InTurn(Head(queue))
  /\ queue' = Tail(queue) /\ taken' = Append(taken, Head(queue))
  /\ UNCHANGED <<sd, last, todo, pushed, givenVars>>

(* pushDataLocked *)
Copy ==
  /\ ToPusher("copy", "write")
  /\ todo' = pushClients
  /\ Tears(sd[1].id)
  /\ UNCHANGED <<queue, sd, last, taken, pushed, received>>

(* writeToLocked waits for the lock of the address space. *)
Write ==
  /\ ToPusher("write", "write") /\ todo # <<>>
  /\ upc # "inside"
  /\ received' = [received EXCEPT ![Head(todo)] = Append(@, sd[1].id)]
  /\ todo' = Tail(todo)
  /\ UNCHANGED <<queue, sd, last, taken, pushed, torn>>

EndPush ==
  /\ ToPusher("write", "check") /\ todo = <<>>
  /\ sd' = <<>> /\ pushed' = pushed \o sd
  /\ UNCHANGED <<queue, last, todo, taken, givenVars>>

(* pthread_cond_timedwait *)
FallAsleep ==
  /\ ToPusher("tired", "asleep")
  /\ UNCHANGED <<queue, sd, last, todo, taken, pushed, givenVars>>

(* Mutant: a wait without a timeout. *)
TimeoutNever == pc = "asleep" /\ UNCHANGED addressVars

Timeout ==
  /\ ToPusher("asleep", "check")
  /\ UNCHANGED <<queue, sd, last, todo, taken, pushed, givenVars>>

Runs ==
  \/ Check \/ FindNothing \/ TakeNext \/ SkipLate \/ FallAsleep \/ Timeout
  \/ Copy \/ EndPush

Pusher == Runs \/ Write
-----------------------------------------------------------------------------
(* the application *)

ToApp(from, to) ==
  /\ upc = from /\ upc' = to
  /\ UNCHANGED <<slotVars, queue, writerVars, givenVars>>

Counted == calls < MaxCalls /\ calls' = calls + 1

(* push(pa): nobody looks whether the client is in the list already. *)
ConnectClient(c) ==
  /\ ToApp("idle", "idle") /\ Counted
  /\ pushClients' = Append(pushClients, c)
  /\ doubled' = IF \E n \in 1 .. Len(pushClients) : pushClients[n] = c
                THEN doubled \cup {c} ELSE doubled
  /\ UNCHANGED <<pos, pusherVars, threadVars>>

(* The first entry of the client goes. *)
DisconnectClient(c) ==
  /\ ToApp("idle", "shifting") /\ Counted
  /\ \E n \in 1 .. Len(pushClients) :
       /\ pushClients[n] = c /\ \A m \in 1 .. n - 1 : pushClients[m] # c
       /\ pos' = n
  /\ UNCHANGED <<doubled, pushClients, pusherVars, threadVars>>

Shift ==
  /\ ToApp("shifting", "shifting") /\ pos < Len(pushClients)
  /\ pushClients' = [pushClients EXCEPT ![pos] = pushClients[pos + 1]]
  /\ pos' = pos + 1
  /\ UNCHANGED <<calls, doubled, pusherVars, threadVars>>

EndShift ==
  /\ ToApp("shifting", "idle") /\ pos = Len(pushClients)
  /\ pushClients' = SubSeq(pushClients, 1, pos - 1) /\ pos' = 0
  /\ UNCHANGED <<calls, doubled, pusherVars, threadVars>>

(* setUseThread(true) *)
Start ==
  /\ ToApp("idle", "starting") /\ Counted /\ ~useThread
  /\ running' = TRUE
  /\ pc' = "check"
  /\ UNCHANGED <<pos, doubled, pushClients, useThread, sd, last, todo, taken, pushed>>

Started ==
  /\ ToApp("starting", "idle")
  /\ useThread' = TRUE
  /\ UNCHANGED <<pos, calls, doubled, pushClients, pusherVars, running>>

(* setUseThread(false): no signal, the pusher sees the flag when it wakes. *)
Stop ==
  /\ ToApp("idle", "stopping") /\ useThread
  /\ running' = FALSE
  /\ UNCHANGED <<pos, calls, doubled, pushClients, pusherVars, useThread>>

(* pthread_join: the thread's locals are gone; the next one starts afresh. *)
Joined(from, to) ==
  /\ ToApp(from, to) /\ pc = "done"
  /\ pc' = "off" /\ last' = 0
  /\ taken' = <<>> /\ pushed' = <<>>
  /\ UNCHANGED <<sd, todo, running>>

StopReturn ==
  /\ Joined("stopping", "stopped")
  /\ UNCHANGED <<pos, calls, doubled, pushClients, useThread>>

Stopped ==
  /\ ToApp("stopped", "idle")
  /\ useThread' = FALSE
  /\ UNCHANGED <<pos, calls, doubled, pushClients, pusherVars, running>>

(* disconnectAddress, when nobody writes any more *)
Delete ==
  /\ ToApp("idle", "deleting")
  /\ \A w \in Writers : wpc[w] = "idle"
  /\ running' = FALSE
  /\ UNCHANGED <<pos, calls, doubled, pushClients, pusherVars, useThread>>

Deleted ==
  /\ \/ Joined("deleting", "gone")
     \/ ToApp("deleting", "gone") /\ pc = "off" /\ UNCHANGED <<pusherVars, running>>
  /\ useThread' = FALSE
  /\ pushClients' = <<>>
  /\ UNCHANGED <<pos, calls, doubled>>

(* It holds the lock of the address space meanwhile. *)
Enter ==
  /\ ToApp("idle", "inside") /\ Counted
  /\ UNCHANGED <<pos, doubled, pushClients, pusherVars, threadVars>>

Leave ==
  /\ ToApp("inside", "idle")
  /\ UNCHANGED <<pos, calls, doubled, pushClients, pusherVars, threadVars>>

Application ==
  \/ \E c \in Clients : ConnectClient(c) \/ DisconnectClient(c)
  \/ Shift \/ EndShift
  \/ Start \/ Started \/ Stop \/ StopReturn \/ Stopped \/ Delete \/ Deleted
  \/ Enter \/ Leave

SlotNext == Application \/ Pusher \/ \E w \in Writers : Writer(w)

(* The pusher thread runs when it can and gets the space lock its holders  *)
(* keep releasing; the application finishes what it began.                 *)
Fairness ==
  /\ WF_addressVars(Runs) /\ SF_addressVars(Write)
  /\ WF_addressVars(Leave \/ StopReturn \/ Stopped \/ Deleted)

SlotSpec == SlotInit /\ [][SlotNext]_addressVars

FairSlotSpec == SlotSpec /\ Fairness
-----------------------------------------------------------------------------
(* The data of s that are later than everything before them. *)
Later(s, n) == \A m \in 1 .. n - 1 : s[m].time < s[n].time

WithNth(s, n, records) == IF Later(s, n) THEN Append(records, s[n]) ELSE records

Records(s) ==
  LET upTo[n \in 0 .. Len(s)] == IF n = 0 THEN <<>> ELSE WithNth(s, n, upTo[n - 1])
  IN  upTo[Len(s)]

(* Of what it takes from the queue the pusher pushes exactly the data that *)
(* are later than all it took before: it never pushes an older datum after *)
(* a newer one, and it drops no datum that is newer.                       *)
PushesRecords == pushed \o sd = Records(taken)

(* No client is given a datum more than once, whoever pushes it, however   *)
(* often the thread was stopped and started, and with clients that come    *)
(* and go meanwhile; unless the client was in the list twice, or the list  *)
(* was copied for that datum while disconnect shifted it.                  *)
NeverTwice ==
  \A c \in Clients \ doubled : \A m, n \in 1 .. Len(received[c]) :
    received[c][m] = received[c][n] /\ received[c][m] \notin torn => m = n

(* "Obviously no data will be pushed twice", to a client that has been     *)
(* connected once.                                                         *)
EachOnce ==
  \A c \in Clients \ doubled : \A m, n \in 1 .. Len(received[c]) :
    received[c][m] = received[c][n] => m = n

(* "All data will be pushed if there is no overflow": what the pusher has  *)
(* taken from its queue and is done with has been pushed.                  *)
AllPushed == \A n \in 1 .. Len(taken) : \E m \in 1 .. Len(pushed \o sd) : (pushed \o sd)[m] = taken[n]

Queued(i) == \E n \in 1 .. Len(queue) : queue[n].id = i

(* No datum stays in the queue of a running thread, in spite of lost       *)
(* signals and of naps taken with data in the queue.                       *)
QueueDrains ==
  \A i \in 1 .. MaxWrites : Queued(i) ~> (~Queued(i) \/ ~running)

(* setUseThread(false) and the destructor return, although neither wakes   *)
(* the thread it waits for.                                                *)
JoinReturns == upc \in {"stopping", "deleting"} ~> upc \in {"idle", "gone"}
=============================================================================
