----------------------------- MODULE SocketLoop -----------------------------
(***************************************************************************)
(* A SocketAddress (Cure::Hal): one event loop, in a thread of its own,    *)
(* that startDevice makes and stopDevice joins, or that a write makes when *)
(* there is none.  Writers pass their messages to the loop over a local    *)
(* socket pair, as a length and a pointer; a length of 0 wakes the loop.   *)
(* As a server the loop gives each message to all of its clients, as a     *)
(* client to its one connection, which stands here for a single client.    *)
(* The data that comes in is left out: it changes no state of the loop.    *)
(*                                                                         *)
(* m_WriteMutex is held over several steps only by a caller that writes to *)
(* the socket pair, which blocks when the pair is full.  Every other       *)
(* section with it is one step.                                            *)
(***************************************************************************)
EXTENDS Integers, Sequences, SequencesExt

CONSTANTS
  Callers,     \* the threads that call startDevice, stopDevice and write
  MaxThreads,  \* bound: event loops made
  MaxMessages, \* bound: messages written
  MaxClients,  \* bound: clients of a server
  PipeRoom,    \* bound: lengths and pointers the socket pair has room for
  NoThread

ASSUME SocketAssumption ==
  /\ MaxThreads \in Nat /\ MaxMessages \in Nat /\ MaxClients \in Nat \ {0}
  /\ PipeRoom \in Nat \ {0} /\ NoThread \notin 1..MaxThreads
  /\ Callers \cap (1..MaxThreads) = {}

Loops == 1..MaxThreads
Gone == 0 - 1

VARIABLES
  isServer, persistent, \* m_Server and m_Persistent
  open,                 \* m_Sock.m_Open
  running, stopped,     \* m_Running and m_Stopped
  thread,               \* m_Thread
  writing,              \* does a caller that writes to the pair have m_WriteMutex?
  pipe,                 \* m_SockPair: lengths and pointers
  written,              \* messages written so far
  clients,              \* m_Clients: the last message given to each, or Gone
  pc,                   \* where each caller and each loop is
  next,                 \* where a caller goes on after startDevice
  joins,                \* the thread a caller gave to pthread_join
  message,              \* the message each caller writes
  online,               \* timeout == -1, in each loop
  crashed,              \* has the process crashed?
  rushed                \* history: was a loop claimed when one was on its way?

config == <<isServer, persistent>>
writeVars == <<writing, written, message>>
loopVars == <<clients, online, crashed>>
vars == <<config, open, running, stopped, thread, pipe, pc, next, joins, writeVars, loopVars, rushed>>

Init ==
  /\ isServer \in BOOLEAN /\ persistent \in BOOLEAN
  /\ open = FALSE /\ running = FALSE /\ stopped = TRUE
  /\ thread = NoThread /\ writing = FALSE
  /\ pipe = <<>> /\ written = 0 /\ clients = <<>>
  /\ pc = [p \in Callers \cup Loops |-> IF p \in Callers THEN "idle" ELSE "none"]
  /\ next = [c \in Callers |-> "idle"] /\ message = [c \in Callers |-> 0]
  /\ joins = [c \in Callers |-> NoThread]
  /\ online = [l \in Loops |-> FALSE] /\ crashed = FALSE /\ rushed = FALSE

Goto(p, label) == pc' = [pc EXCEPT ![p] = label]
ToTop(l) == Goto(l, "top") /\ online' = [online EXCEPT ![l] = FALSE]
Returned(c) == pc[c] \in {"idle", "halted"}
Alive(l) == pc[l] \notin {"none", "ended"}

(* startSocket: an open socket stays, another is tried. *)
MayConnect == IF open THEN {TRUE} ELSE BOOLEAN

(* The connection of a client is its only place to send to. *)
Connected(ok) == IF ok /\ ~open /\ ~isServer THEN <<0>> ELSE clients
-----------------------------------------------------------------------------
(* startDevice *)

StartReturns(c) == Goto(c, next[c]) /\ next' = [next EXCEPT ![c] = "idle"]

StartSocket(c, then) ==
  /\ ~writing
  /\ \E ok \in MayConnect :
       /\ open' = ok /\ clients' = Connected(ok)
       /\ Goto(c, IF ok \/ persistent THEN "claim" ELSE "idle")
       /\ next' = [next EXCEPT ![c] = IF ok \/ persistent THEN then ELSE "idle"]
  /\ UNCHANGED <<config, running, stopped, thread, pipe, joins, writeVars, online, crashed, rushed>>

Start(c) == Returned(c) /\ StartSocket(c, "idle")

(* A loop is being made, or is made and has not said so yet. *)
OnItsWay ==
  (\E d \in Callers : pc[d] = "create") \/ (\E l \in Loops : pc[l] = "starting")

(* Mutant: a loop is made without a look at m_Stopped. *)
ClaimAnyway(c) ==
  /\ pc[c] = "claim" /\ ~writing
  /\ running' = TRUE /\ Goto(c, "create")
  /\ rushed' = (rushed \/ (stopped /\ OnItsWay))
  /\ UNCHANGED <<config, open, stopped, thread, pipe, next, joins, writeVars, loopVars>>

(* m_Stopped says whether there is a loop, but only the loop clears it. *)
Claim(c) ==
  /\ pc[c] = "claim" /\ ~writing
  /\ running' = (running \/ stopped)
  /\ IF stopped THEN Goto(c, "create") /\ UNCHANGED next ELSE StartReturns(c)
  /\ rushed' = (rushed \/ (stopped /\ OnItsWay))
  /\ UNCHANGED <<config, open, stopped, thread, pipe, joins, writeVars, loopVars>>

Create(c) ==
  /\ pc[c] = "create"
  /\ \E l \in Loops :
       /\ pc[l] = "none" /\ \A k \in 1..(l - 1) : pc[k] # "none"
       /\ pc' = [pc EXCEPT ![c] = next[c], ![l] = "starting"]
       /\ thread' = l
  /\ next' = [next EXCEPT ![c] = "idle"]
  /\ UNCHANGED <<config, open, running, stopped, pipe, joins, writeVars, loopVars, rushed>>

(* pthread_create fails; here also when the bound on threads is reached. *)
CreateFails(c) ==
  /\ pc[c] = "create" /\ ~writing
  /\ running' = FALSE /\ open' = FALSE
  /\ clients' = IF isServer THEN clients ELSE <<>>
  /\ Goto(c, "idle") /\ next' = [next EXCEPT ![c] = "idle"]
  /\ UNCHANGED <<config, stopped, thread, pipe, joins, writeVars, online, crashed, rushed>>
-----------------------------------------------------------------------------
(* stopDevice *)

Wakeup == [length |-> 0]
Length(m) == [length |-> m]
Pointer(m) == [pointer |-> m]

Room == Len(pipe) < PipeRoom

Stop(c) ==
  /\ Returned(c) /\ ~writing
  /\ IF ~stopped /\ running
     THEN running' = FALSE /\ writing' = TRUE /\ Goto(c, "wake")
     ELSE Goto(c, "halted") /\ UNCHANGED <<running, writing>>
  /\ UNCHANGED <<config, open, stopped, thread, pipe, next, joins, written, message, loopVars, rushed>>

(* Mutant: the loop is not woken. *)
StopSilently(c) ==
  /\ pc[c] = "wake" /\ Room
  /\ writing' = FALSE
  /\ Goto(c, "unlocked")
  /\ UNCHANGED <<config, open, running, stopped, thread, pipe, next, joins, written, message, loopVars, rushed>>

(* With m_WriteMutex, like the writes of messages. *)
WakeLoop(c) ==
  /\ pc[c] = "wake" /\ Room
  /\ pipe' = Append(pipe, Wakeup)
  /\ writing' = FALSE
  /\ Goto(c, "unlocked")
  /\ UNCHANGED <<config, open, running, stopped, thread, next, joins, written, message, loopVars, rushed>>

(* pthread_join, with m_Thread as it is then *)
BeginJoin(c) ==
  /\ pc[c] = "unlocked"
  /\ joins' = [joins EXCEPT ![c] = thread]
  /\ Goto(c, "join")
  /\ UNCHANGED <<config, open, running, stopped, thread, pipe, next, writeVars, loopVars, rushed>>

Join(c) ==
  /\ pc[c] = "join" /\ pc[joins[c]] = "ended"
  /\ Goto(c, "halted") /\ joins' = [joins EXCEPT ![c] = NoThread]
  /\ UNCHANGED <<config, open, running, stopped, thread, pipe, next, writeVars, loopVars, rushed>>
-----------------------------------------------------------------------------
(* write *)

Write(c) ==
  /\ Returned(c) /\ written < MaxMessages
  /\ IF stopped THEN ~writing /\ Goto(c, "retry") ELSE Goto(c, "send")
  /\ UNCHANGED <<config, open, running, stopped, thread, pipe, next, joins, writeVars, loopVars, rushed>>

(* With no loop a write starts the device first, whoever else does. *)
WriteRestarts(c) == pc[c] = "retry" /\ StartSocket(c, "send")

(* Nothing runs; or the retry period has not passed. *)
WriteRefused(c) ==
  /\ pc[c] = "retry" \/ (pc[c] = "send" /\ ~running)
  /\ Goto(c, "idle")
  /\ UNCHANGED <<config, open, running, stopped, thread, pipe, next, joins, writeVars, loopVars, rushed>>

WriteAccepted(c) ==
  /\ pc[c] = "send" /\ running
  /\ Goto(c, "lock")
  /\ UNCHANGED <<config, open, running, stopped, thread, pipe, next, joins, writeVars, loopVars, rushed>>

(* Mutant: write does not take m_WriteMutex. *)
NoMutex == TRUE

MutexFree == ~writing

LockWrite(c) ==
  /\ pc[c] = "lock" /\ MutexFree /\ written < MaxMessages
  /\ writing' = TRUE
  /\ written' = written + 1
  /\ message' = [message EXCEPT ![c] = written']
  /\ Goto(c, "length")
  /\ UNCHANGED <<config, open, running, stopped, thread, pipe, next, joins, loopVars, rushed>>

WriteLength(c) ==
  /\ pc[c] = "length" /\ Room
  /\ pipe' = Append(pipe, Length(message[c]))
  /\ Goto(c, "pointer")
  /\ UNCHANGED <<config, open, running, stopped, thread, next, joins, writeVars, loopVars, rushed>>

WritePointer(c) ==
  /\ pc[c] = "pointer" /\ Room
  /\ pipe' = Append(pipe, Pointer(message[c]))
  /\ writing' = FALSE
  /\ message' = [message EXCEPT ![c] = 0]
  /\ Goto(c, "idle")
  /\ UNCHANGED <<config, open, running, stopped, thread, next, joins, written, loopVars, rushed>>
-----------------------------------------------------------------------------
(* runEventLoop *)

Begin(l) ==
  /\ pc[l] = "starting" /\ ~writing
  /\ stopped' = FALSE /\ Goto(l, "top")
  /\ UNCHANGED <<config, open, running, thread, pipe, next, joins, writeVars, loopVars, rushed>>

(* The condition of the loop *)
Top(l) ==
  /\ pc[l] = "top"
  /\ Goto(l, IF running THEN "connect" ELSE "ending")
  /\ UNCHANGED <<config, open, running, stopped, thread, pipe, next, joins, writeVars, loopVars, rushed>>

(* The reconnection before poll. *)
Reconnect(l) ==
  /\ pc[l] = "connect" /\ (persistent => ~writing)
  /\ \E ok \in IF persistent THEN MayConnect ELSE {TRUE} :
       /\ open' = IF persistent THEN ok ELSE open
       /\ clients' = IF persistent THEN Connected(ok) ELSE clients
       /\ online' = [online EXCEPT ![l] = ok]
  /\ Goto(l, "poll")
  /\ UNCHANGED <<config, running, stopped, thread, pipe, next, joins, writeVars, crashed, rushed>>

Ending(l) ==
  /\ pc[l] = "ending" /\ ~writing
  /\ stopped' = TRUE /\ Goto(l, "ended")
  /\ UNCHANGED <<config, open, running, thread, pipe, next, joins, writeVars, loopVars, rushed>>

(* poll finds the socket pair readable; a length above 0 says a pointer    *)
(* comes next.                                                             *)
ReadLength(l) ==
  /\ pc[l] = "poll" /\ pipe # <<>>
  /\ Goto(l, IF Head(pipe) = Wakeup THEN "net" ELSE "take")
  /\ pipe' = Tail(pipe)
  /\ UNCHANGED <<config, open, running, stopped, thread, next, joins, writeVars, loopVars, rushed>>

(* Mutant: the first client is left out. *)
GivenToOthers(m) == [i \in DOMAIN clients |-> IF i = 1 THEN clients[i] ELSE m]

GivenToAll(m) == [i \in DOMAIN clients |-> m]

(* What is read as a pointer is one, as long as there is one loop. *)
Given(frame) ==
  IF "pointer" \in DOMAIN frame THEN GivenToAll(frame.pointer) ELSE clients

(* The pointer is read, it may have to be waited for; with no connection   *)
(* its message is lost.                                                    *)
ReadPointer(l) ==
  /\ pc[l] = "take" /\ pipe # <<>>
  /\ clients' = IF online[l] THEN Given(Head(pipe)) ELSE clients
  /\ pipe' = Tail(pipe)
  /\ Goto(l, "net")
  /\ UNCHANGED <<config, open, running, stopped, thread, next, joins, writeVars, online, crashed, rushed>>

(* poll returns for a client or a timeout, or is interrupted. *)
OtherEvent(l) ==
  /\ pc[l] = "poll"
  /\ Goto(l, "net")
  /\ UNCHANGED <<config, open, running, stopped, thread, pipe, next, joins, writeVars, loopVars, rushed>>

Offline(l) ==
  /\ pc[l] = "net" /\ ~online[l]
  /\ ToTop(l)
  /\ UNCHANGED <<config, open, running, stopped, thread, pipe, next, joins, writeVars, clients, crashed, rushed>>

(* Some clients of a server are found dead. *)
Bury(l) ==
  /\ pc[l] = "net" /\ online[l] /\ isServer
  /\ \E dead \in SUBSET (DOMAIN clients) :
       clients' = [i \in DOMAIN clients |-> IF i \in dead THEN Gone ELSE clients[i]]
  /\ Goto(l, "compact")
  /\ UNCHANGED <<config, open, running, stopped, thread, pipe, next, joins, writeVars, online, crashed, rushed>>

(* Mutant: the ones behind it do not move up. *)
RoundUnmoved(cs, i) == IF i <= Len(cs) /\ cs[i] = Gone THEN Front(cs) ELSE cs

(* In round i entry i is taken out, if it is empty, and the ones behind it *)
(* move up.                                                                *)
Round(cs, i) == IF i <= Len(cs) /\ cs[i] = Gone THEN RemoveAt(cs, i) ELSE cs

Compact(cs) ==
  LET after[i \in 0..Len(cs)] == IF i = 0 THEN cs ELSE Round(after[i - 1], i)
  IN  after[Len(cs)]

(* The dead are taken out, and a new client may come.  Then every entry is *)
(* read from, and there is no object in one that is empty.                 *)
Serve(l) ==
  /\ pc[l] = "compact"
  /\ LET left == Compact(clients)
     IN  /\ clients' = left \/ (Len(left) < MaxClients /\ clients' = Append(left, 0))
         /\ crashed' = \E i \in DOMAIN left : left[i] = Gone
  /\ ToTop(l)
  /\ UNCHANGED <<config, open, running, stopped, thread, pipe, next, joins, writeVars, rushed>>

(* A client's connection lives, *)
Stay(l) ==
  /\ pc[l] = "net" /\ online[l] /\ ~isServer /\ open
  /\ ToTop(l)
  /\ UNCHANGED <<config, open, running, stopped, thread, pipe, next, joins, writeVars, clients, crashed, rushed>>

(* or dies; one that is not persistent ends its loop with it. *)
Die(l) ==
  /\ pc[l] = "net" /\ online[l] /\ ~isServer
  /\ open' = FALSE /\ clients' = <<>>
  /\ online' = [online EXCEPT ![l] = FALSE]
  /\ Goto(l, IF persistent THEN "top" ELSE "dying")
  /\ UNCHANGED <<config, running, stopped, thread, pipe, next, joins, writeVars, crashed, rushed>>

EndDead(l) ==
  /\ pc[l] = "dying" /\ ~writing
  /\ running' = FALSE /\ stopped' = TRUE /\ Goto(l, "ended")
  /\ UNCHANGED <<config, open, thread, pipe, next, joins, writeVars, loopVars, rushed>>

(* What a caller does that has m_WriteMutex, or has set m_Running to FALSE *)
Continue(c) == WakeLoop(c) \/ BeginJoin(c) \/ Join(c) \/ WriteLength(c) \/ WritePointer(c)

Call(c) ==
  \/ Start(c) \/ Claim(c) \/ Create(c) \/ CreateFails(c) \/ Stop(c)
  \/ Write(c) \/ WriteRestarts(c) \/ WriteRefused(c) \/ WriteAccepted(c) \/ LockWrite(c)
  \/ Continue(c)

Run(l) ==
  \/ Begin(l) \/ Top(l) \/ Reconnect(l) \/ Ending(l) \/ ReadLength(l) \/ ReadPointer(l)
  \/ Offline(l) \/ Bury(l) \/ Serve(l) \/ Stay(l) \/ Die(l) \/ EndDead(l)

Next ==
  /\ ~crashed
  /\ (\E c \in Callers : Call(c)) \/ (\E l \in Loops : Run(l) \/ OtherEvent(l))

(* The loop is woken for what is in the socket pair, never by the network  *)
(* for sure; a call that others wait for goes on; mutexes are fair.        *)
Fairness ==
  /\ \A l \in Loops : SF_vars(~crashed /\ Run(l))
  /\ \A c \in Callers : WF_vars(~crashed /\ Continue(c))

Spec == Init /\ [][Next]_vars /\ Fairness
-----------------------------------------------------------------------------
TypeOK ==
  /\ open \in BOOLEAN /\ running \in BOOLEAN /\ stopped \in BOOLEAN
  /\ writing \in BOOLEAN /\ crashed \in BOOLEAN /\ rushed \in BOOLEAN
  /\ thread \in Loops \cup {NoThread} /\ joins \in [Callers -> Loops \cup {NoThread}]
  /\ written \in 0..MaxMessages /\ message \in [Callers -> 0..MaxMessages]
  /\ Len(pipe) <= PipeRoom
  /\ \A i \in DOMAIN clients : clients[i] \in {Gone} \cup (0..MaxMessages)

(* One event loop at a time, unless one was claimed while one was on its   *)
(* way: it alone uses m_Clients and m_Sock, which nothing locks.           *)
OneLoop == ~rushed => \A k, l \in Loops : Alive(k) /\ Alive(l) => k = l

(* "Writing to the SocketAddress is thread safe": the writers do not make  *)
(* two event loops.                                                        *)
NeverTwoLoops == \A k, l \in Loops : Alive(k) /\ Alive(l) => k = l

(* "Stops the event loop": when stopDevice has returned no loop is alive,  *)
(* and the destructor may free what it uses.                               *)
StopStops ==
  [][\A c \in Callers :
       pc[c] # "halted" /\ pc'[c] = "halted" => \A l \in Loops : ~Alive(l)']_vars

(* The pair is full, whoever writes to it has m_WriteMutex, and no loop    *)
(* comes to read from it.                                                  *)
Jammed ==
  /\ writing /\ ~Room
  /\ \A l \in Loops : pc[l] \in {"none", "starting", "connect", "ending", "dying", "ended"}

(* stopDevice returns once it has cleared m_Running: the loop is woken and *)
(* ends; unless the pair jams, the device is started anew before the loop  *)
(* is joined, or two loops take each other's wake-ups.                     *)
StopReturns ==
  \A c \in Callers : pc[c] \in {"wake", "unlocked", "join"} ~>
    pc[c] = "halted" \/ Jammed \/ crashed \/ rushed \/ running

(* A loop finds a length where it reads one and the pointer of that        *)
(* message after it, and every client that is there is given its messages  *)
(* in the order of the writes, none of them twice; if there is one loop.   *)
FramesKept ==
  ~rushed =>
    /\ \A l \in Loops : pipe # <<>> =>
         /\ pc[l] = "poll" => "length" \in DOMAIN Head(pipe)
         /\ pc[l] = "take" => "pointer" \in DOMAIN Head(pipe)
    /\ \A n \in DOMAIN pipe : "pointer" \in DOMAIN pipe[n] =>
         /\ \A i \in DOMAIN clients : clients[i] < pipe[n].pointer
         /\ \A m \in 1..(n - 1) : "pointer" \in DOMAIN pipe[m] => pipe[m].pointer < pipe[n].pointer

(* What a client has been given, the others that live have been given too  *)
(* unless they came later.                                                 *)
ClientsServed ==
  ~rushed =>
    \A i \in DOMAIN clients : \A k \in 1..(i - 1) :
      Gone \in {clients[k], clients[i]} \/ clients[k] >= clients[i]

Lives(client) == client # Gone

(* Whoever dies, the clients that live keep their places in the order, and *)
(* the process crashes only when two that were next to each other die in   *)
(* the same round.                                                         *)
DeadTakenOut ==
  [][\A l \in Loops : pc[l] = "compact" /\ pc'[l] = "top" =>
       /\ IsPrefix(SelectSeq(clients, Lives), SelectSeq(clients', Lives))
       /\ crashed' <=> \E i \in DOMAIN clients : i + 1 \in DOMAIN clients
                            /\ clients[i] = Gone /\ clients[i + 1] = Gone]_vars
=============================================================================
