---------------------------- MODULE ThreadSpaces ----------------------------
(***************************************************************************)
(* Thread spaces and their locks (AddressBank/README.threads): every       *)
(* address lives in a space, and who calls it holds the space's lock.  A   *)
(* ThreadSwitcher passes data from one space to another.  It takes the     *)
(* other lock for every push, unless all addresses it pushes to have       *)
(* permitted its own space to call them without (Address::isThreadSafe);   *)
(* an address that has given permits locks those spaces while it leaves    *)
(* the bank (Address::disconnectAddress).                                  *)
(*                                                                         *)
(* A writer is a thread that holds the lock of its home space and writes   *)
(* to its switcher.  The pull side of a switcher is the same code with     *)
(* read in place of write.                                                 *)
(***************************************************************************)

CONSTANTS
  Callers,    \* the threads that push data
  Deleters,   \* the threads that delete addresses
  Spaces,     \* the thread spaces
  Home,       \* the space of each caller
  Out,        \* the space its switcher writes to; its own if it has none
  Clients,    \* per caller, the addresses its output pushes to
  Addrs,      \* those addresses
  Where,      \* the space of each address
  Permanent,  \* the addresses for which setCanPermit has succeeded
  NoThread

Threads == Callers \cup Deleters

ASSUME SpacesAssumption ==
  /\ Home \in [Callers -> Spaces] /\ Out \in [Callers -> Spaces]
  /\ Where \in [Addrs -> Spaces] /\ Permanent \subseteq Addrs
  /\ Clients \in [Callers -> SUBSET Addrs]
  /\ \A w \in Callers : \A a \in Clients[w] : Where[a] = Out[w]
  /\ Callers \cap Deleters = {} /\ NoThread \notin Threads

VARIABLES
  owner,    \* who holds the lock of each space
  bank,     \* the addresses that can be found by their index
  permits,  \* PermittedThreads of each address, up to its own space
  called,   \* m_PushCalled: is a check due at the next write?
  locked,   \* m_PushLocked
  pc,       \* where each thread is
  done,     \* the clients or permits it has done in its loop
  safe,     \* the variable r of setPushLocked
  inside,   \* the addresses whose write a thread is running
  victim    \* the address each deleter is deleting

bankVars == <<bank, permits>>
switchVars == <<called, locked, safe>>
vars == <<owner, bankVars, switchVars, pc, done, inside, victim>>

(* Who pushes to addresses of its own space pushes directly. *)
Switched(w) == Home[w] # Out[w]

Init ==
  /\ owner = [s \in Spaces |-> NoThread]
  /\ bank = Addrs
  /\ permits = [a \in Addrs |-> {}]
  /\ called = [w \in Callers |-> Switched(w)]
  /\ locked = [w \in Callers |-> Switched(w)]
  /\ pc = [t \in Threads |-> "idle"] /\ done = [t \in Threads |-> {}]
  /\ safe = [w \in Callers |-> TRUE]
  /\ inside = [w \in Callers |-> {}]
  /\ victim \in [Deleters -> Addrs]

Free(s) == owner[s] = NoThread

Goto(t, label) == pc' = [pc EXCEPT ![t] = label] /\ done' = [done EXCEPT ![t] = {}]
Done(t, x) == done' = [done EXCEPT ![t] = @ \cup {x}]
-----------------------------------------------------------------------------
(* A write to the switcher *)

(* The main rule: the thread gets the lock of its own space. *)
Enter(w) ==
  /\ pc[w] = "idle" /\ Free(Home[w])
  /\ owner' = [owner EXCEPT ![Home[w]] = w]
  /\ IF called[w] THEN Goto(w, "check")
     ELSE IF locked[w] THEN Goto(w, "lock")
     ELSE Goto(w, "push")
  /\ called' = [called EXCEPT ![w] = FALSE]
  /\ safe' = [safe EXCEPT ![w] = TRUE]
  /\ UNCHANGED <<bankVars, locked, inside, victim>>

(* Mutant: the permit is given but the space is not remembered. *)
PermitForgotten(a, s) == permits

(* Address::isThreadSafe *)
Permit(a, s) ==
  IF a \in bank \cap Permanent THEN [permits EXCEPT ![a] = @ \cup {s}] ELSE permits

(* Mutant: one address that permits is enough. *)
AnySafe(w, a) ==
  IF done[w] = {} THEN a \in bank \cap Permanent ELSE safe[w] \/ a \in bank \cap Permanent

AllSafe(w, a) == safe[w] /\ a \in bank \cap Permanent

(* AddressBank::isThreadSafe gets the lock of the other space, looks the   *)
(* client up and asks it.                                                  *)
CheckClient(w) ==
  /\ pc[w] = "check" /\ Free(Out[w])
  /\ \E a \in Clients[w] \ done[w] :
       /\ permits' = Permit(a, Home[w])
       /\ safe' = [safe EXCEPT ![w] = AllSafe(w, a)]
       /\ Done(w, a)
  /\ UNCHANGED <<owner, bank, called, locked, pc, inside, victim>>

CheckDone(w) ==
  /\ pc[w] = "check" /\ Clients[w] \subseteq done[w]
  /\ locked' = [locked EXCEPT ![w] = ~safe[w] \/ Clients[w] = {}]
  /\ Goto(w, IF locked'[w] THEN "lock" ELSE "push")
  /\ UNCHANGED <<owner, bankVars, called, safe, inside, victim>>

(* pushDataLocked *)
Lock(w) ==
  /\ pc[w] = "lock" /\ Free(Out[w])
  /\ owner' = [owner EXCEPT ![Out[w]] = w]
  /\ Goto(w, "push")
  /\ UNCHANGED <<bankVars, switchVars, inside, victim>>

(* Every client is looked up in the bank and called. *)
Call(w) ==
  /\ pc[w] = "push"
  /\ \E a \in (Clients[w] \cap bank) \ done[w] :
       /\ inside' = [inside EXCEPT ![w] = {a}]
       /\ Done(w, a)
  /\ pc' = [pc EXCEPT ![w] = "inside"]
  /\ UNCHANGED <<owner, bankVars, switchVars, victim>>

(* One that is not there any more stays a client: pushData compares the    *)
(* return code, which has two flags, with ADDRESS_INVALID alone.           *)
Miss(w) ==
  /\ pc[w] = "push"
  /\ \E a \in Clients[w] \ (bank \cup done[w]) : Done(w, a)
  /\ UNCHANGED <<owner, bankVars, switchVars, pc, inside, victim>>

Return(w) ==
  /\ pc[w] = "inside"
  /\ inside' = [inside EXCEPT ![w] = {}]
  /\ pc' = [pc EXCEPT ![w] = "push"]
  /\ UNCHANGED <<owner, bankVars, switchVars, done, victim>>

(* The locks it has go back. *)
Exit(w) ==
  /\ pc[w] = "push" /\ Clients[w] \subseteq done[w]
  /\ owner' = [s \in Spaces |-> IF owner[s] = w THEN NoThread ELSE owner[s]]
  /\ Goto(w, "idle")
  /\ UNCHANGED <<bankVars, switchVars, inside, victim>>
-----------------------------------------------------------------------------
(* Deleting an address *)

(* The destructor runs with the lock of the address's own space. *)
BeginDelete(d) ==
  /\ pc[d] = "idle" /\ victim[d] \in bank /\ Free(Where[victim[d]])
  /\ owner' = [owner EXCEPT ![Where[victim[d]]] = d]
  /\ Goto(d, "permitted")
  /\ UNCHANGED <<bankVars, switchVars, inside, victim>>

(* disconnectAddress gets the lock of every space it has given a permit to.*)
LockPermitted(d) ==
  /\ pc[d] = "permitted"
  /\ \E s \in permits[victim[d]] \ done[d] :
       Free(s) /\ owner' = [owner EXCEPT ![s] = d] /\ Done(d, s)
  /\ UNCHANGED <<bankVars, switchVars, pc, inside, victim>>

Remove(d) ==
  /\ pc[d] = "permitted" /\ permits[victim[d]] \subseteq done[d]
  /\ bank' = bank \ {victim[d]}
  /\ permits' = [permits EXCEPT ![victim[d]] = {}]
  /\ Goto(d, "removed")
  /\ UNCHANGED <<owner, switchVars, inside, victim>>

(* Mutant: only the locks of the spaces with a permit go back. *)
EndDeleteKeepingOwn(d) ==
  /\ pc[d] = "removed"
  /\ owner' = [s \in Spaces |-> IF owner[s] = d /\ s # Where[victim[d]] THEN NoThread ELSE owner[s]]
  /\ Goto(d, "gone")
  /\ UNCHANGED <<bankVars, switchVars, inside, victim>>

EndDelete(d) ==
  /\ pc[d] = "removed"
  /\ owner' = [s \in Spaces |-> IF owner[s] = d THEN NoThread ELSE owner[s]]
  /\ Goto(d, "gone")
  /\ UNCHANGED <<bankVars, switchVars, inside, victim>>

Write(w) ==
  Enter(w) \/ CheckClient(w) \/ CheckDone(w) \/ Lock(w) \/ Call(w) \/ Miss(w) \/ Return(w) \/ Exit(w)

Delete(d) == BeginDelete(d) \/ LockPermitted(d) \/ Remove(d) \/ EndDelete(d)

Next == (\E w \in Callers : Write(w)) \/ (\E d \in Deleters : Delete(d))

(* Threads run, and a thread that waits for a lock gets it at last: the    *)
(* mutexes are taken to be fair.                                           *)
Fairness ==
  /\ \A w \in Callers : SF_vars(Write(w))
  /\ \A d \in Deleters : SF_vars(LockPermitted(d) \/ Remove(d) \/ EndDelete(d))

Spec == Init /\ [][Next]_vars /\ Fairness
-----------------------------------------------------------------------------
TypeOK ==
  /\ owner \in [Spaces -> Threads \cup {NoThread}]
  /\ bank \subseteq Addrs /\ permits \in [Addrs -> SUBSET Spaces]
  /\ called \in [Callers -> BOOLEAN] /\ locked \in [Callers -> BOOLEAN]
  /\ safe \in [Callers -> BOOLEAN]
  /\ pc \in [Threads -> {"idle", "check", "lock", "push", "inside",
                         "permitted", "removed", "gone"}]
  /\ done \in [Threads -> SUBSET (Addrs \cup Spaces)]
  /\ inside \in [Callers -> SUBSET Addrs]
  /\ victim \in [Deleters -> Addrs]

(* "to be sure that B doesn't try to write to A during removing A from the *)
(* AddressBank": whoever runs the write of an address runs it while the    *)
(* address is in the bank, whether it has the lock or only a permit.       *)
NotRemovedWhileCalled == \A w \in Callers : inside[w] \subseteq bank

(* "if an address has write/read/push/pull called on it then it has the    *)
(* lock on the thread space": an address that has not asked to do without  *)
(* is only called by the thread that holds the lock.                       *)
CalledWithLock ==
  \A w \in Callers : \A a \in inside[w] \ Permanent : owner[Where[a]] = w

(* The locks a thread waits for. *)
Wanted(t) ==
  IF t \in Deleters
  THEN IF pc[t] = "permitted" THEN permits[victim[t]] \ done[t] ELSE {}
  ELSE IF pc[t] = "lock" \/ (pc[t] = "check" /\ ~(Clients[t] \subseteq done[t]))
       THEN {Out[t]} ELSE {}

(* Each of the threads S wants a lock that one of them has. *)
Circle(S) == S # {} /\ \A t \in S : \E s \in Wanted(t) : owner[s] \in S

Stuck == \E S \in SUBSET {t \in Threads : Wanted(t) # {}} : Circle(S)

(* A write that has begun comes to its end, and so does a deletion, unless *)
(* threads wait for each other: no lock is kept by a thread that is done,  *)
(* and no client or permit that is gone holds a loop up.                   *)
CallsReturn ==
  /\ \A w \in Callers : pc[w] # "idle" ~> pc[w] = "idle" \/ Stuck
  /\ \A d \in Deleters : pc[d] = "permitted" ~> pc[d] = "gone" \/ Stuck

(* An address "should probably be deleted after any object set to push/pull *)
(* it (not neccessary but good practice)": a thread that deletes one before *)
(* and a writer that pushes to it do not wait for each other.               *)
DeletesAnyTime ==
  \A d \in Deleters, w \in Callers : victim[d] \in Clients[w] => ~Circle({d, w})
=============================================================================
