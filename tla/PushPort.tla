------------------------------ MODULE PushPort ------------------------------
(***************************************************************************)
(* A DataFilterAddress that pushes data to its subscribers, which it knows *)
(* by their index in the AddressBank: push, disconnect and pushData        *)
(* (AddressBank/src/DataFilterAddress.cc), composed with the bank in which *)
(* the subscribers come and go.                                            *)
(***************************************************************************)
EXTENDS AddressBank

CONSTANT MaxClients   \* bound on the number of subscriptions

VARIABLES
  clients,    \* PushClients
  alloc,      \* NumPushClientsAlloc
  reached     \* the addresses a pushData has just written to, in order

portVars == <<clients, alloc, reached>>
vars == <<bankVars, portVars>>

Init == BankInit /\ clients = <<>> /\ alloc = 0 /\ reached = <<>>

Grown(full) == IF full THEN alloc + 1 ELSE alloc

(* push(pa): only when the array is full is pa looked for in it. *)
Push(a) ==
  LET i == bank.index[a]
      full == Len(clients) = alloc
  IN  /\ i # 0 /\ ~Crashing
      /\ Len(clients) < MaxClients
      /\ ~(full /\ \E n \in DOMAIN clients : clients[n] = i)
      /\ clients' = Append(clients, i)
      /\ alloc' = Grown(full)
      /\ reached' = <<>>
      /\ UNCHANGED bankVars

Disconnect(i) ==
  /\ \E n \in DOMAIN clients : clients[n] = i
  /\ clients' = SelectSeq(clients, LAMBDA c : c # i)
  /\ reached' = <<>>
  /\ UNCHANGED <<bankVars, alloc>>

(* AddressBankThread::write; a subscriber's own answer has ADDRESS_INVALID *)
(* masked out.                                                             *)
WriteCode(i) == IF LookUp(bank, i) = None THEN {"RESOURCE_ERROR", "ADDRESS_INVALID"} ELSE {}

(* pushData writes to every subscriber and disconnects those for which the *)
(* code equals ADDRESS_INVALID.                                            *)
PushData ==
  /\ clients # <<>> /\ ~Crashing
  /\ reached' = [n \in DOMAIN clients |-> LookUp(bank, clients[n])]
  /\ clients' = SelectSeq(clients, LAMBDA i : WriteCode(i) # {"ADDRESS_INVALID"})
  /\ UNCHANGED <<bankVars, alloc>>

Next ==
  \/ BankNext /\ reached' = <<>> /\ UNCHANGED <<clients, alloc>>
  \/ \E a \in Addrs : Push(a)
  \/ \E i \in 1 .. MaxIndex : Disconnect(i)
  \/ PushData

Spec == Init /\ [][Next]_vars
-----------------------------------------------------------------------------
(* A push reaches, for every subscription, the very address that held the  *)
(* index when it subscribed, or nothing; never an address made since.      *)
ReachesOnlySubscribers ==
  [][PushData /\ ~moved =>
       \A n \in DOMAIN clients : \A h \in issued :
         h.index = clients[n] => reached'[n] \in {h.addr, None}]_vars
=============================================================================
