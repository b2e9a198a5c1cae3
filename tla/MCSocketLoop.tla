---------------------------- MODULE MCSocketLoop ----------------------------
(* Two threads that start, stop and write.  A behaviour is followed until  *)
(* a second loop is claimed; the last message is not written while there   *)
(* are MaxClients, nor does the last client come after it.                 *)
EXTENDS SocketLoop

Fewer == written < MaxMessages \/ Len(clients) < MaxClients

LoopNext == ~rushed /\ Next /\ Fewer'

LoopSpec == Init /\ [][LoopNext]_vars /\ Fairness
=============================================================================
