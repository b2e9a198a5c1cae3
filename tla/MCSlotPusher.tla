---------------------------- MODULE MCSlotPusher ----------------------------
(* A slot of three cells with two clients.  Either one thread writes to    *)
(* it, or two threads do, with fewer data and calls of the application.    *)
EXTENDS SlotPusher

CONSTANTS w1, w2, FewWrites, FewCalls

MCTimes == {1, 2}

VARIABLE alone

PusherInit == SlotInit /\ alone \in BOOLEAN

PusherNext ==
  /\ SlotNext
  /\ IF alone THEN \A w \in Writers \ {w1} : wpc'[w] = "idle"
     ELSE written' <= FewWrites /\ calls' <= FewCalls
  /\ UNCHANGED alone

PusherSpec == PusherInit /\ [][PusherNext]_<<addressVars, alone>> /\ Fairness
=============================================================================
