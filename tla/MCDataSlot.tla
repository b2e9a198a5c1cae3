----------------------------- MODULE MCDataSlot -----------------------------
(* A bare slot whose writers keep no order, or a slot that a device writes *)
(* to in order and a port pulls from.                                      *)
EXTENDS PullPort

CONSTANT MaxLate  \* bound: the last time of the data written in any order

VARIABLE bare

DataInit == PortInit /\ bare \in BOOLEAN

BareNext ==
  /\ Next /\ LastWritten' <= MaxLate
  /\ UNCHANGED <<alive, portVars, pullVars>>

DataNext ==
  /\ IF bare THEN BareNext ELSE PortNext
  /\ UNCHANGED bare

DataSpec == DataInit /\ [][DataNext]_<<pullPortVars, bare>>
=============================================================================
