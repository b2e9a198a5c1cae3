------------------------------ MODULE PullPort ------------------------------
(***************************************************************************)
(* A DataFilterAddress that pulls data from a DataSlot while a device      *)
(* writes to it in time order: pull, disconnect, setSequenced, setLatest,  *)
(* setExact and pullData (AddressBank/src/DataFilterAddress.cc and .hh),   *)
(* composed with DataSlot: the port has its variables and its write.       *)
(*                                                                         *)
(* What the port hands to its filter is the object result, which a read    *)
(* that fails may leave as it was.                                         *)
(***************************************************************************)
EXTENDS DataSlot

CONSTANTS
  Gaps,        \* how much later than the last one the device's data may be
  Modes,       \* the ways of pulling the filter may choose, of AllModes
  DataNeeded   \* does the filter need data from this port?

AllModes == {"exact", "forward", "backward", "latest"}

ASSUME PortAssumption ==
  /\ Gaps \subseteq Nat
  /\ Modes \subseteq AllModes /\ DataNeeded \in BOOLEAN

VARIABLES
  alive,            \* is the slot's address in the bank?
  isPull,           \* IsPull: is the port connected to the slot?
  mode,             \* PullExact, PullSequenced or PullLatest
  lastTime,         \* LastTime
  nextData,         \* NextData
  result,           \* the datum of the last pull: its time and the ids in it
  code,             \* LastErrorCode, as pullData returned it
  at                \* history: the id the sequence of pulls has come to; 0
                    \* when it has not begun or when data was reported lost

portVars == <<isPull, mode, lastTime, nextData>>
pullVars == <<result, code, at>>
pullPortVars == <<vars, alive, portVars, pullVars>>

NoResult == [time |-> 0, ids |-> <<>>]

PortInit ==
  /\ Init
  /\ alive = TRUE
  /\ isPull = FALSE
  /\ mode = "exact" /\ lastTime = 0 /\ nextData = 0
  /\ result = NoResult /\ code = {} /\ at = 0

LastWritten == slot.hist[slot.last].time

(* The device writes in time order. *)
DeviceWrites(gap) ==
  /\ LastWritten + gap \in 1 .. MaxTime
  /\ Write(LastWritten + gap)
  /\ UNCHANGED <<alive, portVars, pullVars>>

(* The slot is deleted and its address leaves the bank. *)
DeleteSlot ==
  /\ alive /\ alive' = FALSE
  /\ UNCHANGED <<vars, portVars, pullVars>>

(* pull(pa) *)
Connect ==
  /\ alive /\ ~isPull /\ isPull' = TRUE
  /\ UNCHANGED <<vars, alive, mode, lastTime, nextData, pullVars>>

(* disconnect(index) *)
Disconnect ==
  /\ isPull /\ isPull' = FALSE
  /\ UNCHANGED <<vars, alive, mode, lastTime, nextData, pullVars>>

SetExact ==
  /\ mode' = "exact"
  /\ at' = 0
  /\ UNCHANGED <<vars, alive, isPull, lastTime, nextData, result, code>>

SetLatest ==
  /\ mode' = "latest" /\ lastTime' = 0
  /\ at' = 0
  /\ UNCHANGED <<vars, alive, isPull, nextData, result, code>>

(* A filter begins a sequence at time 0, with the latest datum, or at the  *)
(* time of the newest datum it knows of.                                   *)
SetSequenced(t, way) ==
  /\ mode' = way
  /\ lastTime' = t /\ nextData' = IF way = "forward" THEN 1 ELSE -1
  /\ at' = 0
  /\ UNCHANGED <<vars, alive, isPull, result, code>>

Sequenced == mode \in {"forward", "backward"}
-----------------------------------------------------------------------------
(* pullData *)

(* DataSlotAddress::read adds NO_INTERPOLATE to an answer that should have *)
(* the time asked for and has not.                                         *)
SlotAnswer(t, k) ==
  LET r == RingRead(slot, t, k)
  IN  IF t # 0 /\ r.k = 0 /\ "TIMESTAMP_ERROR" \notin r.code /\ r.time # t
      THEN [r EXCEPT !.code = @ \cup {"NO_INTERPOLATE", "TIMESTAMP_ERROR"}]
      ELSE r

Answer(t) ==
  CASE mode = "exact" -> SlotAnswer(t, 0)
    [] Sequenced      -> SlotAnswer(lastTime, nextData)
    [] OTHER          -> SlotAnswer(lastTime, 0)

Result(r) == IF r.ids = <<>> THEN result ELSE [time |-> r.time, ids |-> r.ids]

PullNothing ==
  /\ ~isPull
  /\ code' = IF DataNeeded THEN {"RESOURCE_ERROR"} ELSE {}
  /\ UNCHANGED <<vars, alive, portVars, result, at>>

(* ADDRESS_INVALID is changed to RESOURCE_ERROR *)
PullDead ==
  /\ isPull /\ ~alive
  /\ isPull' = FALSE
  /\ code' = {"RESOURCE_ERROR"}
  /\ UNCHANGED <<vars, alive, mode, lastTime, nextData, result, at>>

(* The slot does not read into a result of another class.  TYPE_ERROR is   *)
(* changed to RESOURCE_ERROR as well, and the sequence stays where it is.  *)
PullRefused ==
  /\ isPull /\ alive
  /\ Refused(FALSE)
  /\ code' = {"RESOURCE_ERROR"}
  /\ UNCHANGED <<vars, alive, portVars, result, at>>

(* Mutant: NextData is not reset when the time moves on. *)
AdvanceWithoutReset(res) ==
  /\ nextData' = nextData + 1
  /\ lastTime' = res.time

(* The two ways in which a sequence goes on. *)
Advance(res) ==
  IF lastTime = res.time
  THEN /\ nextData' = IF nextData < 0 THEN nextData - 1 ELSE nextData + 1
       /\ UNCHANGED lastTime
  ELSE nextData' = 1 /\ lastTime' = res.time

Restart(res) == nextData' = 1 /\ lastTime' = res.time

PullSlot(t) ==
  LET r == Answer(t)
      res == Result(r)
  IN  /\ isPull /\ alive
      /\ result' = res
      /\ code' = r.code
      /\ \/ /\ ~Sequenced
            /\ UNCHANGED <<lastTime, nextData, at>>
         \/ /\ Sequenced /\ r.code = {}
            /\ Advance(res)
            /\ at' = res.ids[1]
         \/ /\ Sequenced /\ "TIMESTAMP_TOO_OLD" \in r.code
            /\ Restart(res)
            /\ at' = 0
         \/ /\ Sequenced /\ r.code # {} /\ "TIMESTAMP_TOO_OLD" \notin r.code
            /\ UNCHANGED <<lastTime, nextData, at>>
      /\ UNCHANGED <<vars, alive, isPull, mode>>

PullData(t) == PullNothing \/ PullDead \/ PullRefused \/ PullSlot(t)

Ways == Modes \cap {"forward", "backward"}

PortNext ==
  \/ \E gap \in Gaps : DeviceWrites(gap)
  \/ DeleteSlot \/ Connect \/ Disconnect
  \/ "exact" \in Modes /\ SetExact
  \/ "latest" \in Modes /\ SetLatest
  \/ \E t \in {0, LastWritten}, way \in Ways : SetSequenced(t, way)
  \/ \E t \in 0 .. LastWritten : PullData(t)

PortSpec == PortInit /\ [][PortNext]_pullPortVars
-----------------------------------------------------------------------------
Pulled == \E t \in 0 .. LastWritten : PullSlot(t)

(* "Set pullData to read the data in order from the PullClient with no     *)
(* skiped data": a successful pull gives the datum written right after the *)
(* one before, however many data came in and went between the two pulls.   *)
NextInOrder ==
  [][Pulled /\ mode = "forward" /\ code' = {} /\ at # 0 => at' = at + 1]_pullPortVars

(* A sequence that is told there is no more data has come to the newest.   *)
NoMoreMeansCaughtUp ==
  [][Pulled /\ mode = "forward" /\ code' = NoMore /\ at # 0 => at = written]_pullPortVars
=============================================================================
