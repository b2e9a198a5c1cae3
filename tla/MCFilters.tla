----------------------------- MODULE MCFilters -----------------------------
(* A behaviour is one of three filters: the other two stay as they are.    *)
(*                                                                         *)
(* Replay: all odometry files of up to MaxTick ticks and two data files,   *)
(* one from a laser scanner and one from a camera.                         *)
(*                                                                         *)
(* Syncronizer: two inputs as in Filters/src/demo.cc: port 0 is written to *)
(* and port 1 pulls.  Other wirings: both pull and port -1 is written to   *)
(* as well, and port 1 pulls from another Syncronizer.                     *)
EXTENDS Replay, Syncronizer, MotionControl

CONSTANT MaxTick  \* bound: the last time in a file

Ticks == 1 .. MaxTick

MCFiles == {1, 2}
MCTypeOf == [f \in MCFiles |-> IF f = 1 THEN "vision" ELSE "sick"]
MCOdomFiles == SUBSET Ticks \ {{}}
MCDataFiles == {f \in SUBSET Ticks : Cardinality(f) <= 2}
MCSequencing == {[trigger |-> "sick", margin |-> 0], [trigger |-> "fake", margin |-> 1],
                 [trigger |-> "fake", margin |-> 2]}

MCTriggers == {-1, 0}

MCConfigs == {[store |-> TRUE, max |-> -1], [store |-> TRUE, max |-> 1],
              [store |-> FALSE, max |-> -1]}

MCWirings == {[pulls |-> {0, 1}, kept |-> {}], [pulls |-> {1}, kept |-> {}],
              [pulls |-> {1}, kept |-> {1}]}

VARIABLE part

(* One way of standing still is enough. *)
NoReplay ==
  /\ odom = 1 /\ odomRest = {} /\ fakeTo = "none"
  /\ next = [f \in Files |-> {}] /\ setting = CHOOSE s \in Sequencing : TRUE

NoSync == config = (CHOOSE c \in Configs : TRUE) /\ pulls = {1} /\ kept = {}

FiltersInit ==
  /\ part \in {"replay", "sync", "motion"}
  /\ Init /\ SyncInit /\ MotionInit
  /\ part # "replay" => NoReplay
  /\ part # "sync" => NoSync

FiltersNext ==
  /\ \/ part = "replay" /\ Next /\ UNCHANGED <<syncronizerVars, motionVars>>
     \/ part = "sync" /\ SyncNext /\ UNCHANGED <<vars, motionVars>>
     \/ part = "motion" /\ MotionNext /\ UNCHANGED <<vars, syncronizerVars>>
  /\ UNCHANGED part

filtersVars == <<vars, syncronizerVars, motionVars, part>>

(* The fairness of MotionControl; the other two have none. *)
FiltersSpec ==
  /\ FiltersInit /\ [][FiltersNext]_filtersVars
  /\ WF_filtersVars(part = "motion" /\ Calc /\ UNCHANGED <<vars, syncronizerVars, part>>)
=============================================================================
