------------------------------- MODULE Replay -------------------------------
(***************************************************************************)
(* Replaying recorded sensor files: a FileAddressManager                   *)
(* (AddressBank/src/FileAddressManager.cc) merges the odometry file and    *)
(* the data files by time and writes them to addresses of the bank; the    *)
(* measurements go to a MeasSequencer (Filters/src/MeasSequencer.cc) that  *)
(* puts them in the order of their times.                                  *)
(*                                                                         *)
(* A file is the set of times of its data, which ascend ("assumes that the *)
(* files are ordered in time") and include the delay configured for it.    *)
(* step() is cut where it writes to the bank; other threads may delete an  *)
(* address in between.                                                     *)
(***************************************************************************)
EXTENDS Integers, FiniteSetsExt, SequencesExt

CONSTANTS
  Files,        \* the data files, numbered in the order of addFile
  TypeOf,       \* the sensor type of each file's measurements
  OdomFiles,    \* the odometry files to try, sets of times
  DataFiles,    \* the data files to try, sets of times
  Sequencing,   \* the settings of the sequencer to try
  FakeTargets   \* where odometry triggered empty measurements may go

Addresses == {"odom", "meas", "other"}
Types == {"sick", "vision", "fake"}

ASSUME ReplayAssumption ==
  /\ Files \subseteq Nat \ {0} /\ TypeOf \in [Files -> Types \ {"fake"}]
  /\ \A f \in OdomFiles : f # {} /\ f \subseteq Nat
  /\ \A f \in DataFiles : f \subseteq Nat
  /\ Sequencing \subseteq [trigger : Types, margin : Nat]
  /\ FakeTargets \subseteq {"none", "meas", "other"}

VARIABLES
  alive,      \* the addresses that are in the bank
  open,       \* is the odometry file open?
  odom,       \* the time of m_Odom.m_Data
  odomRest,   \* what has not been read from the odometry file
  odomTo,     \* is m_Odom.m_PushIndex set?
  fakeTo,     \* m_FakeMeasIndex
  odomTime,   \* m_OdomTime
  next,       \* per file in m_Files, its unwritten data: the first is m_Data
  measTo,     \* the files whose m_PushIndex is set
  cur,        \* the file step() has chosen, or 0 between two calls
  setting,    \* m_TriggerType and m_TriggerTimeMargin
  meas,       \* m_Meas
  lastOut,    \* m_LastOutputTime
  refused,    \* history: was a measurement refused for its time?
  wrote,      \* history: the last datum a file gave, and m_OdomTime then
  trigTime,   \* history: the latest time the sequencer was triggered for
  pause,      \* history: the longest pause in the odometry so far
  out         \* history: the last set the sequencer put out, and its fault

odomVars == <<open, odom, odomRest, odomTo, odomTime, pause>>
fileVars == <<next, measTo, cur, wrote>>
seqVars == <<meas, lastOut, refused, trigTime, out>>
vars == <<alive, odomVars, fakeTo, fileVars, setting, seqVars>>

First(s) == Min(s)
Rest(s) == s \ {Min(s)}

(* addOdomFile reads the first datum and writes it; addFile reads one too, *)
(* and takes a file without data out of the list again.                    *)
Init ==
  /\ alive = Addresses
  /\ \E f \in OdomFiles : odom = First(f) /\ odomRest = Rest(f) /\ odomTime = First(f)
  /\ pause = 0
  /\ open = TRUE /\ odomTo = TRUE
  /\ fakeTo \in FakeTargets
  /\ next \in [Files -> DataFiles]
  /\ measTo = Files /\ cur = 0 /\ wrote = [time |-> 0, odom |-> 0]
  /\ setting \in Sequencing
  /\ meas = <<>> /\ lastOut = 0
  /\ refused = FALSE /\ trigTime = -1 /\ out = 0

(* Another thread deletes an address. *)
Delete(a) ==
  /\ a \in alive /\ alive' = alive \ {a}
  /\ UNCHANGED <<odomVars, fakeTo, fileVars, setting, seqVars>>
-----------------------------------------------------------------------------
(* MeasSequencer::write *)

(* Mutant: data of a later time are passed by when they have come first.   *)
InsertedLast(m) == Append(meas, m)

Inserted(m) ==
  LET later == {n \in DOMAIN meas : m.time < meas[n].time}
  IN  IF later = {} THEN Append(meas, m) ELSE InsertAt(meas, Min(later), m)

(* Mutant: the margin is not taken off. *)
HorizonNoMargin(m) == m.time

Horizon(m) == m.time - setting.margin

(* What goes out when m comes in: from the front of the list, data up to   *)
(* the trigger's time.                                                     *)
Due(m) ==
  LET all == Inserted(m)
      upTo == {n \in 0 .. Len(all) : \A i \in 1 .. n : all[i].time <= Horizon(m)}
  IN  IF m.type = setting.trigger THEN SubSeq(all, 1, Max(upTo)) ELSE <<>>

Sequence(m) ==
  IF m.time < lastOut
  THEN /\ refused' = TRUE
       /\ UNCHANGED <<meas, lastOut, trigTime, out>>
  ELSE LET due == Due(m)
       IN  /\ meas' = SubSeq(Inserted(m), Len(due) + 1, Len(meas) + 1)
           /\ lastOut' = IF due = <<>> THEN lastOut ELSE Last(due).time
           /\ trigTime' = IF m.type = setting.trigger THEN Max({trigTime, Horizon(m)})
                                                      ELSE trigTime
           /\ out' = IF due # <<>> THEN Head(due).time ELSE out
           /\ UNCHANGED refused

(* write to the bank: only an address in it is called. *)
WriteMeas(a, m) ==
  IF a = "meas" /\ a \in alive THEN Sequence(m) ELSE UNCHANGED seqVars
-----------------------------------------------------------------------------
(* step *)

CloseOdom ==
  /\ odomRest = {}
  /\ open' = FALSE /\ cur' = 0
  /\ UNCHANGED <<alive, odom, odomRest, odomTo, odomTime, pause, fakeTo, next, measTo,
                 wrote, setting, seqVars>>

Fake(t) == [time |-> t, type |-> "fake"]

(* When the empty measurement cannot be written it is the odometry's index *)
(* that is cleared.                                                        *)
FakeFails == fakeTo # "none" /\ fakeTo \notin alive

(* Inside the loop, m_OdomTime is the time of the last odometry that was   *)
(* written, and the empty measurement has that time.                       *)
ReadOdom ==
  /\ odomRest # {}
  /\ odom' = First(odomRest) /\ odomRest' = Rest(odomRest)
  /\ pause' = Max({pause, odom' - odom})
  /\ odomTime' = IF odomTo /\ "odom" \in alive THEN odom' ELSE odomTime
  /\ odomTo' = (odomTo /\ "odom" \in alive /\ ~FakeFails)
  /\ WriteMeas(fakeTo, Fake(odomTime'))
  /\ UNCHANGED <<alive, open, fakeTo, fileVars, setting>>

(* With all data written, an empty measurement is only sent while the      *)
(* odometry is, and m_OdomTime is set whether it arrived or not.           *)
ReadOdomOnly ==
  /\ odomRest # {}
  /\ odom' = First(odomRest) /\ odomRest' = Rest(odomRest)
  /\ pause' = Max({pause, odom' - odom})
  /\ odomTime' = IF odomTo THEN odom' ELSE odomTime
  /\ odomTo' = (odomTo /\ "odom" \in alive /\ ~FakeFails)
  /\ IF odomTo THEN WriteMeas(fakeTo, Fake(odomTime')) ELSE UNCHANGED seqVars
  /\ UNCHANGED <<alive, open, fakeTo, fileVars, setting>>

Unwritten == {f \in Files : next[f] # {}}

Oldest ==
  CHOOSE f \in Unwritten : \A g \in Unwritten :
    \/ First(next[f]) < First(next[g])
    \/ First(next[f]) = First(next[g]) /\ f <= g

Begin ==
  /\ open /\ cur = 0 /\ Unwritten # {}
  /\ cur' = Oldest
  /\ UNCHANGED <<alive, odomVars, fakeTo, next, measTo, wrote, setting, seqVars>>

(* Mutant: the odometry is one datum behind. *)
CaughtUpBehind == odomRest # {} => First(odomRest) >= First(next[cur])

CaughtUp == odom >= First(next[cur])

CatchUp == open /\ cur # 0 /\ ~CaughtUp /\ (ReadOdom \/ CloseOdom)

WriteData ==
  /\ open /\ cur # 0 /\ CaughtUp
  /\ WriteMeas(IF cur \in measTo THEN "meas" ELSE "none",
               [time |-> First(next[cur]), type |-> TypeOf[cur]])
  /\ measTo' = IF "meas" \in alive THEN measTo ELSE measTo \ {cur}
  /\ wrote' = [time |-> First(next[cur]), odom |-> odomTime]
  /\ next' = [next EXCEPT ![cur] = Rest(@)]
  /\ cur' = 0
  /\ UNCHANGED <<alive, odomVars, fakeTo, setting>>

NoMoreData == open /\ cur = 0 /\ Unwritten = {} /\ (ReadOdomOnly \/ CloseOdom)

Step == Begin \/ CatchUp \/ WriteData \/ NoMoreData

Next == Step \/ \E a \in Addresses : Delete(a)

Spec == Init /\ [][Next]_vars
-----------------------------------------------------------------------------
(* "helps sequenze measurements so that they come out ordered by their     *)
(* timestamp", and "all data up to the time of the trigger data minus T    *)
(* will be output": none of it is older than what went out before, though  *)
(* data come too late or with an odometry time that stands still.          *)
OutInOrder ==
  [][/\ out' # out => out' >= lastOut
     /\ trigTime' # trigTime => \A n \in DOMAIN meas' : meas'[n].time > trigTime']_seqVars

(* The order in which files and odometry are written is one the sequencer  *)
(* can mend: no measurement comes too late for it, though the empty        *)
(* measurements of the odometry are written ahead of older data.  When     *)
(* these trigger the sequencer its margin must cover the odometry's pauses.*)
NothingRefused ==
  odomTo /\ (setting.trigger = "fake" => pause <= setting.margin) => ~refused

(* "odometry will be read so that it is at least as new as the data to     *)
(* write", and the data of all files are written oldest first.             *)
OdomAhead ==
  [][wrote' # wrote =>
       /\ wrote'.time >= wrote.time
       /\ odomTo => wrote'.odom >= wrote'.time]_vars
=============================================================================
