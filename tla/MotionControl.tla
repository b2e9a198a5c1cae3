---------------------------- MODULE MotionControl ----------------------------
(***************************************************************************)
(* Commands with priorities, down to the drive of the robot.  Users write  *)
(* Commands to CollisionAvoidance, a CommandExecuter: it lets in what the  *)
(* command it executes now does not keep out (processCommand), and every   *)
(* time it is triggered (calc) it pushes a speed of its own to the drive   *)
(* (CommandAddress::pushData), or a stop.  The drive is not in the         *)
(* repository: a CommandExecuter whose only user is this one, which keeps  *)
(* what it executes as this one does.                                      *)
(*                                                                         *)
(* The speeds and the geometry are left out: a speed is zero or not.       *)
(* Replies change nothing here: those of the drive have Service 0, the     *)
(* Sender of what is pushed, and processCommand turns them away.           *)
(***************************************************************************)
EXTENDS Integers

CONSTANTS
  Users,       \* who sends commands
  Nobody,
  MaxPriority, \* bound: priorities of commands
  MaxTimeout   \* bound: the timeout of a speed, in steps of time

ASSUME MotionAssumption ==
  MaxPriority \in Nat \ {0} /\ MaxTimeout \in Nat /\ Nobody \notin Users

Priorities == 1..MaxPriority

VARIABLES
  current,  \* CurrentCommand: its type, priority and sender
  outPrio,  \* OutputCommand.Priority
  stoped,   \* Stoped
  timeout,  \* TimeOut
  fresh,    \* LastSendTime = 0
  avoidOn,  \* AvoidOn
  drive     \* of the drive: the priority it executes, and does it move?

pathVars == <<timeout, fresh>>
motionVars == <<current, outPrio, stoped, pathVars, avoidOn, drive>>

Command(type, prio, u) == [type |-> type, prio |-> prio, sender |-> u]

MotionInit ==
  /\ current = Command("none", 0, Nobody)
  /\ outPrio = 0 /\ stoped = TRUE
  /\ timeout = 0 /\ fresh = TRUE /\ avoidOn = TRUE
  /\ drive = [prio |-> 0, moving |-> FALSE]
-----------------------------------------------------------------------------
(* The drive *)

(* What the drive d is after a command, which it refuses as busy when it   *)
(* executes one of higher priority.                                        *)
Driven(d, type, prio) ==
  CASE prio < d.prio -> d
    [] type = "STOP" -> [prio |-> prio, moving |-> FALSE]
    [] type = "SPEED" -> [prio |-> prio, moving |-> TRUE]
    [] type = "RELEASE" -> [d EXCEPT !.prio = 0]

(* stop() pushes with the priority OutputCommand has from before. *)
StoppedDrive == Driven(drive, "STOP", outPrio)
-----------------------------------------------------------------------------
(* The commands of the users *)

(* processCommand: RESOURCE_ERROR|OBJECT_BUSY otherwise. *)
LetsIn(prio, u) ==
  prio > current.prio \/ (prio = current.prio /\ u = current.sender)

(* comSpeed and setPath; a speed of zero is a stop. *)
Speed(u, prio) ==
  /\ LetsIn(prio, u)
  /\ current' = Command("SPEED", prio, u)
  /\ fresh' = TRUE
  /\ timeout' \in 0..MaxTimeout
  /\ \/ stoped' = FALSE /\ UNCHANGED drive
     \/ stoped' = TRUE /\ drive' = StoppedDrive
  /\ UNCHANGED <<outPrio, avoidOn>>

(* comStop stops twice: the second time with the priority of the command   *)
(* it executed so far.                                                     *)
Stop(u, prio) ==
  /\ LetsIn(prio, u)
  /\ outPrio' = current.prio
  /\ drive' = Driven(StoppedDrive, "STOP", current.prio)
  /\ stoped' = TRUE
  /\ current' = Command("STOP", prio, u)
  /\ UNCHANGED <<pathVars, avoidOn>>

(* comSet: only switching the avoidance off stops the robot and makes the  *)
(* command the current one.                                                *)
AvoidOn(u, prio) ==
  /\ LetsIn(prio, u)
  /\ avoidOn' = TRUE
  /\ UNCHANGED <<current, outPrio, stoped, pathVars, drive>>

AvoidOff(u, prio) ==
  /\ LetsIn(prio, u)
  /\ avoidOn' = FALSE
  /\ stoped' = TRUE /\ drive' = StoppedDrive
  /\ current' = Command("SET", prio, u)
  /\ UNCHANGED <<outPrio, pathVars>>

(* Mutant: the release is pushed without a stop. *)
ReleaseMoving(u, prio) ==
  /\ LetsIn(prio, u)
  /\ stoped' = TRUE
  /\ current' = Command("RELEASE", 0, u)
  /\ drive' = Driven(drive, "RELEASE", outPrio)
  /\ UNCHANGED <<outPrio, pathVars, avoidOn>>

(* comRelease *)
Release(u, prio) ==
  /\ LetsIn(prio, u)
  /\ stoped' = TRUE
  /\ current' = Command("RELEASE", 0, u)
  /\ drive' = Driven(StoppedDrive, "RELEASE", outPrio)
  /\ UNCHANGED <<outPrio, pathVars, avoidOn>>
-----------------------------------------------------------------------------
(* calc, at every trigger whose inputs come *)

Elapsed == IF fresh THEN {0} ELSE 1..(MaxTimeout + 1)

(* Mutant: LastSendTime is not set. *)
TimeStands(t) == timeout > t /\ UNCHANGED pathVars

TimeLeft(t) == timeout > t /\ fresh' = FALSE /\ timeout' = timeout - t

(* setVelocity finds the time of the command over. *)
GoalReached(t) ==
  /\ ~stoped /\ timeout <= t
  /\ timeout' = 0 /\ fresh' = TRUE
  /\ stoped' = TRUE /\ drive' = StoppedDrive
  /\ UNCHANGED <<current, outPrio, avoidOn>>

(* trace comes to where the grid has no cell: calc sends the reply only.   *)
Unreachable(t) ==
  /\ ~stoped /\ TimeLeft(t) /\ avoidOn
  /\ UNCHANGED <<current, outPrio, stoped, avoidOn, drive>>

(* speed() *)
Drive(t) ==
  /\ ~stoped /\ TimeLeft(t)
  /\ outPrio' = current.prio
  /\ drive' = Driven(drive, "SPEED", current.prio)
  /\ UNCHANGED <<current, stoped, avoidOn>>

Calc == \E t \in Elapsed : GoalReached(t) \/ Unreachable(t) \/ Drive(t)

AnySpeed == \E u \in Users, prio \in Priorities : Speed(u, prio)

MotionNext ==
  \/ AnySpeed \/ Calc
  \/ \E u \in Users, prio \in Priorities :
       Stop(u, prio) \/ AvoidOn(u, prio) \/ AvoidOff(u, prio) \/ Release(u, prio)

(* The trigger goes on; users do what they like. *)
MotionSpec == MotionInit /\ [][MotionNext]_motionVars /\ WF_motionVars(Calc)
-----------------------------------------------------------------------------
TypeOK ==
  /\ current \in [type : {"none", "SPEED", "STOP", "SET", "RELEASE"},
                  prio : 0..MaxPriority, sender : Users \cup {Nobody}]
  /\ outPrio \in 0..MaxPriority
  /\ drive \in [prio : 0..MaxPriority, moving : BOOLEAN]
  /\ timeout \in 0..MaxTimeout
  /\ stoped \in BOOLEAN /\ fresh \in BOOLEAN /\ avoidOn \in BOOLEAN

(* No STOP is refused that matters: what the avoidance takes for stopped,  *)
(* with Stoped or because what it executes is no speed, does not move.     *)
StoppedIsStopped == stoped \/ current.type # "SPEED" => ~drive.moving

(* A robot that moves stops when its time is over, unless users send new   *)
(* speeds all the time.                                                    *)
MotionEnds == []<>~drive.moving \/ []<><<AnySpeed>>_motionVars
=============================================================================
