----------------------------- MODULE Syncronizer -----------------------------
(***************************************************************************)
(* The filter Syncronizer (Filters/src/Syncronizer.cc): every trigger that *)
(* is written to it asks all inputs for data of the trigger's time, and    *)
(* when they have it one synchronous set goes out.  A trigger that comes   *)
(* before its data waits in PendingDataList, and later writes try again.   *)
(* Composed with the slots its inputs pull from (SlotRing) and with        *)
(* DataFilter::getInputs and DataFilterAddress::pullData.                  *)
(*                                                                         *)
(* write runs with its thread space locked, and so do the slots' writers:  *)
(* the passes of its loop are steps here, but no slot changes between them.*)
(* The data are their times: nothing here looks at anything else.          *)
(***************************************************************************)
EXTENDS SlotRing, Sequences, FiniteSets

CONSTANTS
  Ins,         \* the number of inputs, and of outputs
  Triggers,    \* the ports that triggers are written to: inputs, or -1
  Configs,     \* the settings of storing to try: see Config
  Wirings,     \* the wirings to try: see Wiring
  MaxTime,     \* bound: the last time of a datum or a trigger
  MaxTriggers  \* bound: the number of triggers written

Inputs == 0 .. Ins - 1

Config == [store : BOOLEAN, max : Int]

(* pulls: the inputs that pull from something; kept: those of them that    *)
(* pull from an output of another Syncronizer and not from a slot.         *)
Wiring == [pulls : SUBSET Inputs, kept : SUBSET Inputs]

ASSUME SyncAssumption ==
  /\ Ins \in Nat \ {0} /\ MaxTime \in Nat /\ MaxTriggers \in Nat
  /\ Triggers \subseteq Inputs \cup {-1}
  /\ Configs \subseteq Config /\ Wirings \subseteq Wiring

VARIABLES
  slot,      \* the slot that each input pulls from
  pulls,     \* the inputs with IsPull
  kept,      \* see Wiring
  config,    \* m_StoreUnsuccTriggerSignals and m_MaxNumPendingData
  pending,   \* PendingDataList
  lastTime,  \* LastTime
  data,      \* the times of Data[0 .. N - 1]
  pc,        \* "idle", or "loop" at the head of the loop in write
  trig,      \* the trigger being written
  r,         \* the return code so far; when idle, the code returned
  written,   \* history: the number of triggers accepted
  pushed     \* history: the last set that went out

syncVars == <<pending, lastTime, data, pc, trig, r, written, pushed>>
syncronizerVars == <<slot, pulls, kept, config, syncVars>>

NoTrigger == [id |-> 0, time |-> 0, port |-> -1]
NoSet == [id |-> 0, time |-> 0, data |-> [i \in Inputs |-> 0]]

(* setStoreSignals, setMaxNumStoredSignals and the ports are set up before *)
(* the first trigger.                                                      *)
SyncInit ==
  /\ config \in Configs
  /\ \E w \in Wirings : pulls = w.pulls /\ kept = w.kept
  /\ slot = [i \in Inputs |-> EmptySlot]
  /\ pending = <<>> /\ lastTime = 0
  /\ data = [i \in Inputs |-> 0]
  /\ pc = "idle" /\ trig = NoTrigger /\ r = {}
  /\ written = 0 /\ pushed = NoSet
-----------------------------------------------------------------------------
(* The slots *)

Newest(i) == slot[i].hist[slot[i].last].time

(* A slot's device, or the other filter, has newer data. *)
SlotWrite(i) ==
  /\ pc = "idle" /\ i \in pulls
  /\ \E t \in Newest(i) + 1 .. MaxTime :
       slot' = [slot EXCEPT ![i] = RingWrite(@, [time |-> t, id |-> 0])]
  /\ UNCHANGED <<pulls, kept, config, syncVars>>

(* The address that an input pulls from leaves the bank: the next pull     *)
(* finds that out and disconnects the port.                                *)
SlotGone(i) ==
  /\ pc = "idle" /\ i \in pulls
  /\ pulls' = pulls \ {i}
  /\ UNCHANGED <<slot, kept, config, syncVars>>
-----------------------------------------------------------------------------
(* pullData and getInputs *)

(* Syncronizer::read *)
ReadKept(i, t) ==
  [time |-> Newest(i),
   code |-> IF t = 0 \/ Newest(i) = t THEN {} ELSE {"TIMESTAMP_ERROR", "NO_INTERPOLATE"}]

ReadSlot(i, t) ==
  LET reply == RingRead(slot[i], t, 0)
  IN  [time |-> IF reply.ids = <<>> THEN data[i] ELSE reply.time, code |-> reply.code]

PullData(i, t) ==
  IF i \notin pulls THEN [time |-> data[i], code |-> {"RESOURCE_ERROR"}]
  ELSE IF i \in kept THEN ReadKept(i, t)
  ELSE ReadSlot(i, t)

(* What each input would answer; they are read in order, all but the one   *)
(* the trigger was written to, and the first that lacks a source or cannot *)
(* interpolate is the last.                                                *)
Answers(t) == [i \in Inputs |-> PullData(i, t)]

Ends(answer) == answer.code \cap {"RESOURCE_ERROR", "NO_INTERPOLATE"} # {}

IsRead(i, answers, port) ==
  i # port /\ \A j \in 0 .. i - 1 : j # port => ~Ends(answers[j])

(* Mutant: the trigger's data is not copied. *)
InputsNoCopy(t, port, answers) ==
  LET read == {i \in Inputs : IsRead(i, answers, port)}
  IN  [data |-> [i \in Inputs |-> IF i \in read THEN answers[i].time ELSE data[i]],
       code |-> UNION {answers[i].code : i \in read}]

GetInputs(t, port, answers) ==
  LET read == {i \in Inputs : IsRead(i, answers, port)}
  IN  [data |-> [i \in Inputs |-> IF i = port THEN t
                                  ELSE IF i \in read THEN answers[i].time
                                  ELSE data[i]],
       code |-> UNION {answers[i].code : i \in read}]
-----------------------------------------------------------------------------
(* write *)

Stored(s, x) ==
  IF config.max >= 0 /\ Len(s) + 1 > config.max
  THEN Tail(Append(s, x))
  ELSE Append(s, x)

Refuse ==
  /\ pc = "idle" /\ lastTime > 1
  /\ r' = TooOld
  /\ UNCHANGED <<slot, pulls, kept, config, pending, lastTime, data, pc, trig, written, pushed>>

(* Mutant: a trigger older than the last one is taken too. *)
AcceptAny(t, port) ==
  /\ pc = "idle" /\ written < MaxTriggers
  /\ written' = written + 1
  /\ trig' = [id |-> written + 1, time |-> t, port |-> port]
  /\ pending' = IF config.store THEN Stored(pending, trig') ELSE pending
  /\ lastTime' = t /\ r' = {} /\ pc' = "loop"
  /\ UNCHANGED <<slot, pulls, kept, config, data, pushed>>

Accept(t, port) ==
  /\ pc = "idle" /\ written < MaxTriggers /\ t >= lastTime
  /\ written' = written + 1
  /\ trig' = [id |-> written + 1, time |-> t, port |-> port]
  /\ pending' = IF config.store THEN Stored(pending, trig') ELSE pending
  /\ lastTime' = t /\ r' = {} /\ pc' = "loop"
  /\ UNCHANGED <<slot, pulls, kept, config, data, pushed>>

(* A trigger that is not stored is tried as if it came from port -1: index *)
(* is only set by PendingDataList.get.                                     *)
Current == IF config.store THEN Head(pending) ELSE [trig EXCEPT !.port = -1]

(* The parameter of write is gone when it returns. *)
Done == pc' = "idle" /\ trig' = NoTrigger
NextPass == UNCHANGED <<pc, trig>>

Dropped == IF config.store THEN Tail(pending) ELSE pending

NothingPending ==
  /\ pc = "loop" /\ config.store /\ pending = <<>>
  /\ Done
  /\ UNCHANGED <<slot, pulls, kept, config, pending, lastTime, data, r, written, pushed>>

Trying == pc = "loop" /\ (config.store => pending # <<>>)

(* Mutant: the code of a trigger that was too old stays in r. *)
SkipKeepingCode(got, code) ==
  /\ "TIMESTAMP_TOO_OLD" \in code
  /\ data' = got.data
  /\ pending' = Dropped
  /\ r' = code /\ (IF config.store THEN NextPass ELSE Done)
  /\ UNCHANGED <<slot, pulls, kept, config, lastTime, written, pushed>>

(* The inputs no longer reach back to this trigger: on to the next one. *)
Skip(got, code) ==
  /\ "TIMESTAMP_TOO_OLD" \in code
  /\ data' = got.data
  /\ pending' = Dropped
  /\ IF config.store THEN r' = {} /\ NextPass ELSE r' = code /\ Done
  /\ UNCHANGED <<slot, pulls, kept, config, lastTime, written, pushed>>

CannotInterpolate(got, code) ==
  /\ "TIMESTAMP_TOO_OLD" \notin code /\ "NO_INTERPOLATE" \in code
  /\ data' = got.data
  /\ pending' = Dropped
  /\ r' = code /\ Done
  /\ UNCHANGED <<slot, pulls, kept, config, lastTime, written, pushed>>

(* The trigger waits.  The flags in the code are masked with the logical   *)
(* negation of a constant, which is 0: the caller is told nothing.         *)
Wait(got, code) ==
  /\ code \cap {"TIMESTAMP_TOO_OLD", "NO_INTERPOLATE"} = {}
  /\ code \cap {"TIMESTAMP_ERROR", "RESOURCE_ERROR"} # {}
  /\ data' = got.data
  /\ r' = {} /\ Done
  /\ UNCHANGED <<slot, pulls, kept, config, pending, lastTime, written, pushed>>

(* The outputs get the data of the inputs and are pushed. *)
PushSet(got, code) ==
  /\ code = {}
  /\ data' = got.data
  /\ pushed' = [id |-> Current.id, time |-> Current.time, data |-> got.data]
  /\ pending' = Dropped
  /\ IF config.store THEN NextPass ELSE Done
  /\ UNCHANGED <<slot, pulls, kept, config, lastTime, r, written>>

Try ==
  \E answers \in {Answers(Current.time)} :
    \E got \in {GetInputs(Current.time, Current.port, answers)} :
      LET code == r \cup got.code
      IN  Skip(got, code) \/ CannotInterpolate(got, code) \/ Wait(got, code) \/ PushSet(got, code)

Pass == NothingPending \/ (Trying /\ Try)

SyncNext ==
  \/ \E i \in Inputs : SlotWrite(i) \/ SlotGone(i)
  \/ Refuse
  \/ \E t \in 1 .. MaxTime, port \in Triggers : Accept(t, port)
  \/ Pass

SyncSpec == SyncInit /\ [][SyncNext]_syncronizerVars
-----------------------------------------------------------------------------
(* "The outputs will be interpolated to those times": all data of a set    *)
(* that goes out have the time of its trigger, also when the data came     *)
(* long after the trigger and other triggers failed in between.            *)
OutputsInStep == \A i \in Inputs : pushed.data[i] = pushed.time

(* "It will eventually do a Push for each trigger written to any input in  *)
(* the order they were written": never twice and never out of order.       *)
PushedInOrder ==
  [][pushed' # pushed => pushed'.id > pushed.id /\ pushed'.time >= pushed.time]_pushed

(* The history of input i has nothing left at or before t. *)
OutOfReach(i, t) == i \in pulls \ kept /\ \A c \in Cell : slot[i].hist[c].time > t

(* The loop gives a trigger up for one reason only: an input it has to     *)
(* read cannot be had at its time any more, or never could be.             *)
GivenUpForReason ==
  [][pc = "loop" /\ pending' # pending =>
       \/ pushed'.id = Head(pending).id
       \/ \E i \in Inputs \ {Head(pending).port} :
            \/ OutOfReach(i, Head(pending).time)
            \/ i \in kept /\ Newest(i) # Head(pending).time]_syncronizerVars
=============================================================================
