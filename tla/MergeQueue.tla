----------------------------- MODULE MergeQueue -----------------------------
(***************************************************************************)
(* What a ThreadMerger promises (AddressBank/include/ThreadMerger.hh): "all *)
(* data will be pushed", whichever threads wrote them, in the order in     *)
(* which they were accepted and each once; and while an application holds  *)
(* the pause none is.  Threads, locks, signals and configuration are       *)
(* nothing the users of a merger see.                                      *)
(***************************************************************************)
EXTENDS Sequences

CONSTANT Data

VARIABLES
  accepted,   \* the data written so far
  line,       \* those of them that are still to be pushed
  delivered,  \* those that have been pushed
  held        \* does an application hold the pause?

vars == <<accepted, line, delivered, held>>

Init ==
  /\ accepted = <<>> /\ line = <<>> /\ delivered = <<>>
  /\ held = FALSE

Accept(d) ==
  /\ accepted' = accepted \o <<d>>
  /\ line' = line \o <<d>>
  /\ UNCHANGED <<delivered, held>>

Deliver ==
  /\ ~held /\ line # <<>>
  /\ delivered' = delivered \o <<Head(line)>>
  /\ line' = Tail(line)
  /\ UNCHANGED <<accepted, held>>

Hold ==
  /\ held' = ~held
  /\ UNCHANGED <<accepted, line, delivered>>

Next == Deliver \/ Hold \/ \E d \in Data : Accept(d)

Spec == Init /\ [][Next]_vars
=============================================================================
