--------------------------- MODULE MCThreadSpaces ---------------------------
(* Two switchers write to a space, one to permanent addresses only and one *)
(* to mixed ones, a third writes from there to the space of the first, and *)
(* a thread works in that space.  Any two addresses are deleted.           *)
EXTENDS ThreadSpaces, TLC

CONSTANTS device, mixed, local, back, deleter1, deleter2, in1, in2, out, perm, perm1, plain

MCHome == device :> in1 @@ mixed :> in2 @@ local :> out @@ back :> out
MCOut == device :> out @@ mixed :> out @@ local :> out @@ back :> in1
MCWhere == perm :> out @@ plain :> out @@ perm1 :> in1
MCClients ==
  device :> {perm} @@ mixed :> {perm, plain} @@ local :> {plain} @@ back :> {perm1}
=============================================================================
