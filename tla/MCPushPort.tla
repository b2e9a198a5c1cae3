----------------------------- MODULE MCPushPort -----------------------------
(* Addresses differ in nothing but their identity. *)
EXTENDS PushPort, TLC

Symmetry == Permutations(Addrs)
=============================================================================
