--------------------------- MODULE MCThreadMerger ---------------------------
(* Two device threads and two ports.  Both outputs lie in the space of the *)
(* application, and the filter's own space is another one.                 *)
EXTENDS ThreadMerger

MCPorts == {1, 2}
MCOutSpace == [p \in MCPorts |-> "space1"]
MCOwnSpace == "space0"
=============================================================================
