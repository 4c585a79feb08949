--------------------------- MODULE MCClientsSync ---------------------------
(***************************************************************************)
(* Instances of ClientsSync: two nodes with an address range each, and two *)
(* nodes that give out the same address.                                   *)
(***************************************************************************)
EXTENDS ClientsSync

TwoNodes == {"a", "b"}
TwoLinks == TwoNodes \X TwoNodes \ {<<n, n>> : n \in TwoNodes}
OwnRanges == [n \in TwoNodes |-> IF n = "a" THEN {1} ELSE {2}]
SharedRange == [n \in TwoNodes |-> {1}]
=============================================================================
