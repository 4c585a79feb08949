----------------------------- MODULE MCFirewall -----------------------------
(* The rule store with three owners and as many short ids as owners, so that *)
(* nextShortID wraps to 0 for the last of them, and two rules per owner.     *)
EXTENDS Firewall

CONSTANTS n1, n2, n3

Owners == {n1, n2, n3}
MCNodeIDs == Owners \cup {NoNode}
MCRuleIDs == {0, 1}
MCAddresses == {1, 2}
MCPorts == {1, 2}

AnyoneBothPorts ==
    [Address |-> 1, TargetAddress |-> Nil, Protocol |-> "both",
     PortRangeStart |-> 1, PortRangeEnd |-> 2]
OneSenderOnePort ==
    [Address |-> 2, TargetAddress |-> 1, Protocol |-> "tcp",
     PortRangeStart |-> 2, PortRangeEnd |-> Nil]

MCPortRules == {AnyoneBothPorts, OneSenderOnePort}

\* The owners are interchangeable: nothing orders node ids here.
MCSymmetry == Permutations(Owners)
=============================================================================
