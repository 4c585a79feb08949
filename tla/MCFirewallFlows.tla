-------------------------- MODULE MCFirewallFlows --------------------------
(* Two flows between two addresses, told apart by their ports only and       *)
(* handled by different workers, one rule for each, two removers.            *)
EXTENDS FirewallFlows

CONSTANTS w1, w2, c1, c2

MCNodeIDs == {"node"}
MCRuleIDs == {0, 1}
MCAddresses == {1, 2}
MCPorts == {1, 2}

There(port) ==
    [SrcIP |-> 1, DstIP |-> 2, SrcPort |-> 3 - port, DstPort |-> port,
     Protocol |-> "tcp"]

MCPackets == {There(1), Reply(There(1))}
RepliesFromMesh == {Reply(There(2))}
NoPackets == {}

RuleFor(port) ==
    [Address |-> 2, TargetAddress |-> Nil, Protocol |-> "tcp",
     PortRangeStart |-> port, PortRangeEnd |-> Nil]

MCPortRules == {RuleFor(1), RuleFor(2)}

MCWorkers == {w1, w2}
MCHash(hi) == IF hi \in {There(1), Reply(There(2))} THEN w1 ELSE w2
MCControllers == {c1, c2}
OneController == {c1}

MCSymmetry == Permutations(MCControllers)
=============================================================================
