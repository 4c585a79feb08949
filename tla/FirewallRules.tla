--------------------------- MODULE FirewallRules ---------------------------
(***************************************************************************)
(* The data of pkg/firewall: rules, the flow information of packets, and   *)
(* the pure functions over them (rule matching, the canonical flow key).   *)
(*                                                                         *)
(* IP addresses and ports are natural numbers because makeFlowKey orders   *)
(* them.  A nil pointer in a rule (TargetAddress, PortRangeEnd) is Nil.    *)
(***************************************************************************)
EXTENDS Naturals

CONSTANTS
    NodeIDs,    \* identifiers of the nodes that own rules; "" is nobody's
    RuleIDs,    \* rule numbers, SQLite AUTOINCREMENT ids of the owner
    Addresses,  \* virtual IPs (uint32)
    Ports,      \* ports (uint16)
    PortRules,  \* the rules that may be added, a subset of AnyPortRule
    Nil,        \* a nil pointer
    NoRule      \* "no rule under this key"

\* The empty string, in place of a node's id.
NoNode == ""

\* type PortRule struct
AnyPortRule ==
    [Address        : Addresses,
     TargetAddress  : Addresses \cup {Nil},
     Protocol       : {"tcp", "udp", "both"},
     PortRangeStart : Ports,
     PortRangeEnd   : Ports \cup {Nil}]

\* type PortRuleIndex struct
PortRuleIndex == [NodeID : NodeIDs, RuleID : RuleIDs]

\* type HoleInfo struct, as NewMessageCopyFrom fills it: no other protocol
\* gets through, and an ICMP packet has both ports 0.
HoleInfo ==
    [SrcIP : Addresses, DstIP : Addresses, SrcPort : Ports, DstPort : Ports,
     Protocol : {"tcp", "udp"}]
    \cup
    [SrcIP : Addresses, DstIP : Addresses, SrcPort : {0}, DstPort : {0},
     Protocol : {"icmp"}]

ASSUME RulesAssumption ==
    /\ Addresses \subseteq Nat
    /\ Ports \subseteq Nat
    /\ PortRules \subseteq AnyPortRule
    /\ NoRule \notin AnyPortRule

-----------------------------------------------------------------------------
\* The test of the receiver's port in rulesAllow.
PortMatches(rule, dstPort) ==
    IF rule.PortRangeEnd = Nil
    THEN rule.PortRangeStart = dstPort
    ELSE rule.PortRangeStart <= dstPort /\ dstPort <= rule.PortRangeEnd

\* The body of the two loops of rulesAllow for one rule: it names this sender
\* or nobody; ICMP asks no more, TCP and UDP ask for the protocol and the port.
Matches(rule, holeInfo) ==
    /\ rule.TargetAddress = Nil \/ rule.TargetAddress = holeInfo.SrcIP
    /\ \/ holeInfo.Protocol = "icmp"
       \/ /\ rule.Protocol = "both" \/ rule.Protocol = holeInfo.Protocol
          /\ PortMatches(rule, holeInfo.DstPort)

\* A rule decides about the packets sent to its own address only.
Allows(rule, holeInfo) ==
    rule.Address = holeInfo.DstIP /\ Matches(rule, holeInfo)

-----------------------------------------------------------------------------
\* The other direction of a flow.
Reply(hi) ==
    [SrcIP |-> hi.DstIP, DstIP |-> hi.SrcIP, SrcPort |-> hi.DstPort,
     DstPort |-> hi.SrcPort, Protocol |-> hi.Protocol]

\* Two packets belong to one flow: the same direction of it, or opposite ones.
SameFlow(a, b) == a = b \/ a = Reply(b)

\* Mutant: addresses and ports are ordered independently.
makeFlowKeyMixed(holeInfo) ==
    LET low(a, b) == IF a < b THEN a ELSE b
        high(a, b) == IF a < b THEN b ELSE a
    IN  <<low(holeInfo.SrcIP, holeInfo.DstIP), high(holeInfo.SrcIP, holeInfo.DstIP),
          low(holeInfo.SrcPort, holeInfo.DstPort),
          high(holeInfo.SrcPort, holeInfo.DstPort), holeInfo.Protocol>>

\* makeFlowKey: the fields in canonical order, so that both directions of a
\* flow have one key.  Sprintf of the ordered fields is the tuple of them.
makeFlowKey(holeInfo) ==
    LET srcIP == holeInfo.SrcIP     srcPort == holeInfo.SrcPort
        dstIP == holeInfo.DstIP     dstPort == holeInfo.DstPort
    IN  IF holeInfo.Protocol = "icmp"
        THEN IF srcIP < dstIP THEN <<srcIP, dstIP, "icmp">>
                              ELSE <<dstIP, srcIP, "icmp">>
        ELSE IF srcIP < dstIP \/ (srcIP = dstIP /\ srcPort < dstPort)
             THEN <<srcIP, dstIP, srcPort, dstPort, holeInfo.Protocol>>
             ELSE <<dstIP, srcIP, dstPort, srcPort, holeInfo.Protocol>>
=============================================================================
