--------------------------- MODULE FirewallTable ---------------------------
(***************************************************************************)
(* What the FirewallEngine interface (pkg/firewall/firewall.go) promises   *)
(* its callers about rules: a table from rule indices (owner node, rule    *)
(* number) to rules, written by AddRule and RemoveRule, and a decision     *)
(* that looks at nothing but the rules in the table.                       *)
(***************************************************************************)
EXTENDS FirewallRules

VARIABLE rules    \* [PortRuleIndex -> PortRules \cup {NoRule}]

TableInit == rules = [i \in PortRuleIndex |-> NoRule]

Put(index, rule) ==
    /\ rules[index] = NoRule
    /\ rules' = [rules EXCEPT ![index] = rule]

Drop(index) ==
    /\ rules[index] # NoRule
    /\ rules' = [rules EXCEPT ![index] = NoRule]

TableNext ==
    \E index \in PortRuleIndex :
        \/ \E rule \in PortRules : Put(index, rule)
        \/ Drop(index)

TableSpec == TableInit /\ [][TableNext]_rules

\* The decision: some rule in the table allows the packet.
Allowed(holeInfo) ==
    \E index \in PortRuleIndex : rules[index] # NoRule /\ Allows(rules[index], holeInfo)
=============================================================================
