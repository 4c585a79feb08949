------------------------- MODULE MCFirewallManager -------------------------
(***************************************************************************)
(* Two rules: "web" gives every field, "any" leaves the target open.       *)
(***************************************************************************)
EXTENDS FirewallManager

TwoRules == {"web", "any"}
OpenTarget == {"any"}
=============================================================================
