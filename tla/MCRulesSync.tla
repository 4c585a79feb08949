---------------------------- MODULE MCRulesSync ----------------------------
(***************************************************************************)
(* Instances of RulesSync: two nodes with streams both ways, and an owner  *)
(* with two peers that also stream to each other.                          *)
(***************************************************************************)
EXTENDS RulesSync

TwoNodes == {"a", "b"}
TwoLinks == TwoNodes \X TwoNodes \ {<<n, n>> : n \in TwoNodes}
TwoRules == {<<"a", 1>>, <<"a", 2>>}

ThreeNodes == {"a", "b", "c"}
OwnerAndPeers == {<<"a", "b">>, <<"a", "c">>, <<"b", "c">>, <<"c", "b">>}
OneRule == {<<"a", 1>>}
=============================================================================
