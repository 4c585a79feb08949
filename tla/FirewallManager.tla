--------------------------- MODULE FirewallManager ---------------------------
(***************************************************************************)
(* The port rules of a node's own clients: their rows in table peers_rules *)
(* and their entries in the firewall, as firewallmanager and               *)
(* peersmanager.DeletePeer change them for calls of the admin API.         *)
(*                                                                         *)
(* A call is several statements with no transaction and no lock around     *)
(* them, so each statement and each change of the firewall is a step.  The *)
(* context of the call ends when the client of the API goes away, and the  *)
(* next statement then fails (Cancelled).  The database does not enforce   *)
(* foreign keys: nothing turns them on for the connection.                 *)
(***************************************************************************)
EXTENDS Integers, Sequences, FiniteSets, FiniteSetsExt

CONSTANTS
    Rule,         \* what a rule says: target, protocol, ports
    Partial,      \* those with a NULL target or a NULL end of the port range
    Callers,      \* goroutines of admin calls
    MaxPeers,     \* bound on the peers ever created
    MaxRules,     \* bound on the rows ever inserted
    MaxRestarts   \* bound on restarts of the process

PeerID == 1 .. MaxPeers
RuleID == 1 .. MaxRules

ASSUME ManagerAssumption ==
    /\ Partial \subseteq Rule
    /\ MaxPeers \in Nat \ {0} /\ MaxRules \in Nat \ {0} /\ MaxRestarts \in Nat

VARIABLES
    peers,       \* [ids -> address], table peers
    nextPeer,    \* the next peer id (AUTOINCREMENT)
    rules,       \* [ids -> [peer, rule]], table peers_rules
    nextRule,    \* the next rule id (AUTOINCREMENT)
    firewall,    \* [ids -> [Address, rule, peer]], this node's rules in the firewall;
                 \* peer, whom a rule was made for, is kept for the properties alone
    call,        \* [Callers -> the call under way, None if there is none]
    settled,     \* ids whose AddRule has returned without an error
    removed,     \* settled ids whose removal has returned without an error
    restarts

dbVars == <<peers, nextPeer, rules, nextRule>>
vars == <<dbVars, firewall, call, settled, removed, restarts>>

None == [at |-> "None"]
idle(c) == call[c] = None
Drop(f, S) == [x \in DOMAIN f \ S |-> f[x]]
Put(f, x, v) == [y \in DOMAIN f \cup {x} |-> IF y = x THEN v ELSE f[y]]
rulesOf(p) == {i \in DOMAIN rules : rules[i].peer = p}

Continue(c, next) == call' = [call EXCEPT ![c] = next]
Return(c) == Continue(c, None)

ManagerInit ==
    /\ peers = <<1>> /\ nextPeer = 2
    /\ rules = <<>> /\ nextRule = 1
    /\ firewall = <<>>
    /\ call = [c \in Callers |-> None]
    /\ settled = {} /\ removed = {}
    /\ restarts = 0

\* The statement a call is about to run fails; so does the call.
Cancelled(c) ==
    /\ call[c].at \in {"AddRule.GetPeerByID", "RemoveAll.Delete", "DeletePeer.Delete"}
    /\ Return(c)
    /\ UNCHANGED <<dbVars, firewall, settled, removed, restarts>>

-----------------------------------------------------------------------------
(* AddRule.                                                                *)

\* The unique index: two NULLs are never equal to SQLite.
duplicate(p, r) == r \notin Partial /\ \E i \in rulesOf(p) : rules[i].rule = r

\* The caller may name a peer that does not exist.
InsertPeerRule(c, p, r) ==
    /\ idle(c)
    /\ nextRule \in RuleID
    /\ ~duplicate(p, r)
    /\ rules' = Put(rules, nextRule, [peer |-> p, rule |-> r])
    /\ nextRule' = nextRule + 1
    /\ Continue(c, [at |-> "AddRule.GetPeerByID", id |-> nextRule, peer |-> p, rule |-> r])
    /\ UNCHANGED <<peers, nextPeer, firewall, settled, removed, restarts>>

\* A peer that is not found ends the call; the row stays.
GetPeerByID(c) ==
    /\ call[c].at = "AddRule.GetPeerByID"
    /\ LET w == call[c] IN
          IF w.peer \in DOMAIN peers
          THEN Continue(c, [at |-> "AddRule.Firewall", id |-> w.id,
                            entry |-> [Address |-> peers[w.peer], rule |-> w.rule,
                                      peer |-> w.peer]])
          ELSE Return(c)
    /\ UNCHANGED <<dbVars, firewall, settled, removed, restarts>>

FirewallAddRule(c) ==
    /\ call[c].at = "AddRule.Firewall"
    /\ LET w == call[c] IN
          /\ firewall' = IF w.id \in DOMAIN firewall THEN firewall
                         ELSE Put(firewall, w.id, w.entry)
          /\ settled' = settled \cup {w.id}
    /\ Return(c)
    /\ UNCHANGED <<dbVars, removed, restarts>>

-----------------------------------------------------------------------------
(* RemoveRule, RemoveAllPeerRules and DeletePeer.  "asked" are the rules   *)
(* that were settled when the call began.                                  *)

DeletePeerRule(c, i) ==
    /\ idle(c)
    /\ rules' = Drop(rules, {i})
    /\ Continue(c, [at |-> "RemoveRule.Firewall", id |-> i, asked |-> {i} \cap settled])
    /\ UNCHANGED <<peers, nextPeer, nextRule, firewall, settled, removed, restarts>>

\* Mutant: only the row is deleted.
FirewallRemoveRuleForgets(c) ==
    /\ call[c].at = "RemoveRule.Firewall"
    /\ removed' = removed \cup call[c].asked
    /\ Return(c)
    /\ UNCHANGED <<dbVars, firewall, settled, restarts>>

FirewallRemoveRule(c) ==
    /\ call[c].at = "RemoveRule.Firewall"
    /\ firewall' = Drop(firewall, {call[c].id})
    /\ removed' = removed \cup call[c].asked
    /\ Return(c)
    /\ UNCHANGED <<dbVars, settled, restarts>>

\* then: whether DeletePeer goes on to delete the peer itself.
LoadRulesByPeerID(c, p, then) ==
    /\ idle(c)
    /\ Continue(c, [at |-> "RemoveAll.Firewall", peer |-> p, then |-> then,
                    ids |-> rulesOf(p), asked |-> rulesOf(p) \cap settled])
    /\ UNCHANGED <<dbVars, firewall, settled, removed, restarts>>

\* One turn of the loop over the rows that were loaded, which are in the order of
\* their ids.
RemoveAllFirewall(c) ==
    /\ call[c].at = "RemoveAll.Firewall"
    /\ \E i \in call[c].ids :
          /\ \A j \in call[c].ids : i <= j
          /\ firewall' = Drop(firewall, {i})
          /\ Continue(c, [call[c] EXCEPT !.ids = @ \ {i}])
    /\ UNCHANGED <<dbVars, settled, removed, restarts>>

\* The loop is over.
RemoveAllLooped(c) ==
    /\ call[c].at = "RemoveAll.Firewall" /\ call[c].ids = {}
    /\ Continue(c, [call[c] EXCEPT !.at = "RemoveAll.Delete"])
    /\ UNCHANGED <<dbVars, firewall, settled, removed, restarts>>

\* DeletePeer goes on to GetPeerByID, which fails for a peer that is gone.
DeleteAllPeerRules(c) ==
    /\ call[c].at = "RemoveAll.Delete"
    /\ rules' = Drop(rules, rulesOf(call[c].peer))
    /\ removed' = removed \cup call[c].asked
    /\ Continue(c, IF call[c].then /\ call[c].peer \in DOMAIN peers
                   THEN [call[c] EXCEPT !.at = "DeletePeer.Delete"] ELSE None)
    /\ UNCHANGED <<peers, nextPeer, nextRule, firewall, settled, restarts>>

\* The peer is gone from the database; KickPeer concerns the transport alone.
DeletePeer(c) ==
    /\ call[c].at = "DeletePeer.Delete"
    /\ peers' = Drop(peers, {call[c].peer})
    /\ Return(c)
    /\ UNCHANGED <<nextPeer, rules, nextRule, firewall, settled, removed, restarts>>

-----------------------------------------------------------------------------
(* The rest of the node.                                                   *)

\* peersmanager.CreatePeerAutoID: the address after the highest one in use.
CreatePeerAutoID ==
    /\ nextPeer \in PeerID
    /\ peers' = Put(peers, nextPeer,
                    IF DOMAIN peers = {} THEN 1
                    ELSE Max({peers[p] : p \in DOMAIN peers}) + 1)
    /\ nextPeer' = nextPeer + 1
    /\ UNCHANGED <<rules, nextRule, firewall, call, settled, removed, restarts>>

\* Mutant: Run leaves the rules of the last peer out.
LoadAllRulesShort ==
    LET known == {i \in DOMAIN rules : rules[i].peer \in DOMAIN peers}
    IN [i \in known \ {Max(known \cup {0})} |->
           [Address |-> peers[rules[i].peer], rule |-> rules[i].rule, peer |-> rules[i].peer]]

\* peers_rules JOIN peers: a row without a peer is left out.
LoadAllRules ==
    [i \in {j \in DOMAIN rules : rules[j].peer \in DOMAIN peers} |->
        [Address |-> peers[rules[i].peer], rule |-> rules[i].rule, peer |-> rules[i].peer]]

\* The process ends at any point; Run fills an empty firewall before the admin API
\* takes a call.
Restart ==
    /\ restarts < MaxRestarts
    /\ restarts' = restarts + 1
    /\ firewall' = LoadAllRules
    /\ call' = [c \in Callers |-> None]
    /\ UNCHANGED <<dbVars, settled, removed>>

AddRule(c) ==
    \/ \E p \in PeerID, r \in Rule : InsertPeerRule(c, p, r)
    \/ GetPeerByID(c)
    \/ FirewallAddRule(c)

RemoveRule(c) ==
    \/ \E i \in RuleID : DeletePeerRule(c, i)
    \/ FirewallRemoveRule(c)

RemoveAllPeerRules(c) ==
    \/ \E p \in PeerID, then \in BOOLEAN : LoadRulesByPeerID(c, p, then)
    \/ RemoveAllFirewall(c)
    \/ RemoveAllLooped(c)
    \/ DeleteAllPeerRules(c)

ManagerNext ==
    \/ \E c \in Callers :
          AddRule(c) \/ RemoveRule(c) \/ RemoveAllPeerRules(c) \/ DeletePeer(c) \/ Cancelled(c)
    \/ CreatePeerAutoID
    \/ Restart

ManagerSpec == ManagerInit /\ [][ManagerNext]_vars

-----------------------------------------------------------------------------
(* Properties                                                              *)

ManagerTypeOK ==
    /\ DOMAIN peers \subseteq PeerID /\ IsInjective(peers)
    /\ DOMAIN rules \subseteq RuleID /\ nextRule \in 1 .. MaxRules + 1
    /\ \A i \in DOMAIN rules : rules[i] \in [peer : PeerID, rule : Rule]
    /\ DOMAIN firewall \subseteq 1 .. nextRule - 1
    /\ \A i \in DOMAIN firewall : firewall[i].rule \in Rule
    /\ removed \subseteq settled

\* A rule that RemoveRule or RemoveAllPeerRules has removed never lets traffic
\* through again, whatever calls overlap and however often the process restarts:
\* neither the firewall nor the rows that Run loads have it.
RemovedStaysRemoved ==
    removed \cap (DOMAIN firewall \cup DOMAIN rules) = {}

\* The rows of a peer that a call is deleting.
beingRemoved(i) ==
    \E c \in Callers :
        \/ call[c].at = "RemoveRule.Firewall" /\ call[c].id = i
        \/ call[c].at \in {"RemoveAll.Firewall", "RemoveAll.Delete"}
           /\ i \in DOMAIN rules /\ rules[i].peer = call[c].peer

\* A rule in force stays in force, also over a restart, as long as it has a row, its
\* peer exists and no call is removing it.
RuleStaysInForce ==
    [][\A i \in DOMAIN firewall \cap DOMAIN rules' :
          rules'[i].peer \in DOMAIN peers' /\ ~beingRemoved(i) /\ ~beingRemoved(i)'
             => i \in DOMAIN firewall']_vars

\* With one admin call at a time a rule in force has its row, of a peer that exists
\* and has the rule's address; only a removal under way may be ahead of the firewall.
RuleOfItsPeer ==
    \A i \in DOMAIN firewall :
        LET p == firewall[i].peer IN
        \/ beingRemoved(i)
        \/ /\ i \in rulesOf(p)
           /\ p \in DOMAIN peers /\ firewall[i].Address = peers[p]

\* "Таблица правил (привязаны к конкретному пиру)": a rule in force for the address
\* of a peer was made for that peer, never for one that had the address before.
NoInheritedRule ==
    (\A c \in Callers : idle(c)) =>
        \A i \in DOMAIN firewall, p \in DOMAIN peers :
            firewall[i].Address = peers[p] => firewall[i].peer = p
=============================================================================
