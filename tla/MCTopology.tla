----------------------------- MODULE MCTopology -----------------------------
(* A node, two peers and the addresses they take turns at. *)
EXTENDS Topology, TLC

CONSTANTS me, p1, p2, a1, a2

MCIDs == {me, p1, p2}
MCAddrs == {a1, a2}
OneAddr == {a1}
MCSymmetry == Permutations({p1, p2}) \cup Permutations(MCAddrs)

\* The part of the state space without restarts, removals and our own record.
Undisturbed == disk = EmptyStore /\ leaving = {} /\ home[me] = NoAddr
=============================================================================
