--------------------------- MODULE MCSessionPair ---------------------------
(* Two nodes that know each other's address, and up to four connections      *)
(* alive at a time.                                                          *)
EXTENDS SessionPair, TLC

CONSTANTS k1, k2, k3, k4

MCConns == {k1, k2, k3, k4}

Current(n) == [of |-> n, id |-> "current"]
Outdated(n) == [of |-> n, id |-> "outdated"]

BothDial == {Current(0), Current(1)}
ThreeConns == {k1, k2, k3}

LowHasTwo == {Current(1), Current(0), Outdated(0)}

MCSymmetry == Permutations(MCConns)
=============================================================================
