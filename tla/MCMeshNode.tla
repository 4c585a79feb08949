----------------------------- MODULE MCMeshNode -----------------------------
(***************************************************************************)
(* A node that gets two connections to the same peer.                      *)
(***************************************************************************)
EXTENDS MeshNode

PeerOf == [s \in Session |-> "p"]
=============================================================================
