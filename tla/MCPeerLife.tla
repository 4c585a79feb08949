----------------------------- MODULE MCPeerLife -----------------------------
(***************************************************************************)
(* Two or three clients.                                                   *)
(***************************************************************************)
EXTENDS PeerLife

NoRow == <<>>
OneRow == <<1>>
=============================================================================
