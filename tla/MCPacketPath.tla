---------------------------- MODULE MCPacketPath ----------------------------
(***************************************************************************)
(* Flows to every kind of route, read by every loop, on two workers.       *)
(***************************************************************************)
EXTENDS PacketPath

AllFlows == {"web", "dns", "call"}
AllFrom == [f \in AllFlows |-> CASE f = "web" -> "tun" [] f = "dns" -> "transport"
                                   [] f = "call" -> "mesh"]
AllTo == [f \in AllFlows |-> CASE f = "web" -> {"shaped"} [] f = "dns" -> {"tun"}
                                 [] f = "call" -> {"local", "metered", "remote"}]
AllWorker == [f \in AllFlows |-> IF f \in {"web", "dns"} THEN 1 ELSE 2]
AllPerFlow == [f \in AllFlows |-> IF f = "call" THEN 1 ELSE 2]
=============================================================================
