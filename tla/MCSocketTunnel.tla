---------------------------- MODULE MCSocketTunnel ----------------------------
(* Values for a tunnel of one client. *)
EXTENDS SocketTunnel

MCMaxPackets == [e \in Ends |-> IF e = "SRC" THEN 4 ELSE 1]
=============================================================================
