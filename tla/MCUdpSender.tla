----------------------------- MODULE MCUdpSender -----------------------------
(* Values for the sender on its own: nothing takes packets off the wire. *)
EXTENDS UdpSender

MCUuid == [f \in Posts |-> f]
MCHeaderLen == [f \in Posts |-> 2]
MCPayloadLen == [f \in Posts |-> IF f = "a" THEN 1 ELSE IF f = "b" THEN 2 ELSE 0]
MCSum == [f \in Posts |-> IF f = "a" THEN "good" ELSE "missing"]
=============================================================================
