------------------------------ MODULE MCUdpLink ------------------------------
(* Values for sender and receiver over links that lose packets. *)
EXTENDS UdpLink

MCUuid == [f \in Posts |-> f]
MCHeaderLen == [f \in Posts |-> 2]
MCPayloadLen == [f \in Posts |-> IF f = "a" THEN 2 ELSE 0]
MCPayloadFive == [f \in Posts |-> 5]
MCSum == [f \in Posts |-> "good"]
=============================================================================
