---------------------------- MODULE MCUdpReceiver ----------------------------
(* Values for the receiver on its own: any packets, in any order. *)
EXTENDS UdpReceiver

MCUuid == [f \in Posts |-> f]
MCUuidMissing == [f \in Posts |-> IF f = "b" THEN "zero" ELSE f]
MCHeaderLen == [f \in Posts |-> 2]
MCPayloadLen == [f \in Posts |-> IF f = "a" THEN 4 ELSE 1]
MCPayloadLong == [f \in Posts |-> IF f = "a" THEN 6 ELSE 1]
MCHeaderShort == [f \in Posts |-> 1]
MCPayloadChunks == [f \in Posts |-> IF f = "a" THEN 8 ELSE 1]
MCSum == [f \in Posts |-> "good"]
MCSumMissing == [f \in Posts |-> IF f = "b" THEN "missing" ELSE "good"]
=============================================================================
