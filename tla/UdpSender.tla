------------------------------ MODULE UdpSender ------------------------------
(***************************************************************************)
(* ff-http-to-udp: every FlowFile posted over HTTP takes one of the UDP    *)
(* workers (a source port paired with a destination port), is buffered and *)
(* verified whole, and is then sent twice, packet by packet, for as long   *)
(* as its client stays connected.  Clients may post a FlowFile again, and  *)
(* may go away before all of it was uploaded.                              *)
(***************************************************************************)
EXTENDS UdpWire, Sequences, FiniteSets

CONSTANTS
  MaxSends,     \* FlowFiles sent at a time (the sized wait group swg)
  MaxAttempts,  \* bound on how often a client posts a FlowFile
  Leavers,      \* the FlowFiles whose clients may go away during the upload
  NetCap,       \* bound on the packets under way to a port
  NoPort        \* no worker

ASSUME SenderAssumption ==
  /\ IsFiniteSet(Ports) /\ NoPort \notin Ports
  /\ MaxSends \in Nat \ {0}
  /\ MaxAttempts \in Nat \ {0}
  /\ NetCap \in Nat \ {0}
  /\ Leavers \subseteq Posts

VARIABLES
  pc,        \* pc[f]: where post is with f
  isOpen,    \* isOpen[f]: the client of f was not seen to hang up
  worker,    \* worker[f]: the port that f holds, or NoPort
  off,       \* off[f]: offset of the next packet of the current pass
  attempts,  \* attempts[f]: how often f was posted
  reply,     \* reply[f]: what post returned to the HTTP handler
  workers,   \* the channel of idle workers
  sends,     \* the FlowFiles counted by swg
  net        \* net[p]: the packets under way to port p

svars == <<pc, isOpen, worker, off, attempts, reply, workers, sends, net>>

-----------------------------------------------------------------------------
SenderTypeOK ==
  /\ pc \in [Posts -> {"idle", "queued", "buffer", "stuck", "thread",
                    "send1", "send2"}]
  /\ isOpen \in [Posts -> BOOLEAN]
  /\ worker \in [Posts -> Ports \cup {NoPort}]
  /\ off \in [Posts -> Nat]
  /\ attempts \in [Posts -> 0 .. MaxAttempts]
  /\ reply \in [Posts -> {"none", "ok", "error"}]
  /\ workers \in Seq(Ports)
  /\ sends \subseteq Posts /\ Cardinality(sends) <= MaxSends
  /\ net \in [Ports -> Seq(Packets)]

(* setupUDP puts the workers on the channel in the order in which          *)
(* hypenRange ranges over a map: any order.                                *)
SenderInit ==
  /\ pc = [f \in Posts |-> "idle"]
  /\ isOpen = [f \in Posts |-> TRUE]
  /\ worker = [f \in Posts |-> NoPort]
  /\ off = [f \in Posts |-> 0]
  /\ attempts = [f \in Posts |-> 0]
  /\ reply = [f \in Posts |-> "none"]
  /\ workers \in {s \in [1 .. Cardinality(Ports) -> Ports] :
                    \A p \in Ports : \E i \in DOMAIN s : s[i] = p}
  /\ sends = {}
  /\ net = [p \in Ports |-> << >>]

-----------------------------------------------------------------------------
Verified(f) == PayloadLen[f] = 0 \/ Sum[f] = "good" \/ SumAdded(f)

Transmit(p, pkt) ==
  /\ Len(net[p]) < NetCap
  /\ net' = [net EXCEPT ![p] = Append(@, pkt)]

(* Mutant: the worker is not put back. *)
Return_Leaks(f, answer) ==
  /\ pc' = [pc EXCEPT ![f] = "idle"]
  /\ reply' = [reply EXCEPT ![f] = answer]
  /\ worker' = [worker EXCEPT ![f] = NoPort]
  /\ sends' = sends \ {f}
  /\ UNCHANGED <<isOpen, attempts, workers>>

(* Mutant: the send slot is not given back. *)
Return_HoldsSlot(f, answer) ==
  /\ pc' = [pc EXCEPT ![f] = "idle"]
  /\ reply' = [reply EXCEPT ![f] = answer]
  /\ worker' = [worker EXCEPT ![f] = NoPort]
  /\ workers' = Append(workers, worker[f])
  /\ UNCHANGED <<isOpen, attempts, sends>>

(* The deferred end of post: the worker goes back to the channel. *)
Return(f, answer) ==
  /\ pc' = [pc EXCEPT ![f] = "idle"]
  /\ reply' = [reply EXCEPT ![f] = answer]
  /\ worker' = [worker EXCEPT ![f] = NoPort]
  /\ workers' = Append(workers, worker[f])
  /\ sends' = sends \ {f}
  /\ UNCHANGED <<isOpen, attempts>>

(* A client posts f, for the first time or again. *)
Request(f) ==
  /\ pc[f] = "idle"
  /\ attempts[f] < MaxAttempts
  /\ attempts' = [attempts EXCEPT ![f] = @ + 1]
  /\ pc' = [pc EXCEPT ![f] = "queued"]
  /\ isOpen' = [isOpen EXCEPT ![f] = TRUE]
  /\ reply' = [reply EXCEPT ![f] = "none"]
  /\ UNCHANGED <<worker, off, workers, sends, net>>

(* The goroutine that watches the connection finds it closed. *)
HangUp(f) ==
  /\ IF f \in Leavers THEN pc[f] # "idle"
     ELSE pc[f] \in {"thread", "send1", "send2"}
  /\ isOpen[f]
  /\ isOpen' = [isOpen EXCEPT ![f] = FALSE]
  /\ UNCHANGED <<pc, worker, off, attempts, reply, workers, sends, net>>

(* Mutant: the worker stays on the channel while it is used. *)
TakeWorker_Shared(f) ==
  /\ pc[f] = "queued"
  /\ workers # << >>
  /\ Transmit(Head(workers), WakeUp(f))
  /\ worker' = [worker EXCEPT ![f] = Head(workers)]
  /\ pc' = [pc EXCEPT ![f] = "buffer"]
  /\ UNCHANGED <<isOpen, off, attempts, reply, sends, workers>>

(* post takes a worker and sends a bare header ahead of the file. *)
TakeWorker(f) ==
  /\ pc[f] = "queued"
  /\ workers # << >>
  /\ Transmit(Head(workers), WakeUp(f))
  /\ worker' = [worker EXCEPT ![f] = Head(workers)]
  /\ workers' = Tail(workers)
  /\ pc' = [pc EXCEPT ![f] = "buffer"]
  /\ UNCHANGED <<isOpen, off, attempts, reply, sends>>

(* Mutant: the result of Verify is ignored. *)
Buffer_Unverified(f) ==
  /\ pc[f] = "buffer"
  /\ pc' = [pc EXCEPT ![f] = "thread"]
  /\ UNCHANGED <<isOpen, worker, off, attempts, reply, workers, sends, net>>

(* The payload is read to its end and its checksum holds. *)
Buffer(f) ==
  /\ pc[f] = "buffer"
  /\ Verified(f)
  /\ pc' = [pc EXCEPT ![f] = "thread"]
  /\ UNCHANGED <<isOpen, worker, off, attempts, reply, workers, sends, net>>

(* The checksum is missing or wrong. *)
Refuse(f) ==
  /\ pc[f] = "buffer"
  /\ ~Verified(f)
  /\ Return(f, "error")
  /\ UNCHANGED <<off, net>>

(* The payload breaks off.  File.Read replaces the error of the connection *)
(* by the one of the running checksum, nil, so that io.Copy reads again    *)
(* and again; without a checksum it ends with the error.                   *)
BreakOff(f) ==
  /\ pc[f] = "buffer"
  /\ f \in Leavers /\ PayloadLen[f] > 0
  /\ IF SumPresent(f)
     THEN /\ pc' = [pc EXCEPT ![f] = "stuck"]
          /\ UNCHANGED <<isOpen, worker, attempts, reply, workers, sends>>
     ELSE Return(f, "error")
  /\ UNCHANGED <<off, net>>

(* Mutant: no limit on the files sent at a time. *)
StartSending_NoLimit(f) ==
  /\ pc[f] = "thread"
  /\ sends' = sends \cup {f}
  /\ pc' = [pc EXCEPT ![f] = "send1"]
  /\ off' = [off EXCEPT ![f] = 0]
  /\ UNCHANGED <<isOpen, worker, attempts, reply, workers, net>>

(* post waits for a send slot, its worker in hand. *)
StartSending(f) ==
  /\ pc[f] = "thread"
  /\ Cardinality(sends) < MaxSends
  /\ sends' = sends \cup {f}
  /\ pc' = [pc EXCEPT ![f] = "send1"]
  /\ off' = [off EXCEPT ![f] = 0]
  /\ UNCHANGED <<isOpen, worker, attempts, reply, workers, net>>

Sending(f) == pc[f] \in {"send1", "send2"}

(* The packet at off meets the end of the encoding. *)
EndsPass(f) == off[f] + Mtu > EncodedLen(f)

SendChunk(f) ==
  /\ Sending(f) /\ isOpen[f]
  /\ ~EndsPass(f)
  /\ Transmit(worker[f], Chunk(f, off[f]))
  /\ off' = [off EXCEPT ![f] = @ + Mtu]
  /\ UNCHANGED <<pc, isOpen, worker, attempts, reply, workers, sends>>

(* Mutant: the second pass does not start over. *)
EndFirstPass_KeepsOffset(f) ==
  /\ pc[f] = "send1" /\ isOpen[f]
  /\ EndsPass(f)
  /\ Transmit(worker[f], Chunk(f, off[f]))
  /\ pc' = [pc EXCEPT ![f] = "send2"]
  /\ UNCHANGED <<isOpen, worker, off, attempts, reply, workers, sends>>

(* The last packet of the first pass; the second starts over. *)
EndFirstPass(f) ==
  /\ pc[f] = "send1" /\ isOpen[f]
  /\ EndsPass(f)
  /\ Transmit(worker[f], Chunk(f, off[f]))
  /\ pc' = [pc EXCEPT ![f] = "send2"]
  /\ off' = [off EXCEPT ![f] = 0]
  /\ UNCHANGED <<isOpen, worker, attempts, reply, workers, sends>>

EndSecondPass(f) ==
  /\ pc[f] = "send2" /\ isOpen[f]
  /\ EndsPass(f)
  /\ Transmit(worker[f], Chunk(f, off[f]))
  /\ off' = [off EXCEPT ![f] = 0]
  /\ Return(f, "ok")

(* The client hung up: sending stops, and no error is returned. *)
Abandon(f) ==
  /\ Sending(f) /\ ~isOpen[f]
  /\ off' = [off EXCEPT ![f] = 0]
  /\ Return(f, "ok")
  /\ UNCHANGED net

(* The operating system refuses a packet. *)
WriteFails(f) ==
  /\ Sending(f) /\ isOpen[f]
  /\ off' = [off EXCEPT ![f] = 0]
  /\ Return(f, "error")
  /\ UNCHANGED net

Post(f) ==
  \/ TakeWorker(f) \/ Buffer(f) \/ Refuse(f) \/ BreakOff(f)
  \/ StartSending(f)
  \/ SendChunk(f) \/ EndFirstPass(f) \/ EndSecondPass(f)
  \/ Abandon(f) \/ WriteFails(f)

SenderNext == \E f \in Posts : Request(f) \/ HangUp(f) \/ Post(f)

(* Every call of post keeps running: a goroutine that can step does.       *)
SenderSpec ==
  /\ SenderInit /\ [][SenderNext]_svars
  /\ \A f \in Posts : WF_svars(Post(f))

-----------------------------------------------------------------------------
(* No worker is lost or doubled whatever way a post ends: every port is    *)
(* idle on the channel once, or held by one FlowFile (the deferred return  *)
(* of the worker in post).                                                 *)
WorkersConserved ==
  \A p \in Ports :
    LET idle == {i \in DOMAIN workers : workers[i] = p}
        held == {f \in Posts : worker[f] = p}
    IN  Cardinality(idle) + Cardinality(held) = 1

(* Only FlowFiles whose checksum was verified, or that are empty, have     *)
(* data packets on the wire: the wake-up is all that precedes the check.   *)
OnlyVerifiedSent ==
  \A p \in Ports : \A i \in DOMAIN net[p] :
    net[p][i].len > 0 => Verified(net[p][i].post)

(* FlowFiles never mix on a port: a packet of another FlowFile than the    *)
(* one before it is a wake-up, so a receiver that takes packets in order   *)
(* finds each file in one piece.                                           *)
PortsCarryWholeFiles ==
  \A p \in Ports : \A i \in 1 .. Len(net[p]) - 1 :
    net[p][i].post # net[p][i + 1].post
      => net[p][i + 1] = WakeUp(net[p][i + 1].post)

(* A post that returns no error while its client stayed has put every      *)
(* packet of both passes on the wire of one port (the two send loops).     *)
OkMeansSentTwice ==
  \A f \in Posts : reply[f] = "ok" /\ isOpen[f] =>
    \E p \in Ports : \A o \in PassOffsets(f) :
      Cardinality({i \in DOMAIN net[p] : net[p][i] = Chunk(f, o)}) >= 2

(* Every post comes to an end, however few workers and send slots there    *)
(* are: a post that holds a worker while it waits for swg blocks nobody    *)
(* for ever, nor does one whose client hangs up.  An upload that breaks off*)
(* while its checksum is computed is out of this: it is read for ever and  *)
(* keeps its worker (BreakOff), so where one of Leavers has a checksum this*)
(* does not hold.                                                          *)
EveryPostReturns == \A f \in Posts : pc[f] = "queued" ~> pc[f] = "idle"
=============================================================================
