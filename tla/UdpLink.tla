------------------------------- MODULE UdpLink -------------------------------
(***************************************************************************)
(* ff-http-to-udp and ff-udp-to-http over one-way links that may lose      *)
(* packets and, if Overtake allows it, deliver them out of order.          *)
(***************************************************************************)
EXTENDS UdpSender, UdpReceiver

Seqs == INSTANCE SequencesExt

CONSTANTS
  MayLose,   \* whether packets can be lost
  Overtake   \* how many packets on the wire can be read before an older one

ASSUME LinkAssumption == MayLose \in BOOLEAN /\ Overtake \in Nat

VARIABLES
  lostOnce,   \* history: chunks of which a copy was lost
  lostTwice,  \* history: FlowFiles that lost both copies of a chunk
  copies,     \* history: copies[f][n] counts how often the endpoint took
              \* the n-th file that was rebuilt of f and sent on
  nth         \* history: nth[t] is the n of thread t's file, once taken

history == <<lostOnce, lostTwice, copies, nth>>
vars == <<svars, rvars, history>>

Init ==
  /\ SenderInit
  /\ ReceiverInit
  /\ lostOnce = {}
  /\ lostTwice = {}
  /\ copies = [f \in Posts |-> << >>]
  /\ nth = [t \in Threads |-> 0]

-----------------------------------------------------------------------------
Client(f) == (Request(f) \/ HangUp(f)) /\ UNCHANGED <<rvars, history>>

Send(f) == Post(f) /\ UNCHANGED <<rvars, history>>

(* Packet i of those under way to p leaves the wire. *)
Take(p, i) ==
  /\ i \in DOMAIN net[p] /\ i <= Overtake + 1
  /\ net' = [net EXCEPT ![p] = Seqs!RemoveAt(@, i)]
  /\ UNCHANGED <<pc, isOpen, worker, off, attempts, reply, workers, sends>>

Receive(p) ==
  /\ \E i \in 1 .. Overtake + 1 : Take(p, i) /\ Handle(p, net[p][i])
  /\ UNCHANGED history

Lose(p) ==
  /\ MayLose
  /\ Take(p, 1)
  /\ LET pkt == Head(net[p])
         copy == <<pkt.post, pkt.off>>
     IN  IF pkt.len = 0 THEN UNCHANGED <<lostOnce, lostTwice>>
         ELSE /\ lostOnce' = lostOnce \cup {copy}
              /\ lostTwice' = IF copy \in lostOnce
                              THEN lostTwice \cup {pkt.post} ELSE lostTwice
  /\ UNCHANGED <<rvars, copies, nth>>

(* The endpoint takes thread t's file, for the first time or again.        *)
Counts(t, f) ==
  IF nth[t] = 0
  THEN /\ copies' = [copies EXCEPT ![f] = Append(@, 1)]
       /\ nth' = [nth EXCEPT ![t] =
                    IF active'[t] = NoJob THEN 0 ELSE Len(copies[f]) + 1]
  ELSE /\ copies' = [copies EXCEPT ![f][nth[t]] = @ + 1]
       /\ nth' = [nth EXCEPT ![t] = IF active'[t] = NoJob THEN 0 ELSE @]

(* It does not, and thread t may be done with the file.                    *)
CountsNone(t) ==
  /\ nth' = [nth EXCEPT ![t] = IF active'[t] = NoJob THEN 0 ELSE @]
  /\ UNCHANGED copies

WorkerStep(t) ==
  /\ \/ (Dispatch(t) \/ Reject(t) \/ Discard(t)) /\ CountsNone(t)
     \/ \E f \in Posts : \/ (Forward(t, f) \/ LoseAnswer(t, f)) /\ Counts(t, f)
                         \/ SendFails(t, f) /\ CountsNone(t)
  /\ UNCHANGED <<svars, lostOnce, lostTwice>>

Next ==
  \/ \E f \in Posts : Client(f) \/ Send(f)
  \/ \E p \in Ports : Receive(p) \/ Lose(p)
  \/ \E t \in Threads : WorkerStep(t)

(* Goroutines that can step do, and a port with packets gets them or loses *)
(* them; clients need not do anything.                                     *)
Spec ==
  /\ Init /\ [][Next]_vars
  /\ \A f \in Posts : WF_vars(Send(f))
  /\ \A p \in Ports : WF_vars(Receive(p))
  /\ \A t \in Threads : WF_vars(WorkerStep(t))

-----------------------------------------------------------------------------
(* No more files are rebuilt and sent on of a FlowFile than it was posted: *)
(* the second pass and the retries of a client never produce a file twice  *)
(* as long as a port keeps the order of its packets (done in handle), and  *)
(* nothing is sent on that was not posted.  The endpoint gets each of them *)
(* at most RetryCount + 1 times, however many of its answers are lost      *)
(* (the retry loop of hs.Send).                                            *)
Transfer == INSTANCE Delivery
              WITH Copies <- RetryCount + 1, posted <- attempts,
                   delivered <- copies
ImplementsDelivery == Transfer!Spec

(* Sending everything twice is enough: a FlowFile posted by a client that  *)
(* stays, and of which no packet lost both its copies, is sent on in the   *)
(* end, whatever else its port carries before and after.                   *)
Sure(f) == reply[f] = "ok" /\ isOpen[f] /\ f \notin lostTwice

TwoCopiesSuffice ==
  \A f \in Posts : <>[]Sure(f) => <>(\E r \in forwarded : r.post = f)

(* The same as a state property: when nothing is under way or being worked *)
(* on any more, every such FlowFile was sent on.                           *)
AtRest ==
  /\ \A p \in Ports : net[p] = << >>
  /\ workChan = << >>
  /\ \A t \in Threads : active[t] = NoJob

NothingMissed ==
  AtRest => \A f \in Posts : Sure(f) => \E r \in forwarded : r.post = f
=============================================================================
