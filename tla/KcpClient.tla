------------------------------- MODULE KcpClient -------------------------------
(***************************************************************************)
(* ff-http-to-kcp: every POST takes a connection out of the pool connBuf,  *)
(* a worker, sends its FlowFiles and an end mark and waits for the answer. *)
(***************************************************************************)
EXTENDS KcpConn

CONSTANTS
  Threads,  \* flag -threads
  Slack,    \* room in connBuf for more than Threads connections, 4
  Failing,  \* POSTs of which a write or the answer may be too late
  NoConn,   \* no connection
  NoLook    \* the refill loop sleeps, or dials

ASSUME ClientAssumption ==
  /\ Threads \in Nat \ {0} /\ Slack \in Nat /\ NoLook \notin Nat
  /\ Failing \subseteq Posts
  /\ 1 .. Threads \subseteq Conns /\ NoConn \notin Conns

VARIABLES
  pc,       \* pc[p]: where post is with p
  conn,     \* conn[p]: its connection, or NoConn
  sent,     \* sent[p]: FlowFiles it has written
  reply,    \* reply[p]: what the client of p was told
  connBuf,  \* the pool
  workers,  \* tokens in the channel worker
  seen,     \* len(connBuf) as the refill loop has read it, or NoLook
  spare     \* a connection that is about to go into the pool, or NoConn

clientvars == <<pc, conn, sent, reply, connBuf, workers, seen, spare>>

(* Capacity of connBuf *)
Capacity == Threads + Slack

WithWorker == {"send", "reply", "fail", "give"}

ClientTypeOK ==
  /\ pc \in [Posts -> {"conn", "ping", "worker", "look", "put", "ended"}
                        \cup WithWorker]
  /\ conn \in [Posts -> Conns \cup {NoConn}]
  /\ sent \in [Posts -> Nat]
  /\ reply \in [Posts -> {"none", "ok", "error"}]
  /\ connBuf \in Seq(Conns) /\ Len(connBuf) <= Capacity
  /\ workers \in 0 .. Threads
  /\ seen \in 0 .. Capacity \cup {NoLook}
  /\ spare \in Conns \cup {NoConn}

ClientInit ==
  /\ pc = [p \in Posts |-> "conn"]
  /\ conn = [p \in Posts |-> NoConn]
  /\ sent = [p \in Posts |-> 0]
  /\ reply = [p \in Posts |-> "none"]
  /\ connBuf = [i \in 1 .. Threads |-> i]
  /\ workers = Threads
  /\ seen = NoLook
  /\ spare = NoConn

-----------------------------------------------------------------------------
Goto(p, l) == pc' = [pc EXCEPT ![p] = l]
At(p, l) == pc[p] = l
Writes(p, msg) == up' = [up EXCEPT ![conn[p]] = Append(@, msg)]
Answered(p) == down[conn[p]] # << >>
ReadsAnswer(p) == down' = [down EXCEPT ![conn[p]] = Tail(@)]
Closes(p) == closed' = closed \cup {conn[p]} /\ conn' = [conn EXCEPT ![p] = NoConn]
Tells(p, answer) == reply' = [reply EXCEPT ![p] = answer] /\ Goto(p, "ended")

(* The next connection of the pool is sent an end mark. *)
TakeConn(p) ==
  /\ At(p, "conn") /\ connBuf # << >>
  /\ connBuf' = Tail(connBuf)
  /\ conn' = [conn EXCEPT ![p] = Head(connBuf)]
  /\ up' = [up EXCEPT ![Head(connBuf)] = Append(@, EOF)]
  /\ Goto(p, "ping")
  /\ UNCHANGED <<down, closed, sent, reply, workers, seen, spare>>

PingAnswered(p) ==
  /\ At(p, "ping") /\ Answered(p)
  /\ ReadsAnswer(p)
  /\ IF Head(down[conn[p]]) = "OKAY"
     THEN Goto(p, "worker") /\ UNCHANGED <<closed, conn>>
     ELSE Goto(p, "conn") /\ Closes(p)
  /\ UNCHANGED <<up, sent, reply, connBuf, workers, seen, spare>>

TakeWorker(p) ==
  /\ At(p, "worker") /\ workers > 0
  /\ workers' = workers - 1
  /\ Goto(p, "send")
  /\ UNCHANGED <<wire, conn, sent, reply, connBuf, seen, spare>>

Unsent(p) == At(p, "send") /\ sent[p] < Len(Block[p])
File(p) == Block[p][sent[p] + 1]
Fit(p) == "client" \in checks => Passes(File(p))

(* Mutant: it is written while it is read, before it is verified. *)
Send_Unverified(p) ==
  /\ Unsent(p)
  /\ Writes(p, <<p, File(p)>>)
  /\ sent' = [sent EXCEPT ![p] = @ + 1]
  /\ UNCHANGED <<down, closed, pc, conn, reply, connBuf, workers, seen, spare>>

(* A FlowFile is read, verified and written out. *)
Send(p) ==
  /\ Unsent(p) /\ Fit(p)
  /\ Writes(p, <<p, File(p)>>)
  /\ sent' = [sent EXCEPT ![p] = @ + 1]
  /\ UNCHANGED <<down, closed, pc, conn, reply, connBuf, workers, seen, spare>>

(* Its verification fails. *)
Refuse(p) ==
  /\ Unsent(p) /\ ~Fit(p)
  /\ Goto(p, "fail")
  /\ UNCHANGED <<wire, conn, sent, reply, connBuf, workers, seen, spare>>

SendEnd(p) ==
  /\ At(p, "send") /\ ~Unsent(p)
  /\ Writes(p, EOF)
  /\ Goto(p, "reply")
  /\ UNCHANGED <<down, closed, conn, sent, reply, connBuf, workers, seen, spare>>

Receive(p) ==
  /\ At(p, "reply") /\ Answered(p)
  /\ ReadsAnswer(p)
  /\ Goto(p, IF Head(down[conn[p]]) = "OKAY" THEN "give" ELSE "fail")
  /\ UNCHANGED <<up, closed, conn, sent, reply, connBuf, workers, seen, spare>>

(* A deadline passes: five seconds for a ping, ten for a write or an answer.*)
PingExpires(p) ==
  /\ At(p, "ping")
  /\ Goto(p, "conn") /\ Closes(p)
  /\ UNCHANGED <<up, down, sent, reply, connBuf, workers, seen, spare>>

Expires(p) ==
  /\ pc[p] \in {"send", "reply"}
  /\ Goto(p, "fail")
  /\ UNCHANGED <<wire, conn, sent, reply, connBuf, workers, seen, spare>>

(* Mutant: the connection of a block that failed is used again. *)
Fail_Keeps(p) ==
  /\ At(p, "fail")
  /\ workers' = workers + 1
  /\ connBuf' = Append(connBuf, conn[p])
  /\ conn' = [conn EXCEPT ![p] = NoConn]
  /\ Tells(p, "error")
  /\ UNCHANGED <<wire, sent, seen, spare>>

(* Mutant: the worker is not put back. *)
Fail_HoldsWorker(p) ==
  /\ At(p, "fail")
  /\ Closes(p)
  /\ Tells(p, "error")
  /\ UNCHANGED <<up, down, sent, connBuf, workers, seen, spare>>

(* What is deferred for a block that failed: the connection is closed. *)
Fail(p) ==
  /\ At(p, "fail")
  /\ workers' = workers + 1
  /\ Closes(p)
  /\ Tells(p, "error")
  /\ UNCHANGED <<up, down, sent, connBuf, seen, spare>>

(* And for one that did not: the worker goes back, *)
GiveBack(p) ==
  /\ At(p, "give")
  /\ workers' = workers + 1
  /\ Goto(p, "look")
  /\ UNCHANGED <<wire, conn, sent, reply, connBuf, seen, spare>>

(* Mutant: the worker goes back once more. *)
LookAtPool_GivesBack(p) ==
  /\ At(p, "look")
  /\ workers' = workers + 1
  /\ IF Len(connBuf) < Threads - 1
     THEN Goto(p, "put") /\ UNCHANGED <<closed, conn, reply>>
     ELSE Closes(p) /\ Tells(p, "ok")
  /\ UNCHANGED <<up, down, sent, connBuf, seen, spare>>

(* then the connection, unless there are enough of them when post looks,   *)
LookAtPool(p) ==
  /\ At(p, "look")
  /\ IF Len(connBuf) < Threads - 1
     THEN Goto(p, "put") /\ UNCHANGED <<closed, conn, reply>>
     ELSE Closes(p) /\ Tells(p, "ok")
  /\ UNCHANGED <<up, down, sent, connBuf, workers, seen, spare>>

(* and as soon as there is room for it.                                    *)
Put(p) ==
  /\ At(p, "put") /\ Len(connBuf) < Capacity
  /\ connBuf' = Append(connBuf, conn[p])
  /\ conn' = [conn EXCEPT ![p] = NoConn]
  /\ Tells(p, "ok")
  /\ UNCHANGED <<wire, sent, workers, seen, spare>>

Post(p) ==
  \/ TakeConn(p) \/ PingAnswered(p) \/ TakeWorker(p) \/ Send(p) \/ Refuse(p)
  \/ SendEnd(p) \/ Receive(p) \/ Fail(p) \/ GiveBack(p) \/ LookAtPool(p) \/ Put(p)

Pooled == {connBuf[i] : i \in DOMAIN connBuf}
InUse == Pooled \cup {conn[p] : p \in Posts} \cup {spare}

(* The refill loop reads the length of one channel, *)
Look ==
  /\ spare = NoConn /\ seen = NoLook
  /\ seen' = Len(connBuf)
  /\ UNCHANGED <<wire, pc, conn, sent, reply, connBuf, workers, spare>>

(* Mutant: connections are made only when no worker is left. *)
Refill_Exhausted(c) ==
  /\ spare = NoConn /\ seen # NoLook /\ seen <= Threads /\ workers = 0
  /\ seen' = NoLook /\ spare' = c
  /\ UNCHANGED <<pc, conn, sent, reply, connBuf, workers>>

(* then that of the other, dials c if both are low,                        *)
Refill(c) ==
  /\ spare = NoConn /\ seen # NoLook /\ seen + workers <= Threads
  /\ seen' = NoLook /\ spare' = c
  /\ UNCHANGED <<pc, conn, sent, reply, connBuf, workers>>

(* waits for room in the pool to put it in,                                *)
Refilled ==
  /\ spare # NoConn /\ Len(connBuf) < Capacity
  /\ connBuf' = Append(connBuf, spare)
  /\ spare' = NoConn
  /\ UNCHANGED <<wire, pc, conn, sent, reply, workers, seen>>

(* and sleeps if they are not, or Dial fails.                              *)
Sleep(dials) ==
  /\ seen # NoLook /\ (seen + workers <= Threads => ~dials)
  /\ seen' = NoLook
  /\ UNCHANGED <<wire, pc, conn, sent, reply, connBuf, workers, spare>>
===============================================================================
