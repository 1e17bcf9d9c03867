------------------------------ MODULE KcpTunnel -------------------------------
(***************************************************************************)
(* ff-http-to-kcp and ff-kcp-to-http at the two ends of KCP connections.   *)
(***************************************************************************)
EXTENDS KcpClient, KcpServer

vars == <<wire, checks, clientvars, servervars>>

KcpTypeOK == WireTypeOK /\ ClientTypeOK /\ ServerTypeOK

Init ==
  /\ up = [c \in Conns |-> << >>]
  /\ down = [c \in Conns |-> << >>]
  /\ closed = {}
  /\ checks \in Checkers
  /\ ClientInit
  /\ ServerInit(Pooled)

-----------------------------------------------------------------------------
(* Connections that can stand for a new one: they were never made, or are  *)
(* closed and the server waits in vain for more of them, a POST of its     *)
(* half done.                                                              *)
Unused == {c \in Conns \ InUse : c \in serving => up[c] = << >>}
Lowest(c) == c \in Unused /\ \A d \in Unused : c <= d

Dial(c) ==
  /\ Refill(c) /\ Lowest(c)
  /\ up' = [up EXCEPT ![c] = << >>]
  /\ down' = [down EXCEPT ![c] = << >>]
  /\ closed' = closed \ {c}
  /\ request' = [request EXCEPT ![c] = << >>]
  /\ serving' = serving \cup {c}
  /\ UNCHANGED <<ended, checks>>

(* Nothing will come from c any more. *)
Silent(c) == c \notin serving /\ down[c] = << >>

(* What post waits for does not come, or too late. *)
GivesUp(p) ==
  /\ conn[p] # NoConn
  /\ \/ Silent(conn[p]) /\ (PingExpires(p) \/ Expires(p))
     \/ p \in Failing /\ Expires(p)
  /\ UNCHANGED <<servervars, checks>>

Client(p) == Post(p) /\ UNCHANGED <<servervars, checks>>
Server(c) == Serve(c) /\ UNCHANGED <<clientvars, checks>>

(* As Dial does not fail, but for the bound, the loop only sleeps when it  *)
(* has made enough of them.                                                *)
Loop ==
  /\ Look \/ Refilled \/ Sleep(Unused # {})
  /\ UNCHANGED <<servervars, checks>>

Next ==
  \/ \E p \in Posts : Client(p) \/ GivesUp(p)
  \/ Loop
  \/ \E c \in Conns : Server(c) \/ Dial(c)

(* Goroutines that can step do, in both programs, the loop of the server   *)
(* for connections that are open; deadlines pass where nothing will come.  *)
Spec ==
  /\ Init /\ [][Next]_vars
  /\ \A p \in Posts :
       /\ WF_vars(Client(p))
       /\ WF_vars(GivesUp(p))
  /\ WF_vars(Loop \/ \E c \in Conns : Dial(c))
  /\ \A c \in Conns : WF_vars(c \notin closed /\ Server(c))

-----------------------------------------------------------------------------
FilesOf(p) == [i \in DOMAIN Block[p] |-> <<p, Block[p][i]>>]
Statuses(p) == {e.status : e \in {x \in ended : x.files = FilesOf(p)}}

(* A POST is answered 200 only if its FlowFiles, all of them and in order, *)
(* were the content of one HTTP POST of the other end: the OKAY a post     *)
(* reads is that for its own block, and not one that an earlier user of    *)
(* the connection or its ping has left.                                    *)
OkIsForItsBlock ==
  \A p \in Posts : reply[p] = "ok" /\ Block[p] # << >> =>
    Statuses(p) \cap {"accepted", "refused"} # {}

(* An HTTP POST holds FlowFiles of one block, from its first on, whatever  *)
(* became of the post that had the connection before.                      *)
BlocksApart ==
  \A c \in Conns : request[c] # << >> =>
    \E p \in Posts : \E n \in 1 .. Len(Block[p]) :
      request[c] = SubSeq(FilesOf(p), 1, n)

(* Where both or either end verifies, nothing that fails it gets to the    *)
(* endpoint.                                                               *)
OnlyVerifiedPassed ==
  checks # {} =>
    \A c \in Conns : \A i \in DOMAIN request[c] : Passes(request[c][i][2])

(* A connection in the pool is open, there once, and nobody's; nothing is  *)
(* left on its way in either direction, and no POST is open for it.        *)
PoolIsClean ==
  /\ \A i, j \in DOMAIN connBuf : connBuf[i] = connBuf[j] => i = j
  /\ \A c \in Pooled :
       /\ c \notin closed /\ c # spare /\ \A p \in Posts : conn[p] # c
       /\ up[c] = << >> /\ down[c] = << >> /\ request[c] = << >>

(* A worker is in the channel or with one post.                            *)
WorkersAccounted ==
  workers + Cardinality({p \in Posts : pc[p] \in WithWorker}) = Threads

(* Every POST is answered, though posts hold connections while they wait   *)
(* for workers and connections are closed rather than put back: the refill *)
(* loop makes up for it.  Only a pool that posts and the loop have filled  *)
(* up keeps a post waiting, until a later one takes a connection.          *)
EveryPostAnswered ==
  \A p \in Posts :
    <>[](At(p, "ended") \/ (At(p, "put") /\ Len(connBuf) = Capacity))
===============================================================================
