------------------------------- MODULE KcpProofs -------------------------------
(***************************************************************************)
(* The two ends of the KCP link are safe for every set of POSTs, of blocks *)
(* and of connections, whatever is refused and whoever gives up.           *)
(***************************************************************************)
EXTENDS KcpTunnel, FiniteSetTheorems, SequenceTheorems, TLAPS

-----------------------------------------------------------------------------
(* Who has a connection: the pool, a post or the refill loop, one of them. *)
Held ==
  /\ \A i, j \in DOMAIN connBuf : connBuf[i] = connBuf[j] => i = j
  /\ \A p \in Posts : conn[p] = NoConn <=> pc[p] \in {"conn", "ended"}
  /\ \A p, q \in Posts : conn[p] = conn[q] /\ conn[p] # NoConn => p = q
  /\ \A p \in Posts : conn[p] \notin Pooled /\ conn[p] \notin closed
  /\ \A p \in Posts : conn[p] = spare => spare = NoConn
  /\ spare \notin Pooled /\ spare \notin closed
  /\ Pooled \cap closed = {}

(* Nothing is under way on a connection, either way.                       *)
Empty(c) == up[c] = << >> /\ down[c] = << >> /\ request[c] = << >>

FreeEmpty == \A c \in Conns : c \in Pooled \cup {spare} => Empty(c)

(* The k-th message of a block, and that the first n of them are what an   *)
(* HTTP POST got, r, and what is still under way, u.                       *)
Item(p, k) == IF k <= Len(Block[p]) THEN <<p, Block[p][k]>> ELSE EOF

Carries(r, u, p, n) ==
  /\ Len(r) <= Len(Block[p]) /\ n <= Len(Block[p]) + 1
  /\ Len(r) + Len(u) = n
  /\ \A i \in 1 .. Len(r) : r[i] = Item(p, i)
  /\ \A i \in 1 .. Len(u) : u[i] = Item(p, Len(r) + i)

(* The block of p was given to an HTTP POST that was answered.             *)
Taken(p) ==
  Block[p] # << >> => \E e \in ended : /\ e.files = FilesOf(p)
                                       /\ e.status \in {"accepted", "refused"}

(* What a post finds on its connection c, by where it is.                  *)
Dead(c) == c \notin serving /\ down[c] \in {<< >>, <<"FAIL">>}
UnderWay(p, c, n) == down[c] = << >> /\ Carries(request[c], up[c], p, n)
Okayed(c) == up[c] = << >> /\ down[c] = <<"OKAY">> /\ request[c] = << >>

Pinged(c) ==
  \/ up[c] = <<EOF>> /\ down[c] = << >> /\ request[c] = << >>
  \/ Okayed(c)

Finds(p, c) ==
  /\ pc[p] = "ping" => Pinged(c)
  /\ pc[p] \in {"worker", "give", "look", "put"} => Empty(c)
  /\ pc[p] = "send" => Dead(c) \/ UnderWay(p, c, sent[p])
  /\ pc[p] = "reply" => \/ Dead(c) \/ UnderWay(p, c, Len(Block[p]) + 1)
                        \/ Okayed(c) /\ Taken(p)

PostFine(p) ==
  /\ \A c \in Conns : conn[p] = c => Finds(p, c)
  /\ sent[p] <= Len(Block[p])
  /\ pc[p] \in {"conn", "ping", "worker"} => sent[p] = 0
  /\ reply[p] = "ok" \/ pc[p] \in {"give", "look", "put"} => Taken(p)

(* Every connection, whoever has it, carries no more than one block.       *)
Tidy(c) ==
  /\ c \notin serving => request[c] = << >>
  /\ c \in serving =>
       \/ request[c] = << >> /\ up[c] \in {<< >>, <<EOF>>}
       \/ \E p \in Posts : \E n \in 0 .. Len(Block[p]) + 1 :
            Carries(request[c], up[c], p, n)

AllTidy == \A c \in Conns : Tidy(c)

WireInv == FreeEmpty /\ (\A p \in Posts : PostFine(p)) /\ AllTidy

(* Where the client verifies, what is under way passes; where either end   *)
(* does, what an HTTP POST got does.                                       *)
SentVerified ==
  "client" \in checks => \A c \in Conns : \A i \in DOMAIN up[c] :
    up[c][i] # EOF => Passes(up[c][i][2])

(* The posts that have a worker, and those in the channel.                 *)
Working == {p \in Posts : pc[p] \in WithWorker}
WorkersKept == IsFiniteSet(Working) /\ workers + Cardinality(Working) = Threads

-----------------------------------------------------------------------------
(* The pool as a sequence without repetitions: taking its head, and adding *)
(* a connection that is not in it.                                         *)
Members(s) == {s[i] : i \in DOMAIN s}
OnceEach(s) == \A i, j \in DOMAIN s : s[i] = s[j] => i = j

LEMMA TakeHead ==
  ASSUME NEW S, NEW s \in Seq(S), s # << >>
  PROVE  /\ Head(s) \in S /\ Head(s) \in Members(s)
         /\ Tail(s) \in Seq(S) /\ Len(s) \in Nat /\ Len(Tail(s)) = Len(s) - 1
         /\ Members(Tail(s)) \subseteq Members(s)
         /\ Members(s) \subseteq S
         /\ OnceEach(s) => /\ OnceEach(Tail(s))
                           /\ Members(Tail(s)) = Members(s) \ {Head(s)}
<1>1. /\ Head(s) \in S /\ Tail(s) \in Seq(S) /\ Len(Tail(s)) = Len(s) - 1
      /\ \A i \in 1 .. Len(Tail(s)) : Tail(s)[i] = s[i + 1]
      /\ Len(s) \in Nat \ {0} /\ DOMAIN s = 1 .. Len(s) /\ s[1] = Head(s)
      /\ DOMAIN Tail(s) = 1 .. Len(Tail(s))
  BY HeadTailProperties, LenProperties, EmptySeq
<1>2. /\ \A i \in DOMAIN Tail(s) : i \in Nat /\ i + 1 \in DOMAIN s /\ i + 1 # 1
                                   /\ Tail(s)[i] = s[i + 1]
      /\ \A i \in DOMAIN s : i # 1 => i - 1 \in DOMAIN Tail(s) /\ Tail(s)[i - 1] = s[i]
      /\ 1 \in DOMAIN s
  BY <1>1
<1>3. Members(Tail(s)) \subseteq Members(s)
  BY <1>2 DEF Members
<1>4. Members(s) \subseteq S
  BY ElementOfSeq, <1>1 DEF Members
<1>5. ASSUME OnceEach(s)
      PROVE  OnceEach(Tail(s)) /\ Members(Tail(s)) = Members(s) \ {Head(s)}
  <2>1. OnceEach(Tail(s))
    <3> SUFFICES ASSUME NEW i \in DOMAIN Tail(s), NEW j \in DOMAIN Tail(s),
                        Tail(s)[i] = Tail(s)[j]
                 PROVE  i = j
      BY DEF OnceEach
    <3>1. i + 1 = j + 1
      BY <1>2, <1>5 DEF OnceEach
    <3> QED
      BY <1>2, <3>1
  <2>2. Head(s) \notin Members(Tail(s))
    BY <1>1, <1>2, <1>5 DEF Members, OnceEach
  <2>3. ASSUME NEW x \in Members(s), x # Head(s)
        PROVE  x \in Members(Tail(s))
    <3>1. PICK i \in DOMAIN s : x = s[i]
      BY DEF Members
    <3>2. i # 1
      BY <1>1, <2>3, <3>1
    <3> QED
      BY <1>2, <3>1, <3>2 DEF Members
  <2> QED
    BY <1>3, <2>1, <2>2, <2>3
<1> QED
  BY <1>1, <1>2, <1>3, <1>4, <1>5 DEF Members

LEMMA AddLast ==
  ASSUME NEW S, NEW s \in Seq(S), NEW x \in S
  PROVE  /\ Append(s, x) \in Seq(S) /\ Len(s) \in Nat /\ Len(Append(s, x)) = Len(s) + 1
         /\ Append(s, x) # << >>
         /\ Members(Append(s, x)) = Members(s) \cup {x}
         /\ OnceEach(s) /\ x \notin Members(s) => OnceEach(Append(s, x))
<1>1. /\ Append(s, x) \in Seq(S) /\ Len(Append(s, x)) = Len(s) + 1
      /\ Append(s, x) # << >> /\ Len(s) \in Nat
      /\ \A i \in 1 .. Len(s) : Append(s, x)[i] = s[i]
      /\ Append(s, x)[Len(s) + 1] = x
      /\ DOMAIN s = 1 .. Len(s) /\ DOMAIN Append(s, x) = 1 .. Len(s) + 1
  BY AppendProperties, LenProperties
<1>2. PICK n : /\ n \notin DOMAIN s /\ DOMAIN Append(s, x) = DOMAIN s \cup {n}
               /\ Append(s, x)[n] = x
               /\ \A i \in DOMAIN s : Append(s, x)[i] = s[i]
  <2>1. /\ Len(s) + 1 \notin DOMAIN s
        /\ DOMAIN Append(s, x) = DOMAIN s \cup {Len(s) + 1}
    BY <1>1
  <2> QED
    BY <1>1, <2>1
<1>3. Members(Append(s, x)) = Members(s) \cup {x}
  BY <1>2 DEF Members
<1>4. OnceEach(s) /\ x \notin Members(s) => OnceEach(Append(s, x))
  BY <1>2 DEF Members, OnceEach
<1> QED
  BY <1>1, <1>3, <1>4

-----------------------------------------------------------------------------
(* A block on its way: nothing yet, one message more, one message taken,   *)
(* and the end mark, which is the last.                                    *)
LEMMA BlockItems ==
  ASSUME NEW p \in Posts
  PROVE  /\ Block[p] \in Seq(FlowFiles) /\ Len(Block[p]) \in Nat
         /\ DOMAIN Block[p] = 1 .. Len(Block[p])
         /\ \A k \in 1 .. Len(Block[p]) : <<p, Block[p][k]>> \in Posts \X FlowFiles
         /\ \A k \in 1 .. Len(Block[p]) + 1 :
              Item(p, k) \in Messages /\ (Item(p, k) = EOF <=> k = Len(Block[p]) + 1)
<1>1. Block[p] \in Seq(FlowFiles)
  BY KcpAssumption
<1>2. Len(Block[p]) \in Nat /\ DOMAIN Block[p] = 1 .. Len(Block[p])
  BY <1>1, LenProperties
<1>3. \A k \in 1 .. Len(Block[p]) : <<p, Block[p][k]>> \in Posts \X FlowFiles
  BY <1>1, ElementOfSeq
<1>4. EOF \notin Posts \X FlowFiles
  BY KcpAssumption
<1>5. ASSUME NEW k \in 1 .. Len(Block[p]) + 1
      PROVE  Item(p, k) \in Messages /\ (Item(p, k) = EOF <=> k = Len(Block[p]) + 1)
  <2>1. CASE k \in 1 .. Len(Block[p])
    BY <1>2, <1>3, <1>4, <2>1 DEF Item, Messages
  <2>2. CASE k = Len(Block[p]) + 1
    BY <1>2, <2>2 DEF Item, Messages
  <2> QED
    BY <1>2, <2>1, <2>2
<1> QED
  BY <1>1, <1>2, <1>3, <1>5

LEMMA CarriesNone ==
  ASSUME NEW p \in Posts
  PROVE  Carries(<< >>, << >>, p, 0)
BY BlockItems, EmptySeq DEF Carries

LEMMA CarriesMore ==
  ASSUME NEW p \in Posts, NEW r \in Blocks, NEW u \in Seq(Messages), NEW n \in Nat,
         Carries(r, u, p, n), n <= Len(Block[p]), NEW m, m = Item(p, n + 1)
  PROVE  Carries(r, Append(u, m), p, n + 1)
<1>1. m \in Messages /\ Len(Block[p]) \in Nat
  BY BlockItems
<1>2. /\ Len(Append(u, m)) = Len(u) + 1 /\ Len(u) \in Nat /\ Len(r) \in Nat
      /\ \A i \in 1 .. Len(u) : Append(u, m)[i] = u[i]
      /\ Append(u, m)[Len(u) + 1] = m
  BY <1>1, AppendProperties, LenProperties DEF Blocks
<1>3. Len(r) + Len(u) = n
  BY DEF Carries
<1>4. ASSUME NEW i \in 1 .. Len(Append(u, m))
      PROVE  Append(u, m)[i] = Item(p, Len(r) + i)
  <2>1. CASE i \in 1 .. Len(u)
    BY <1>2, <2>1 DEF Carries
  <2>2. CASE i = Len(u) + 1
    <3>1. Len(r) + i = n + 1
      BY <1>2, <1>3, <2>2
    <3> QED
      BY <1>2, <2>2, <3>1
  <2> QED
    BY <1>2, <2>1, <2>2
<1>5. Len(r) + Len(Append(u, m)) = n + 1 /\ n + 1 <= Len(Block[p]) + 1
  BY <1>1, <1>2, <1>3
<1> QED
  BY <1>4, <1>5 DEF Carries

LEMMA CarriesHead ==
  ASSUME NEW p \in Posts, NEW r \in Blocks, NEW u \in Seq(Messages), NEW n \in Nat,
         Carries(r, u, p, n), u # << >>
  PROVE  /\ Head(u) = Item(p, Len(r) + 1) /\ Len(r) + 1 \in 1 .. Len(Block[p]) + 1
         /\ Head(u) = EOF <=> Len(r) = Len(Block[p])
         /\ Head(u) # EOF =>
              /\ Head(u) \in Posts \X FlowFiles
              /\ Carries(Append(r, Head(u)), Tail(u), p, n)
         /\ Head(u) = EOF =>
              n = Len(Block[p]) + 1 /\ Tail(u) = << >> /\ r = FilesOf(p)
<1>1. /\ Len(u) \in Nat \ {0} /\ Len(r) \in Nat /\ Len(Block[p]) \in Nat
      /\ Head(u) = u[1] /\ Head(u) \in Messages
      /\ Tail(u) \in Seq(Messages) /\ Len(Tail(u)) = Len(u) - 1
      /\ \A i \in 1 .. Len(Tail(u)) : Tail(u)[i] = u[i + 1]
  BY HeadTailProperties, LenProperties, EmptySeq, BlockItems DEF Blocks
<1>2. /\ Len(r) <= Len(Block[p]) /\ n <= Len(Block[p]) + 1
      /\ Len(r) + Len(u) = n
      /\ \A i \in 1 .. Len(r) : r[i] = Item(p, i)
      /\ \A i \in 1 .. Len(u) : u[i] = Item(p, Len(r) + i)
  BY DEF Carries
<1>3. Head(u) = Item(p, Len(r) + 1) /\ Len(r) + 1 \in 1 .. Len(Block[p]) + 1
  BY <1>1, <1>2
<1>4. Head(u) = EOF <=> Len(r) = Len(Block[p])
  BY <1>1, <1>3, BlockItems
<1>5. ASSUME Head(u) # EOF
      PROVE  /\ Head(u) \in Posts \X FlowFiles
             /\ Carries(Append(r, Head(u)), Tail(u), p, n)
  <2>1. Head(u) \in Posts \X FlowFiles
    BY <1>1, <1>5 DEF Messages
  <2>2. Len(r) + 1 <= Len(Block[p])
    BY <1>1, <1>2, <1>4, <1>5
  <2>3. /\ Len(Append(r, Head(u))) = Len(r) + 1
        /\ \A i \in 1 .. Len(r) : Append(r, Head(u))[i] = r[i]
        /\ Append(r, Head(u))[Len(r) + 1] = Head(u)
    BY <2>1, AppendProperties DEF Blocks
  <2>4. \A i \in 1 .. Len(r) + 1 : Append(r, Head(u))[i] = Item(p, i)
    BY <1>1, <1>2, <1>3, <2>3
  <2>5. ASSUME NEW i \in 1 .. Len(Tail(u))
        PROVE  Tail(u)[i] = Item(p, Len(r) + 1 + i)
    <3>1. i + 1 \in 1 .. Len(u) /\ Len(r) + (i + 1) = Len(r) + 1 + i
      BY <1>1
    <3> QED
      BY <1>1, <1>2, <3>1
  <2>6. /\ Len(Append(r, Head(u))) <= Len(Block[p])
        /\ Len(Append(r, Head(u))) + Len(Tail(u)) = n
    BY <1>1, <1>2, <2>2, <2>3
  <2> QED
    BY <1>2, <2>1, <2>3, <2>4, <2>5, <2>6 DEF Carries
<1>6. ASSUME Head(u) = EOF
      PROVE  n = Len(Block[p]) + 1 /\ Tail(u) = << >> /\ r = FilesOf(p)
  <2>1. n = Len(Block[p]) + 1 /\ Len(u) = 1 /\ Len(Tail(u)) = 0
    BY <1>1, <1>2, <1>4, <1>6
  <2>2. Tail(u) = << >>
    BY <1>1, <2>1, EmptySeq
  <2>3. ASSUME NEW i \in 1 .. Len(Block[p])
        PROVE  r[i] = <<p, Block[p][i]>>
    <3>1. i <= Len(Block[p]) /\ r[i] = Item(p, i)
      BY <1>1, <1>2, <1>4, <1>6
    <3> QED
      BY <3>1 DEF Item
  <2>4. r = [i \in 1 .. Len(r) |-> r[i]]
    BY LenProperties DEF Blocks
  <2>5. DOMAIN Block[p] = 1 .. Len(Block[p]) /\ Len(r) = Len(Block[p])
    BY <1>4, <1>6, BlockItems
  <2> QED
    BY <2>1, <2>2, <2>3, <2>4, <2>5 DEF FilesOf
<1> QED
  BY <1>3, <1>4, <1>5, <1>6

(* What an HTTP POST got of a block is the first part of it.               *)
LEMMA CarriesPrefix ==
  ASSUME NEW p \in Posts, NEW r \in Blocks, NEW u, NEW n,
         Carries(r, u, p, n), r # << >>
  PROVE  Len(r) \in 1 .. Len(Block[p]) /\ r = SubSeq(FilesOf(p), 1, Len(r))
<1>1. /\ Len(r) \in Nat \ {0} /\ Len(r) <= Len(Block[p]) /\ Len(Block[p]) \in Nat
      /\ DOMAIN Block[p] = 1 .. Len(Block[p])
  BY BlockItems, EmptySeq DEF Carries, Blocks
<1>2. \A i \in 1 .. Len(r) : FilesOf(p)[i] = r[i]
  BY <1>1 DEF Carries, FilesOf, Item
<1>3. \A i \in 1 .. Len(r) : FilesOf(p)[i] \in Posts \X FlowFiles
  BY <1>2, ElementOfSeq DEF Blocks
<1>4. /\ SubSeq(FilesOf(p), 1, Len(r)) \in Blocks
      /\ Len(SubSeq(FilesOf(p), 1, Len(r))) = Len(r)
      /\ \A i \in 1 .. Len(r) : SubSeq(FilesOf(p), 1, Len(r))[i] = FilesOf(p)[i]
  <2>1. /\ SubSeq(FilesOf(p), 1, Len(r)) \in Seq(Posts \X FlowFiles)
        /\ Len(SubSeq(FilesOf(p), 1, Len(r)))
             = IF 1 <= Len(r) THEN Len(r) - 1 + 1 ELSE 0
        /\ \A i \in 1 .. Len(r) - 1 + 1 :
             SubSeq(FilesOf(p), 1, Len(r))[i] = FilesOf(p)[1 + i - 1]
    BY <1>1, <1>3, SubSeqProperties
  <2> QED
    BY <1>1, <2>1 DEF Blocks
<1> QED
  BY <1>1, <1>2, <1>4, SeqEqual DEF Blocks

-----------------------------------------------------------------------------
(* Who a step may touch: the posts of P and the connection c.              *)
Alone(P) ==
  \A q \in Posts \ P : /\ pc'[q] = pc[q] /\ conn'[q] = conn[q]
                       /\ sent'[q] = sent[q] /\ reply'[q] = reply[q]

Elsewhere(c) ==
  /\ \A d \in Conns \ {c} :
       /\ up'[d] = up[d] /\ down'[d] = down[d] /\ request'[d] = request[d]
       /\ d \in serving' <=> d \in serving
  /\ ended \subseteq ended'

(* Between its ping and its end a post has a connection. *)
LEMMA HasConn ==
  ASSUME KcpTypeOK, Held, NEW p \in Posts, pc[p] \notin {"conn", "ended"}
  PROVE  conn[p] \in Conns /\ conn[p] # NoConn
BY DEF KcpTypeOK, ClientTypeOK, Held

(* A post that has a worker can put it back.                               *)
LEMMA WorkerBack ==
  ASSUME KcpTypeOK, WorkersKept, NEW p \in Posts, pc[p] \in WithWorker
  PROVE  workers + 1 \in 0 .. Threads
<1>1. p \in Working /\ Cardinality(Working) \in Nat /\ Cardinality(Working) # 0
  BY FS_CardinalityType, FS_EmptySet DEF WorkersKept, Working
<1> QED
  BY <1>1, ClientAssumption DEF WorkersKept, KcpTypeOK, ClientTypeOK

(* What a step of the client does to types and workers.                    *)
LEMMA ClientTyped ==
  ASSUME KcpTypeOK, Held, WorkersKept, NEW p \in Posts, Client(p)
  PROVE  KcpTypeOK' /\ Alone({p})
<1>1. WireTypeOK /\ ClientTypeOK /\ ServerTypeOK
  BY DEF KcpTypeOK
<1>2. /\ ServerTypeOK'
      /\ serving' = serving /\ request' = request /\ ended' = ended /\ checks' = checks
  BY <1>1 DEF Client, servervars, ServerTypeOK
<1>3. EOF \in Messages /\ WithWorker = {"send", "reply", "fail", "give"}
      /\ Threads \in Nat /\ Slack \in Nat
  BY ClientAssumption DEF Messages, WithWorker
<1>4. CASE TakeConn(p)
  <2>1. /\ Head(connBuf) \in Conns /\ Tail(connBuf) \in Seq(Conns)
        /\ Len(Tail(connBuf)) <= Capacity
    BY <1>1, <1>3, <1>4, TakeHead DEF TakeConn, ClientTypeOK, Capacity
  <2>2. Append(up[Head(connBuf)], EOF) \in Seq(Messages)
    BY <1>1, <1>3, <2>1, AppendProperties DEF WireTypeOK
  <2>3. WireTypeOK'
    BY <1>1, <1>2, <1>4, <2>1, <2>2 DEF TakeConn, WireTypeOK
  <2>4. ClientTypeOK'
    BY <1>1, <1>4, <2>1 DEF TakeConn, At, Goto, ClientTypeOK
  <2>5. Alone({p})
    BY <1>1, <1>4 DEF TakeConn, Goto, ClientTypeOK, Alone
  <2> QED
    BY <1>2, <2>3, <2>4, <2>5 DEF KcpTypeOK
<1>5. CASE PingAnswered(p)
  <2>1. conn[p] \in Conns
    BY <1>5, HasConn DEF PingAnswered, At
  <2>2. Tail(down[conn[p]]) \in Seq({"OKAY", "FAIL"})
    BY <1>1, <1>5, <2>1, HeadTailProperties DEF PingAnswered, Answered, WireTypeOK
  <2>3. WireTypeOK'
    BY <1>1, <1>2, <1>5, <2>1, <2>2 DEF PingAnswered, ReadsAnswer, Closes, WireTypeOK
  <2>4. ClientTypeOK' /\ Alone({p})
    BY <1>1, <1>5 DEF PingAnswered, Goto, Closes, ClientTypeOK, Alone
  <2> QED
    BY <1>2, <2>3, <2>4 DEF KcpTypeOK
<1>6. CASE TakeWorker(p)
  <2>1. WireTypeOK' /\ ClientTypeOK' /\ Alone({p})
    BY <1>1, <1>2, <1>3, <1>6 DEF TakeWorker, Goto, wire, WireTypeOK, ClientTypeOK, Alone
  <2> QED
    BY <1>2, <2>1 DEF KcpTypeOK
<1>7. CASE Send(p)
  <2>1. conn[p] \in Conns
    BY <1>7, HasConn DEF Send, Unsent, At
  <2>2. <<p, File(p)>> \in Messages
    <3>1. sent[p] + 1 \in 1 .. Len(Block[p])
      BY <1>1, <1>7, BlockItems DEF Send, Unsent, ClientTypeOK
    <3> QED
      BY <3>1, BlockItems DEF File, Messages
  <2>3. Append(up[conn[p]], <<p, File(p)>>) \in Seq(Messages)
    BY <1>1, <2>1, <2>2, AppendProperties DEF WireTypeOK
  <2>4. WireTypeOK'
    BY <1>1, <1>2, <1>7, <2>1, <2>3 DEF Send, Writes, WireTypeOK
  <2>5. ClientTypeOK' /\ Alone({p})
    BY <1>1, <1>7 DEF Send, ClientTypeOK, Alone
  <2> QED
    BY <1>2, <2>4, <2>5 DEF KcpTypeOK
<1>8. CASE Refuse(p)
  <2>1. WireTypeOK' /\ ClientTypeOK' /\ Alone({p})
    BY <1>1, <1>2, <1>3, <1>8 DEF Refuse, Goto, wire, WireTypeOK, ClientTypeOK, Alone
  <2> QED
    BY <1>2, <2>1 DEF KcpTypeOK
<1>9. CASE SendEnd(p)
  <2>1. conn[p] \in Conns
    BY <1>9, HasConn DEF SendEnd, At
  <2>2. Append(up[conn[p]], EOF) \in Seq(Messages)
    BY <1>1, <1>3, <2>1, AppendProperties DEF WireTypeOK
  <2>3. WireTypeOK'
    BY <1>1, <1>2, <1>9, <2>1, <2>2 DEF SendEnd, Writes, WireTypeOK
  <2>4. ClientTypeOK' /\ Alone({p})
    BY <1>1, <1>3, <1>9 DEF SendEnd, Goto, ClientTypeOK, Alone
  <2> QED
    BY <1>2, <2>3, <2>4 DEF KcpTypeOK
<1>10. CASE Receive(p)
  <2>1. conn[p] \in Conns
    BY <1>10, HasConn DEF Receive, At
  <2>2. Tail(down[conn[p]]) \in Seq({"OKAY", "FAIL"})
    BY <1>1, <1>10, <2>1, HeadTailProperties DEF Receive, Answered, WireTypeOK
  <2>3. WireTypeOK'
    BY <1>1, <1>2, <1>10, <2>1, <2>2 DEF Receive, ReadsAnswer, WireTypeOK
  <2>4. ClientTypeOK' /\ Alone({p})
    BY <1>1, <1>3, <1>10 DEF Receive, Goto, ClientTypeOK, Alone
  <2> QED
    BY <1>2, <2>3, <2>4 DEF KcpTypeOK
<1>11. CASE Fail(p)
  <2>1. conn[p] \in Conns /\ workers + 1 \in 0 .. Threads
    BY <1>3, <1>11, HasConn, WorkerBack DEF Fail, At
  <2>2. WireTypeOK' /\ ClientTypeOK' /\ Alone({p})
    BY <1>1, <1>2, <1>11, <2>1
       DEF Fail, Closes, Tells, Goto, WireTypeOK, ClientTypeOK, Alone
  <2> QED
    BY <1>2, <2>2 DEF KcpTypeOK
<1>12. CASE GiveBack(p)
  <2>1. workers + 1 \in 0 .. Threads
    BY <1>3, <1>12, WorkerBack DEF GiveBack, At
  <2>2. WireTypeOK' /\ ClientTypeOK' /\ Alone({p})
    BY <1>1, <1>2, <1>12, <2>1 DEF GiveBack, Goto, wire, WireTypeOK, ClientTypeOK, Alone
  <2> QED
    BY <1>2, <2>2 DEF KcpTypeOK
<1>13. CASE LookAtPool(p)
  <2>1. conn[p] \in Conns
    BY <1>13, HasConn DEF LookAtPool, At
  <2>2. WireTypeOK'
    BY <1>1, <1>2, <1>13, <2>1 DEF LookAtPool, Closes, WireTypeOK
  <2>3. /\ pc' \in {[pc EXCEPT ![p] = "put"], [pc EXCEPT ![p] = "ended"]}
        /\ conn' \in {conn, [conn EXCEPT ![p] = NoConn]}
        /\ reply' \in {reply, [reply EXCEPT ![p] = "ok"]}
        /\ UNCHANGED <<sent, connBuf, workers, seen, spare>>
    BY <1>13 DEF LookAtPool, Closes, Tells, Goto
  <2>4. Alone({p})
    BY <1>1, <2>3 DEF ClientTypeOK, Alone
  <2>5. ClientTypeOK'
    BY <1>1, <2>3 DEF ClientTypeOK
  <2> QED
    BY <1>2, <2>2, <2>4, <2>5 DEF KcpTypeOK
<1>14. CASE Put(p)
  <2>1. conn[p] \in Conns
    BY <1>14, HasConn DEF Put, At
  <2>2. Append(connBuf, conn[p]) \in Seq(Conns)
        /\ Len(Append(connBuf, conn[p])) <= Capacity
    BY <1>1, <1>3, <1>14, <2>1, AddLast DEF Put, ClientTypeOK, Capacity
  <2>3. WireTypeOK' /\ ClientTypeOK' /\ Alone({p})
    BY <1>1, <1>2, <1>14, <2>2
       DEF Put, Tells, Goto, wire, WireTypeOK, ClientTypeOK, Alone
  <2> QED
    BY <1>2, <2>3 DEF KcpTypeOK
<1> QED
  BY <1>4, <1>5, <1>6, <1>7, <1>8, <1>9, <1>10, <1>11, <1>12, <1>13, <1>14
  DEF Client, Post

(* What giving up does, *)
LEMMA GivesUpTyped ==
  ASSUME KcpTypeOK, Held, NEW p \in Posts, GivesUp(p)
  PROVE  /\ KcpTypeOK' /\ Alone({p})
         /\ PingExpires(p) \/ Expires(p)
         /\ serving' = serving /\ request' = request /\ ended' = ended
<1>1. /\ PingExpires(p) \/ Expires(p)
      /\ serving' = serving /\ request' = request /\ ended' = ended /\ checks' = checks
  BY DEF GivesUp, servervars
<1>2. conn[p] \in Conns
  BY <1>1, HasConn DEF PingExpires, Expires, At
<1>3. ClientTypeOK' /\ WireTypeOK' /\ Alone({p})
  BY <1>1, <1>2 DEF KcpTypeOK, PingExpires, Expires, Closes, Goto, wire,
                    WireTypeOK, ClientTypeOK, WithWorker, Alone
<1> QED
  BY <1>1, <1>3 DEF KcpTypeOK, ServerTypeOK

(* the refill loop, *)
LEMMA RefilledTyped ==
  ASSUME KcpTypeOK, Refilled, UNCHANGED <<servervars, checks>>
  PROVE  KcpTypeOK' /\ Alone({})
<1>1. spare \in Conns /\ connBuf \in Seq(Conns) /\ Len(connBuf) < Capacity
      /\ Capacity \in Nat
  BY ClientAssumption DEF Refilled, KcpTypeOK, ClientTypeOK, Capacity
<1>2. Append(connBuf, spare) \in Seq(Conns) /\ Len(Append(connBuf, spare)) <= Capacity
  BY <1>1, AddLast
<1> QED
  BY <1>2 DEF Refilled, servervars, wire, KcpTypeOK, WireTypeOK, ClientTypeOK,
              ServerTypeOK, Alone

LEMMA LoopTyped ==
  ASSUME KcpTypeOK, Look \/ Sleep(Unused # {}), UNCHANGED <<servervars, checks>>
  PROVE  KcpTypeOK' /\ Alone({})
<1>1. Len(connBuf) \in 0 .. Capacity
  BY LenProperties, ClientAssumption DEF KcpTypeOK, ClientTypeOK, Capacity
<1> QED
  BY <1>1 DEF Look, Sleep, servervars, wire, KcpTypeOK, WireTypeOK, ClientTypeOK,
              ServerTypeOK, Alone

(* and dialling. *)
LEMMA DialTyped ==
  ASSUME KcpTypeOK, NEW c \in Conns, Dial(c)
  PROVE  KcpTypeOK' /\ Alone({}) /\ Elsewhere(c)
BY EmptySeq DEF Dial, Refill, KcpTypeOK, WireTypeOK, ClientTypeOK, ServerTypeOK, Blocks,
                Alone, Elsewhere

(* What a step of the server does on its connection.                       *)
LEMMA ServerTyped ==
  ASSUME KcpTypeOK, NEW c \in Conns, Server(c)
  PROVE  /\ KcpTypeOK' /\ Alone({}) /\ Elsewhere(c)
         /\ c \in serving /\ up[c] # << >> /\ up'[c] = Tail(up[c])
         /\ UNCHANGED <<closed, clientvars>>
<1>1. WireTypeOK /\ ClientTypeOK /\ ServerTypeOK
  BY DEF KcpTypeOK
<1>2. /\ c \in serving /\ up[c] # << >> /\ Reads(c) /\ UNCHANGED <<closed, checks, clientvars>>
  BY DEF Server, Serve, Pass, Reject, Broken, Finish, AtFile, AtEnd
<1>3. /\ Head(up[c]) \in Messages /\ Tail(up[c]) \in Seq(Messages)
      /\ up'[c] = Tail(up[c]) /\ up' \in [Conns -> Seq(Messages)]
      /\ \A d \in Conns \ {c} : up'[d] = up[d]
  BY <1>1, <1>2, HeadTailProperties DEF WireTypeOK, Reads
<1>4. /\ Append(down[c], "OKAY") \in Seq({"OKAY", "FAIL"})
      /\ Append(down[c], "FAIL") \in Seq({"OKAY", "FAIL"})
  BY <1>1, AppendProperties DEF WireTypeOK
<1>5. /\ down' \in [Conns -> Seq({"OKAY", "FAIL"})]
      /\ \A d \in Conns \ {c} : down'[d] = down[d]
  BY <1>1, <1>4 DEF Server, Serve, Pass, Reject, Broken, Finish, Says, WireTypeOK
<1>6. << >> \in Blocks
  BY EmptySeq DEF Blocks
<1>7. ASSUME NEW status \in {"accepted", "refused"}, Ends(c, status)
      PROVE  /\ request' \in [Conns -> Blocks] /\ request'[c] = << >>
             /\ \A d \in Conns \ {c} : request'[d] = request[d]
             /\ ended' \subseteq [files : Blocks, status : {"accepted", "refused"}]
             /\ ended \subseteq ended'
  BY <1>1, <1>6, <1>7 DEF Ends, ServerTypeOK
<1>8. /\ serving' \subseteq Conns /\ request' \in [Conns -> Blocks]
      /\ \A d \in Conns \ {c} : /\ request'[d] = request[d]
                                /\ d \in serving' <=> d \in serving
      /\ ended' \subseteq [files : Blocks, status : {"accepted", "refused"}]
      /\ ended \subseteq ended'
  <2>1. CASE Pass(c)
    <3>1. Append(request[c], Head(up[c])) \in Blocks
      BY <1>1, <1>3, <2>1, AppendProperties DEF Pass, AtFile, Messages, ServerTypeOK, Blocks
    <3> QED
      BY <1>1, <2>1, <3>1 DEF Pass, ServerTypeOK
  <2>2. CASE Reject(c)
    BY <1>1, <1>6, <2>2 DEF Reject, ServerTypeOK
  <2>3. CASE Broken(c)
    BY <1>1, <1>7, <2>3 DEF Broken, ServerTypeOK
  <2>4. CASE Finish(c)
    <3>1. \E status \in {"accepted", "refused"} : Ends(c, status)
      BY <2>4 DEF Finish
    <3>2. serving' = serving
      BY <2>4 DEF Finish
    <3> QED
      BY <1>1, <1>7, <3>1, <3>2 DEF ServerTypeOK
  <2> QED
    BY <2>1, <2>2, <2>3, <2>4 DEF Server, Serve
<1>9. ClientTypeOK' /\ Alone({})
  BY <1>1, <1>2 DEF clientvars, ClientTypeOK, Alone
<1>10. WireTypeOK' /\ ServerTypeOK'
  BY <1>1, <1>2, <1>3, <1>5, <1>8 DEF WireTypeOK, ServerTypeOK
<1> QED
  BY <1>2, <1>3, <1>5, <1>8, <1>9, <1>10 DEF KcpTypeOK, Elsewhere

-----------------------------------------------------------------------------
(* Who has a connection, after a step that leaves it there, closes it,     *)
(* takes it out of the pool or puts it in.                                 *)
Out(l) == l \in {"conn", "ended"}

LEMMA HeldKept ==
  ASSUME Held, UNCHANGED <<conn, connBuf, spare, closed>>,
         \A q \in Posts : Out(pc'[q]) <=> Out(pc[q])
  PROVE  Held'
<1>1. Pooled' = Pooled
  BY DEF Pooled
<1> QED
  BY <1>1 DEF Held, Out

LEMMA HeldClosed ==
  ASSUME KcpTypeOK, Held, NEW p \in Posts, conn[p] # NoConn, Closes(p),
         UNCHANGED <<connBuf, spare>>, Alone({p}), Out(pc'[p])
  PROVE  Held'
<1>1. Pooled' = Pooled
  BY DEF Pooled
<1>2. conn'[p] = NoConn /\ (\A q \in Posts \ {p} : conn'[q] = conn[q] /\ pc'[q] = pc[q])
  BY DEF KcpTypeOK, ClientTypeOK, Closes, Alone
<1>3. closed' = closed \cup {conn[p]} /\ conn[p] \in Conns /\ NoConn \notin Conns
  BY ClientAssumption DEF KcpTypeOK, ClientTypeOK, Closes
<1>4. Pooled \subseteq Conns /\ closed \subseteq Conns /\ spare # conn[p]
  BY TakeHead, ElementOfSeq, LenProperties
     DEF KcpTypeOK, ClientTypeOK, WireTypeOK, Held, Pooled
<1>5. \A q, r \in Posts : conn'[q] = conn'[r] /\ conn'[q] # NoConn => q = r
  BY <1>2 DEF Held
<1>6. \A q \in Posts : conn'[q] \notin Pooled /\ conn'[q] \notin closed'
  <2> SUFFICES ASSUME NEW q \in Posts
               PROVE  conn'[q] \notin Pooled /\ conn'[q] \notin closed'
    OBVIOUS
  <2>1. CASE q = p
    BY <1>2, <1>3, <1>4, <2>1
  <2>2. CASE q # p
    <3>1. conn[q] # conn[p]
      BY <2>2 DEF Held
    <3> QED
      BY <1>2, <1>3, <2>2, <3>1 DEF Held
  <2> QED
    BY <2>1, <2>2
<1>7. \A q \in Posts : conn'[q] = NoConn <=> pc'[q] \in {"conn", "ended"}
  BY <1>2 DEF Held, Out
<1>8. \A q \in Posts : conn'[q] = spare => spare = NoConn
  BY <1>2 DEF Held
<1>9. spare \notin closed' /\ Pooled \cap closed' = {} /\ spare \notin Pooled
  BY <1>3, <1>4 DEF Held
<1>10. \A i, j \in DOMAIN connBuf : connBuf[i] = connBuf[j] => i = j
  BY DEF Held
<1> QED
  BY <1>1, <1>5, <1>6, <1>7, <1>8, <1>9, <1>10 DEF Held

LEMMA HeldTaken ==
  ASSUME KcpTypeOK, Held, NEW p \in Posts, TakeConn(p)
  PROVE  /\ Held' /\ Head(connBuf) \in Conns /\ Head(connBuf) \in Pooled
         /\ conn'[p] = Head(connBuf) /\ Pooled' \subseteq Pooled
         /\ Head(connBuf) \notin Pooled' /\ Head(connBuf) # spare
<1>1. connBuf \in Seq(Conns) /\ connBuf # << >> /\ connBuf' = Tail(connBuf)
      /\ OnceEach(connBuf) /\ Pooled = Members(connBuf) /\ Pooled' = Members(connBuf')
  BY DEF KcpTypeOK, ClientTypeOK, TakeConn, Held, OnceEach, Pooled, Members
<1>2. PICK c \in Conns : c = Head(connBuf)
  BY <1>1, TakeHead
<1>3. /\ c \in Pooled /\ Pooled' = Pooled \ {c} /\ OnceEach(connBuf')
  BY <1>1, <1>2, TakeHead
<1>4. /\ conn'[p] = c /\ pc'[p] = "ping" /\ pc[p] = "conn" /\ conn[p] = NoConn
      /\ \A q \in Posts \ {p} : conn'[q] = conn[q] /\ pc'[q] = pc[q]
      /\ spare' = spare /\ closed' = closed /\ c # NoConn
  BY <1>2, ClientAssumption DEF KcpTypeOK, ClientTypeOK, TakeConn, At, Goto, Held
<1>5. \A q \in Posts : conn[q] # c
  BY <1>3 DEF Held
<1>6. \A q, r \in Posts : conn'[q] = conn'[r] /\ conn'[q] # NoConn => q = r
  BY <1>4, <1>5 DEF Held
<1>7. \A q \in Posts : /\ conn'[q] \notin Pooled' /\ conn'[q] \notin closed'
                       /\ conn'[q] = NoConn <=> pc'[q] \in {"conn", "ended"}
                       /\ conn'[q] = spare' => spare' = NoConn
  BY <1>3, <1>4 DEF Held
<1>8. spare' \notin Pooled' /\ spare' \notin closed' /\ Pooled' \cap closed' = {}
  BY <1>3, <1>4 DEF Held
<1>9. Held'
  BY <1>3, <1>6, <1>7, <1>8 DEF Held, OnceEach
<1> QED
  BY <1>2, <1>3, <1>4, <1>9 DEF Held

LEMMA HeldPut ==
  ASSUME KcpTypeOK, Held, NEW p \in Posts, Put(p)
  PROVE  Held' /\ conn[p] \in Conns /\ Pooled' = Pooled \cup {conn[p]}
<1>1. PICK c \in Conns : c = conn[p] /\ c # NoConn
  BY HasConn DEF Put, At
<1>2. connBuf \in Seq(Conns) /\ connBuf' = Append(connBuf, c)
      /\ OnceEach(connBuf) /\ Pooled = Members(connBuf) /\ Pooled' = Members(connBuf')
  BY <1>1 DEF KcpTypeOK, ClientTypeOK, Put, Held, OnceEach, Pooled, Members
<1>3. c \notin Pooled /\ c # spare /\ c \notin closed /\ NoConn \notin Conns
  BY <1>1, ClientAssumption DEF Held
<1>4. OnceEach(connBuf') /\ Pooled' = Pooled \cup {c}
  BY <1>2, <1>3, AddLast
<1>5. /\ conn'[p] = NoConn /\ pc'[p] = "ended"
      /\ \A q \in Posts \ {p} : conn'[q] = conn[q] /\ pc'[q] = pc[q] /\ conn[q] # c
      /\ spare' = spare /\ closed' = closed
  BY <1>1 DEF KcpTypeOK, ClientTypeOK, Put, Tells, Goto, wire, Held
<1>6. Pooled \subseteq Conns /\ closed \subseteq Conns
  BY <1>2, ElementOfSeq, LenProperties DEF Pooled, KcpTypeOK, WireTypeOK
<1>7. \A q, r \in Posts : conn'[q] = conn'[r] /\ conn'[q] # NoConn => q = r
  BY <1>5 DEF Held
<1>8. \A q \in Posts : /\ conn'[q] \notin Pooled' /\ conn'[q] \notin closed'
                       /\ conn'[q] = NoConn <=> pc'[q] \in {"conn", "ended"}
                       /\ conn'[q] = spare' => spare' = NoConn
  BY <1>3, <1>4, <1>5, <1>6 DEF Held
<1>9. spare' \notin Pooled' /\ spare' \notin closed' /\ Pooled' \cap closed' = {}
  BY <1>3, <1>4, <1>5 DEF Held
<1>10. Held'
  BY <1>4, <1>7, <1>8, <1>9 DEF Held, OnceEach
<1> QED
  BY <1>1, <1>4, <1>10

LEMMA HeldRefilled ==
  ASSUME KcpTypeOK, Held, Refilled
  PROVE  Held' /\ Pooled' = Pooled \cup {spare} /\ spare' = NoConn /\ spare \in Conns
<1>1. PICK c \in Conns : c = spare /\ c # NoConn
  BY DEF Refilled, KcpTypeOK, ClientTypeOK
<1>2. connBuf \in Seq(Conns) /\ connBuf' = Append(connBuf, c)
      /\ OnceEach(connBuf) /\ Pooled = Members(connBuf) /\ Pooled' = Members(connBuf')
  BY <1>1 DEF KcpTypeOK, ClientTypeOK, Refilled, Held, OnceEach, Pooled, Members
<1>3. c \notin Pooled /\ c \notin closed /\ NoConn \notin Conns
      /\ \A q \in Posts : conn[q] # c
  BY <1>1, ClientAssumption DEF Held
<1>4. OnceEach(connBuf') /\ Pooled' = Pooled \cup {c}
  BY <1>2, <1>3, AddLast
<1>5. conn' = conn /\ pc' = pc /\ closed' = closed /\ spare' = NoConn
  BY DEF Refilled, wire
<1>6. Pooled \subseteq Conns /\ closed \subseteq Conns
  BY <1>2, ElementOfSeq, LenProperties DEF Pooled, KcpTypeOK, WireTypeOK
<1>7. \A q \in Posts : /\ conn[q] \notin Pooled' /\ conn[q] \notin closed
                       /\ conn[q] = NoConn <=> pc[q] \in {"conn", "ended"}
  BY <1>3, <1>4 DEF Held
<1>8. spare' \notin Pooled' /\ spare' \notin closed' /\ Pooled' \cap closed' = {}
  BY <1>3, <1>4, <1>5, <1>6 DEF Held
<1>9. Held'
  BY <1>4, <1>5, <1>7, <1>8 DEF Held, OnceEach
<1> QED
  BY <1>1, <1>4, <1>5, <1>9

LEMMA HeldDialed ==
  ASSUME KcpTypeOK, Held, NEW c \in Conns, Dial(c)
  PROVE  Held' /\ Pooled' = Pooled /\ spare' = c
<1>1. /\ c \notin Pooled /\ \A q \in Posts : conn[q] # c
  BY DEF Dial, Lowest, Unused, InUse
<1>2. /\ spare' = c /\ closed' = closed \ {c}
      /\ pc' = pc /\ conn' = conn /\ connBuf' = connBuf
  BY DEF Dial, Refill
<1>3. Pooled' = Pooled
  BY <1>2 DEF Pooled
<1> QED
  BY <1>1, <1>2, <1>3 DEF Held

(* Every step leaves a connection with one owner.                          *)
LEMMA ClientHeld ==
  ASSUME KcpTypeOK, Held, NEW p \in Posts, Client(p), Alone({p})
  PROVE  Held'
<1>1. ClientTypeOK
  BY DEF KcpTypeOK
<1>2. CASE TakeConn(p)
  BY <1>2, HeldTaken
<1>3. CASE Put(p)
  BY <1>3, HeldPut
<1>4. CASE PingAnswered(p) /\ Head(down[conn[p]]) = "OKAY"
  BY <1>1, <1>4, HeldKept DEF PingAnswered, Goto, At, ClientTypeOK, Alone, Out
<1>5. CASE PingAnswered(p) /\ Head(down[conn[p]]) # "OKAY"
  BY <1>1, <1>5, HasConn, HeldClosed DEF PingAnswered, Goto, At, ClientTypeOK, Out
<1>6. CASE TakeWorker(p) \/ Refuse(p) \/ SendEnd(p) \/ Receive(p)
  BY <1>1, <1>6, HeldKept
     DEF TakeWorker, Refuse, SendEnd, Receive, Unsent, wire, Goto, At, ClientTypeOK, Alone, Out
<1>7. CASE Send(p)
  BY <1>7, HeldKept DEF Send
<1>8. CASE Fail(p)
  BY <1>1, <1>8, HasConn, HeldClosed DEF Fail, Tells, Goto, At, ClientTypeOK, Out
<1>9. CASE GiveBack(p) \/ (LookAtPool(p) /\ Len(connBuf) < Threads - 1)
  BY <1>1, <1>9, HeldKept DEF GiveBack, LookAtPool, wire, Goto, At, ClientTypeOK, Alone, Out
<1>10. CASE LookAtPool(p) /\ ~(Len(connBuf) < Threads - 1)
  BY <1>1, <1>10, HasConn, HeldClosed DEF LookAtPool, Tells, Goto, At, ClientTypeOK, Out
<1> QED
  BY <1>2, <1>3, <1>4, <1>5, <1>6, <1>7, <1>8, <1>9, <1>10 DEF Client, Post

LEMMA GivesUpHeld ==
  ASSUME KcpTypeOK, Held, NEW p \in Posts, PingExpires(p) \/ Expires(p), Alone({p})
  PROVE  Held'
<1>1. CASE PingExpires(p)
  BY <1>1, HasConn, HeldClosed
     DEF PingExpires, KcpTypeOK, ClientTypeOK, Goto, At, Out
<1>2. CASE Expires(p)
  BY <1>2, HeldKept DEF Expires, KcpTypeOK, ClientTypeOK, wire, Goto, Alone, Out
<1> QED
  BY <1>1, <1>2

-----------------------------------------------------------------------------
(* Workers are taken and put back one at a time.                           *)
LEMMA WorkersSame ==
  ASSUME WorkersKept, workers' = workers,
         \A q \in Posts : pc'[q] \in WithWorker <=> pc[q] \in WithWorker
  PROVE  WorkersKept'
<1>1. Working' = Working
  BY DEF Working
<1> QED
  BY <1>1 DEF WorkersKept

(* by a post, *)
LEMMA ClientWorkers ==
  ASSUME KcpTypeOK, WorkersKept, NEW p \in Posts, Client(p), Alone({p})
  PROVE  WorkersKept'
<1>1. /\ ClientTypeOK /\ WithWorker = {"send", "reply", "fail", "give"}
      /\ \A q \in Posts \ {p} : pc'[q] = pc[q]
  BY DEF KcpTypeOK, WithWorker, Alone
<1>2. /\ IsFiniteSet(Working) /\ Cardinality(Working) \in Nat
      /\ workers \in Nat /\ workers + Cardinality(Working) = Threads
  BY FS_CardinalityType, ClientAssumption DEF WorkersKept, KcpTypeOK, ClientTypeOK
<1>3. CASE TakeWorker(p)
  <2>1. Working' = Working \cup {p} /\ p \notin Working /\ workers' = workers - 1
    BY <1>1, <1>3 DEF TakeWorker, At, Goto, ClientTypeOK, Working
  <2>2. IsFiniteSet(Working') /\ Cardinality(Working') = Cardinality(Working) + 1
    BY <1>2, <2>1, FS_AddElement
  <2> QED
    BY <1>2, <2>1, <2>2 DEF WorkersKept
<1>4. CASE Fail(p) \/ GiveBack(p)
  <2>1. Working' = Working \ {p} /\ p \in Working /\ workers' = workers + 1
    BY <1>1, <1>4 DEF Fail, GiveBack, Tells, At, Goto, ClientTypeOK, Working
  <2>2. IsFiniteSet(Working') /\ Cardinality(Working') = Cardinality(Working) - 1
    BY <1>2, <2>1, FS_RemoveElement
  <2> QED
    BY <1>2, <2>1, <2>2 DEF WorkersKept
<1>5. CASE TakeConn(p) \/ PingAnswered(p) \/ Send(p) \/ Refuse(p) \/ SendEnd(p)
             \/ Receive(p) \/ LookAtPool(p) \/ Put(p)
  <2>1. workers' = workers /\ (pc'[p] \in WithWorker <=> pc[p] \in WithWorker)
    BY <1>1, <1>5 DEF TakeConn, PingAnswered, Send, Refuse, SendEnd, Receive, LookAtPool, Put,
                      Unsent, Tells, At, Goto, ClientTypeOK
  <2> QED
    BY <1>1, <2>1, WorkersSame
<1> QED
  BY <1>3, <1>4, <1>5 DEF Client, Post

(* nor lost when it gives up. *)
LEMMA GivesUpWorkers ==
  ASSUME KcpTypeOK, WorkersKept, NEW p \in Posts, PingExpires(p) \/ Expires(p), Alone({p})
  PROVE  WorkersKept'
<1>1. workers' = workers /\ (pc'[p] \in WithWorker <=> pc[p] \in WithWorker)
  BY DEF PingExpires, Expires, At, Goto, KcpTypeOK, ClientTypeOK, WithWorker
<1> QED
  BY <1>1, WorkersSame DEF Alone

-----------------------------------------------------------------------------
(* A step that touches the posts of P and the connection c leaves the rest *)
(* as it found it.                                                         *)
LEMMA Frame ==
  ASSUME KcpTypeOK, WireInv, NEW P \in SUBSET Posts, NEW c, Alone(P), Elsewhere(c),
         \A d \in Conns \ {c} : d \in Pooled' \cup {spare'} => d \in Pooled \cup {spare},
         c \in Conns => Tidy(c)' /\ (c \in Pooled' \cup {spare'} => Empty(c)'),
         \A q \in Posts \ P : c \in Conns /\ conn[q] = c => Finds(q, c)',
         \A q \in P : PostFine(q)'
  PROVE  WireInv'
<1>1. ASSUME NEW d \in Conns \ {c}
      PROVE  /\ Tidy(d)' /\ (Empty(d) => Empty(d)')
             /\ \A q \in Posts \ P : Finds(q, d) => Finds(q, d)'
  <2>1. /\ up'[d] = up[d] /\ down'[d] = down[d] /\ request'[d] = request[d]
        /\ d \in serving' <=> d \in serving
        /\ \A q \in Posts : Taken(q) => Taken(q)'
    BY DEF Elsewhere, Taken
  <2>2. Tidy(d)'
    BY <2>1 DEF WireInv, AllTidy, Tidy
  <2>3. Empty(d) => Empty(d)'
    BY <2>1 DEF Empty
  <2>4. ASSUME NEW q \in Posts \ P, Finds(q, d)
        PROVE  Finds(q, d)'
    <3>1. pc'[q] = pc[q] /\ sent'[q] = sent[q]
      BY DEF Alone
    <3>2. \A n : UnderWay(q, d, n) => UnderWay(q, d, n)'
      BY <2>1 DEF UnderWay
    <3> QED
      BY <2>1, <2>3, <2>4, <3>1, <3>2 DEF Finds, Pinged, Okayed, Dead, UnderWay
  <2> QED
    BY <2>2, <2>3, <2>4
<1>2. AllTidy'
  BY <1>1 DEF AllTidy
<1>3. FreeEmpty'
  BY <1>1 DEF WireInv, FreeEmpty
<1>4. ASSUME NEW q \in Posts \ P
      PROVE  PostFine(q)'
  <2>1. /\ pc'[q] = pc[q] /\ sent'[q] = sent[q] /\ reply'[q] = reply[q]
        /\ conn'[q] = conn[q] /\ PostFine(q) /\ (Taken(q) => Taken(q)')
    BY DEF Alone, WireInv, Elsewhere, Taken
  <2>2. \A d \in Conns : conn'[q] = d => Finds(q, d)'
    BY <1>1, <2>1 DEF PostFine
  <2> QED
    BY <2>1, <2>2 DEF PostFine
<1> QED
  BY <1>2, <1>3, <1>4 DEF WireInv

(* A sequence of one message. *)
LEMMA One ==
  ASSUME NEW m
  PROVE  /\ Append(<< >>, m) = <<m>> /\ <<m>> # << >>
         /\ Head(<<m>>) = m /\ Tail(<<m>>) = << >>
OBVIOUS

(* Every step of a post, *)
LEMMA ClientWire ==
  ASSUME KcpTypeOK, Held, WireInv, NEW p \in Posts, Client(p), Alone({p})
  PROVE  WireInv'
<1>1. /\ WireTypeOK /\ ClientTypeOK /\ ServerTypeOK /\ PostFine(p)
      /\ serving' = serving /\ request' = request /\ ended' = ended
      /\ (Taken(p) => Taken(p)') /\ NoConn \notin Conns
  BY ClientAssumption DEF KcpTypeOK, WireInv, Client, servervars, Taken
<1>2. \A d \in Conns : Tidy(d) /\ (d \in Pooled \cup {spare} => Empty(d))
  BY DEF WireInv, AllTidy, FreeEmpty
<1>3. ASSUME NEW c \in Conns, c = conn[p]
      PROVE  /\ Finds(p, c) /\ (\A q \in Posts \ {p} : conn[q] # c)
             /\ c \notin Pooled \cup {spare} /\ c # NoConn
  BY <1>1, <1>3 DEF PostFine, Held
<1>4. ASSUME wire' = wire, connBuf' = connBuf \/ Put(p),
             spare' = spare, PostFine(p)'
      PROVE  WireInv'
  <2>1. CASE connBuf' = connBuf
    <3>1. Elsewhere(NoConn) /\ Pooled' = Pooled /\ {p} \in SUBSET Posts
      BY <1>1, <1>4, <2>1 DEF wire, Elsewhere, Pooled
    <3> QED
      BY <1>1, <1>4, <3>1, Frame
  <2>2. CASE Put(p)
    <3>1. PICK c \in Conns : c = conn[p]
      BY <2>2, HasConn DEF Put, At
    <3>2. Empty(c)' /\ Tidy(c)'
      BY <1>1, <1>2, <1>3, <1>4, <2>2, <3>1
         DEF Put, At, Finds, wire, Empty, Tidy
    <3>3. Pooled' = Pooled \cup {c}
      BY <2>2, <3>1, HeldPut
    <3>4. Elsewhere(c) /\ {p} \in SUBSET Posts
      BY <1>1, <1>4 DEF wire, Elsewhere
    <3> QED
      BY <1>1, <1>3, <1>4, <3>1, <3>2, <3>3, <3>4, Frame
  <2> QED
    BY <1>4, <2>1, <2>2
<1>5. ASSUME NEW c \in Conns, c = conn[p], Pooled' = Pooled, spare' = spare,
             \A d \in Conns \ {c} : up'[d] = up[d] /\ down'[d] = down[d],
             PostFine(p)', Tidy(c)'
      PROVE  WireInv'
  <2>1. Elsewhere(c) /\ {p} \in SUBSET Posts
    BY <1>1, <1>5 DEF Elsewhere
  <2> QED
    BY <1>3, <1>5, <2>1, Frame
<1>6. CASE TakeConn(p)
  <2>1. PICK c \in Conns : c = Head(connBuf)
    BY <1>6, HeldTaken
  <2>2. /\ Empty(c) /\ c \in Pooled /\ c \notin Pooled' /\ c # spare
        /\ conn'[p] = c /\ Pooled' \subseteq Pooled /\ spare' = spare
        /\ \A q \in Posts : conn[q] # c
    BY <1>2, <1>6, <2>1, HeldTaken DEF TakeConn, Held
  <2>3. /\ up'[c] = <<EOF>> /\ down' = down
        /\ \A d \in Conns \ {c} : up'[d] = up[d]
    BY <1>1, <1>6, <2>1, <2>2, One DEF TakeConn, WireTypeOK, Empty
  <2>4. Tidy(c)' /\ Pinged(c)'
    BY <1>1, <2>2, <2>3 DEF Empty, Tidy, Pinged
  <2>5. pc'[p] = "ping" /\ pc[p] = "conn" /\ sent' = sent /\ reply' = reply
    BY <1>1, <1>6 DEF TakeConn, At, Goto, ClientTypeOK
  <2>6. PostFine(p)'
    BY <1>1, <2>2, <2>4, <2>5 DEF PostFine, Finds
  <2>7. Elsewhere(c) /\ {p} \in SUBSET Posts
    BY <1>1, <2>3 DEF Elsewhere
  <2> QED
    BY <2>2, <2>4, <2>6, <2>7, Frame
<1>7. CASE PingAnswered(p)
  <2>1. PICK c \in Conns : c = conn[p]
    BY <1>7, HasConn DEF PingAnswered, At
  <2>2. Okayed(c)
    BY <1>3, <1>7, <2>1 DEF PingAnswered, Answered, At, Finds, Pinged
  <2>3. /\ pc'[p] = "worker" /\ pc[p] = "ping" /\ down'[c] = << >> /\ conn' = conn
        /\ \A d \in Conns \ {c} : down'[d] = down[d]
        /\ UNCHANGED <<up, sent, reply, connBuf, spare>>
    BY <1>1, <1>7, <2>1, <2>2, One
       DEF PingAnswered, ReadsAnswer, At, Goto, Okayed, ClientTypeOK, WireTypeOK
  <2>4. Empty(c)' /\ Tidy(c)'
    BY <1>1, <2>2, <2>3 DEF Okayed, Empty, Tidy
  <2>5. PostFine(p)'
    BY <1>1, <2>1, <2>3, <2>4 DEF PostFine, Finds
  <2>6. Pooled' = Pooled
    BY <2>3 DEF Pooled
  <2> QED
    BY <1>5, <2>1, <2>3, <2>4, <2>5, <2>6
<1>8. CASE TakeWorker(p)
  <2>1. PICK c \in Conns : c = conn[p]
    BY <1>8, HasConn DEF TakeWorker, At
  <2>2. Empty(c) /\ sent[p] = 0
    BY <1>1, <1>3, <1>8, <2>1 DEF TakeWorker, At, Finds, PostFine
  <2>3. /\ pc'[p] = "send" /\ wire' = wire
        /\ UNCHANGED <<conn, sent, reply, connBuf, spare>>
    BY <1>1, <1>8 DEF TakeWorker, Goto, ClientTypeOK
  <2>4. UnderWay(p, c, sent[p])'
    BY <1>1, <2>2, <2>3, CarriesNone DEF UnderWay, Empty, wire
  <2>5. PostFine(p)'
    BY <1>1, <1>8, <2>1, <2>2, <2>3, <2>4 DEF PostFine, Finds
  <2> QED
    BY <1>4, <2>3, <2>5
<1>9. CASE Send(p)
  <2>1. PICK c \in Conns : c = conn[p]
    BY <1>9, HasConn DEF Send, Unsent, At
  <2>2. /\ pc[p] = "send" /\ sent[p] \in Nat /\ Len(Block[p]) \in Nat
        /\ sent[p] < Len(Block[p]) /\ File(p) = Block[p][sent[p] + 1]
    BY <1>1, <1>9, BlockItems DEF Send, Unsent, At, File, ClientTypeOK
  <2>3. /\ up'[c] = Append(up[c], <<p, File(p)>>) /\ down' = down
        /\ \A d \in Conns \ {c} : up'[d] = up[d]
        /\ sent'[p] = sent[p] + 1
        /\ UNCHANGED <<pc, conn, reply, connBuf, spare>>
    BY <1>1, <1>9, <2>1 DEF Send, Writes, WireTypeOK, ClientTypeOK
  <2>4. Item(p, sent[p] + 1) = <<p, File(p)>>
    BY <2>2 DEF Item
  <2>5. UnderWay(p, c, sent[p]) => UnderWay(p, c, sent[p])'
    <3>1. request[c] \in Blocks /\ up[c] \in Seq(Messages)
      BY <1>1 DEF WireTypeOK, ServerTypeOK
    <3>2. Carries(request[c], up[c], p, sent[p]) =>
            Carries(request[c], Append(up[c], <<p, File(p)>>), p, sent[p] + 1)
      BY <2>2, <2>4, <3>1, CarriesMore
    <3> QED
      BY <1>1, <2>3, <3>2 DEF UnderWay
  <2>6. Dead(c) \/ UnderWay(p, c, sent[p])
    BY <1>3, <2>1, <2>2 DEF Finds
  <2>7. Dead(c) => Dead(c)'
    BY <1>1, <2>3 DEF Dead
  <2>8. Tidy(c)'
    <3>1. c \notin serving => request[c] = << >>
      BY <1>2 DEF Tidy
    <3>2. sent'[p] \in 0 .. Len(Block[p]) + 1
      BY <2>2, <2>3
    <3>3. c \in serving => UnderWay(p, c, sent[p])'
      BY <2>5, <2>6 DEF Dead
    <3>4. c \in serving => Carries(request'[c], up'[c], p, sent'[p])
      BY <3>3 DEF UnderWay
    <3> QED
      BY <1>1, <3>1, <3>2, <3>4 DEF Tidy
  <2>9. PostFine(p)'
    BY <1>1, <2>1, <2>2, <2>3, <2>5, <2>6, <2>7 DEF PostFine, Finds
  <2>10. Pooled' = Pooled
    BY <2>3 DEF Pooled
  <2> QED
    BY <1>5, <2>1, <2>3, <2>8, <2>9, <2>10
<1>10. CASE Refuse(p)
  <2>1. pc'[p] = "fail" /\ wire' = wire /\ UNCHANGED <<conn, sent, reply, connBuf, spare>>
    BY <1>1, <1>10 DEF Refuse, Goto, ClientTypeOK
  <2>2. PostFine(p)'
    BY <1>1, <2>1 DEF PostFine, Finds
  <2> QED
    BY <1>4, <2>1, <2>2
<1>11. CASE SendEnd(p)
  <2>1. PICK c \in Conns : c = conn[p]
    BY <1>11, HasConn DEF SendEnd, At
  <2>2. /\ pc[p] = "send" /\ sent[p] \in Nat /\ Len(Block[p]) \in Nat
        /\ sent[p] = Len(Block[p])
    BY <1>1, <1>11, BlockItems DEF SendEnd, Unsent, At, PostFine, ClientTypeOK
  <2>3. /\ up'[c] = Append(up[c], EOF) /\ down' = down /\ pc'[p] = "reply"
        /\ \A d \in Conns \ {c} : up'[d] = up[d]
        /\ UNCHANGED <<conn, sent, reply, connBuf, spare>>
    BY <1>1, <1>11, <2>1 DEF SendEnd, Writes, Goto, WireTypeOK, ClientTypeOK
  <2>4. Item(p, sent[p] + 1) = EOF
    BY <2>2 DEF Item
  <2>5. UnderWay(p, c, sent[p]) => UnderWay(p, c, Len(Block[p]) + 1)'
    <3>1. request[c] \in Blocks /\ up[c] \in Seq(Messages)
      BY <1>1 DEF WireTypeOK, ServerTypeOK
    <3>2. Carries(request[c], up[c], p, sent[p]) =>
            Carries(request[c], Append(up[c], EOF), p, sent[p] + 1)
      BY <2>2, <2>4, <3>1, CarriesMore
    <3> QED
      BY <1>1, <2>2, <2>3, <3>2 DEF UnderWay
  <2>6. Dead(c) \/ UnderWay(p, c, sent[p])
    BY <1>3, <2>1, <2>2 DEF Finds
  <2>7. Dead(c) => Dead(c)'
    BY <1>1, <2>3 DEF Dead
  <2>8. Tidy(c)'
    <3>1. c \notin serving => request[c] = << >>
      BY <1>2 DEF Tidy
    <3>2. Len(Block[p]) + 1 \in 0 .. Len(Block[p]) + 1
      BY <2>2
    <3>3. c \in serving => UnderWay(p, c, Len(Block[p]) + 1)'
      BY <2>5, <2>6 DEF Dead
    <3>4. c \in serving => Carries(request'[c], up'[c], p, Len(Block[p]) + 1)
      BY <3>3 DEF UnderWay
    <3> QED
      BY <1>1, <3>1, <3>2, <3>4 DEF Tidy
  <2>9. PostFine(p)'
    BY <1>1, <2>1, <2>2, <2>3, <2>5, <2>6, <2>7 DEF PostFine, Finds
  <2>10. Pooled' = Pooled
    BY <2>3 DEF Pooled
  <2> QED
    BY <1>5, <2>1, <2>3, <2>8, <2>9, <2>10
<1>12. CASE Receive(p)
  <2>1. PICK c \in Conns : c = conn[p]
    BY <1>12, HasConn DEF Receive, At
  <2>2. /\ down[c] = <<"FAIL">> \/ (Okayed(c) /\ Taken(p))
        /\ Head(down[c]) = "OKAY" => Okayed(c) /\ Taken(p)
    BY <1>3, <1>12, <2>1, One DEF Receive, Answered, At, Finds, Dead, UnderWay
  <2>3. /\ pc'[p] = IF Head(down[c]) = "OKAY" THEN "give" ELSE "fail"
        /\ pc[p] = "reply" /\ down'[c] = Tail(down[c])
        /\ \A d \in Conns \ {c} : down'[d] = down[d]
        /\ UNCHANGED <<up, conn, sent, reply, connBuf, spare>>
    BY <1>1, <1>12, <2>1 DEF Receive, ReadsAnswer, At, Goto, ClientTypeOK, WireTypeOK
  <2>4. Tidy(c)'
    BY <1>1, <1>2, <2>3 DEF Tidy
  <2>5. Head(down[c]) = "OKAY" => Empty(c)' /\ Taken(p)'
    BY <1>1, <2>2, <2>3, One DEF Okayed, Empty
  <2>6. PostFine(p)'
    BY <1>1, <2>1, <2>3, <2>5 DEF PostFine, Finds
  <2>7. Pooled' = Pooled
    BY <2>3 DEF Pooled
  <2> QED
    BY <1>5, <2>1, <2>3, <2>4, <2>6, <2>7
<1>13. CASE Fail(p)
  <2>1. /\ pc'[p] = "ended" /\ conn'[p] = NoConn /\ reply'[p] = "error"
        /\ UNCHANGED <<up, down, sent, connBuf, spare>>
    BY <1>1, <1>13 DEF Fail, Closes, Tells, Goto, ClientTypeOK
  <2>2. PostFine(p)'
    BY <1>1, <2>1 DEF PostFine
  <2>3. Elsewhere(NoConn) /\ Pooled' = Pooled /\ {p} \in SUBSET Posts
    BY <1>1, <2>1 DEF Elsewhere, Pooled
  <2> QED
    BY <1>1, <2>1, <2>2, <2>3, Frame
<1>14. CASE GiveBack(p) \/ LookAtPool(p)
  <2>1. /\ pc[p] \in {"give", "look"} /\ up' = up /\ down' = down
        /\ \/ pc'[p] \in {"look", "put"} /\ conn' = conn /\ reply' = reply
           \/ pc'[p] = "ended" /\ conn'[p] = NoConn /\ reply'[p] = "ok"
        /\ UNCHANGED <<sent, connBuf, spare>>
    BY <1>1, <1>14 DEF GiveBack, LookAtPool, wire, Closes, Tells, At, Goto, ClientTypeOK
  <2>2. \A d \in Conns : Empty(d) => Empty(d)'
    BY <1>1, <2>1 DEF Empty
  <2>3. PostFine(p)'
    BY <1>1, <2>1, <2>2 DEF PostFine, Finds
  <2>4. Elsewhere(NoConn) /\ Pooled' = Pooled /\ {p} \in SUBSET Posts
    BY <1>1, <2>1 DEF Elsewhere, Pooled
  <2> QED
    BY <1>1, <2>1, <2>3, <2>4, Frame
<1>15. CASE Put(p)
  <2>1. /\ pc[p] = "put" /\ pc'[p] = "ended" /\ conn'[p] = NoConn /\ reply'[p] = "ok"
        /\ wire' = wire /\ UNCHANGED <<sent, spare>>
    BY <1>1, <1>15 DEF Put, Tells, At, Goto, ClientTypeOK
  <2>2. PostFine(p)'
    BY <1>1, <2>1 DEF PostFine
  <2> QED
    BY <1>4, <1>15, <2>1, <2>2
<1> QED
  BY <1>6, <1>7, <1>8, <1>9, <1>10, <1>11, <1>12, <1>13, <1>14, <1>15 DEF Client, Post

(* giving up, *)
LEMMA GivesUpWire ==
  ASSUME KcpTypeOK, WireInv, NEW p \in Posts, PingExpires(p) \/ Expires(p), Alone({p}),
         serving' = serving, request' = request, ended' = ended
  PROVE  WireInv'
<1>1. ClientTypeOK /\ PostFine(p) /\ (Taken(p) => Taken(p)') /\ NoConn \notin Conns
  BY ClientAssumption DEF KcpTypeOK, WireInv, Taken
<1>2. /\ UNCHANGED <<up, down, sent, reply, connBuf, spare>>
      /\ \/ pc'[p] = "conn" /\ pc[p] = "ping" /\ conn'[p] = NoConn
         \/ pc'[p] = "fail" /\ conn' = conn
  BY <1>1 DEF PingExpires, Expires, Closes, wire, At, Goto, ClientTypeOK
<1>3. PostFine(p)'
  BY <1>1, <1>2 DEF PostFine, Finds
<1>4. Elsewhere(NoConn) /\ Pooled' = Pooled /\ {p} \in SUBSET Posts
  BY <1>2 DEF Elsewhere, Pooled
<1> QED
  BY <1>1, <1>2, <1>3, <1>4, Frame

(* the refill loop, *)
LEMMA RefilledWire ==
  ASSUME KcpTypeOK, Held, WireInv, Refilled, UNCHANGED <<servervars, checks>>, Alone({})
  PROVE  WireInv'
<1>1. Pooled' = Pooled \cup {spare} /\ spare' = NoConn /\ NoConn \notin Conns
  BY HeldRefilled, ClientAssumption
<1>2. Elsewhere(NoConn)
  BY DEF Refilled, wire, servervars, Elsewhere
<1> QED
  BY <1>1, <1>2, Frame

(* dialling *)
LEMMA DialWire ==
  ASSUME KcpTypeOK, Held, WireInv, NEW c \in Conns, Dial(c), Alone({}), Elsewhere(c)
  PROVE  WireInv'
<1>1. Empty(c)' /\ Tidy(c)'
  BY DEF Dial, KcpTypeOK, WireTypeOK, ServerTypeOK, Empty, Tidy
<1>2. Pooled' = Pooled /\ spare' = c
  BY HeldDialed
<1>3. \A q \in Posts : conn[q] # c
  BY DEF Dial, Lowest, Unused, InUse
<1> QED
  BY <1>1, <1>2, <1>3, Frame

(* What the loop of a connection does with the next message.               *)
LEMMA ServerDoes ==
  ASSUME KcpTypeOK, NEW c \in Conns, Server(c)
  PROVE  \/ /\ Head(up[c]) # EOF /\ Fine(c)
            /\ request'[c] = Append(request[c], Head(up[c]))
            /\ down'[c] = down[c] /\ c \in serving'
         \/ /\ Head(up[c]) # EOF /\ request'[c] = << >> /\ c \notin serving'
            /\ down'[c] \in {down[c], Append(down[c], "FAIL")}
         \/ /\ Head(up[c]) = EOF /\ request'[c] = << >> /\ c \in serving'
            /\ down'[c] = Append(down[c], "OKAY")
            /\ request[c] # << >> =>
                 \E e \in ended' : /\ e.files = request[c]
                                   /\ e.status \in {"accepted", "refused"}
<1>1. WireTypeOK /\ ServerTypeOK
  BY DEF KcpTypeOK
<1>2. CASE Pass(c)
  BY <1>1, <1>2 DEF Pass, AtFile, ServerTypeOK
<1>3. CASE Reject(c)
  BY <1>1, <1>3 DEF Reject, AtFile, ServerTypeOK
<1>4. CASE Broken(c)
  BY <1>1, <1>4 DEF Broken, AtFile, Ends, Says, ServerTypeOK, WireTypeOK
<1>5. CASE Finish(c)
  <2>1. /\ Head(up[c]) = EOF /\ c \in serving' /\ down'[c] = Append(down[c], "OKAY")
    BY <1>1, <1>5 DEF Finish, AtEnd, Says, WireTypeOK
  <2>2. PICK status \in {"accepted", "refused"} : Ends(c, status)
    BY <1>5 DEF Finish
  <2>3. request'[c] = << >>
    BY <1>1, <2>2 DEF Ends, ServerTypeOK
  <2>4. ASSUME request[c] # << >>
        PROVE  \E e \in ended' : /\ e.files = request[c]
                                 /\ e.status \in {"accepted", "refused"}
    <3>1. [files |-> request[c], status |-> status] \in ended'
      BY <2>2, <2>4 DEF Ends
    <3> QED
      BY <3>1
  <2> QED
    BY <2>1, <2>3, <2>4
<1> QED
  BY <1>2, <1>3, <1>4, <1>5 DEF Server, Serve

(* What it does to a block whose post waits, or to one that nobody waits   *)
(* for.                                                                    *)
LEMMA ServerCarries ==
  ASSUME KcpTypeOK, NEW c \in Conns, Server(c), NEW p \in Posts, NEW n \in Nat,
         Carries(request[c], up[c], p, n)
  PROVE  \/ /\ Carries(request[c], up[c], p, n)' /\ c \in serving'
            /\ down'[c] = down[c]
         \/ /\ c \notin serving' /\ request'[c] = << >>
            /\ down'[c] \in {down[c], Append(down[c], "FAIL")}
         \/ /\ n = Len(Block[p]) + 1 /\ Taken(p)'
            /\ up'[c] = << >> /\ request'[c] = << >>
            /\ down'[c] = Append(down[c], "OKAY")
<1>1. /\ request[c] \in Blocks /\ up[c] \in Seq(Messages)
      /\ up[c] # << >> /\ up'[c] = Tail(up[c])
  BY ServerTyped DEF KcpTypeOK, WireTypeOK, ServerTypeOK
<1>2. /\ Head(up[c]) # EOF =>
           Carries(Append(request[c], Head(up[c])), Tail(up[c]), p, n)
      /\ Head(up[c]) = EOF =>
           /\ n = Len(Block[p]) + 1 /\ Tail(up[c]) = << >>
           /\ request[c] = FilesOf(p) /\ Len(request[c]) = Len(Block[p])
  BY <1>1, CarriesHead
<1>3. Len(request[c]) = Len(Block[p]) /\ Block[p] # << >> => request[c] # << >>
  BY <1>1, BlockItems, EmptySeq
<1>4. CASE Head(up[c]) # EOF
  BY <1>1, <1>2, <1>4, ServerDoes
<1>5. CASE Head(up[c]) = EOF
  <2>1. /\ request'[c] = << >> /\ down'[c] = Append(down[c], "OKAY")
        /\ request[c] # << >> =>
             \E e \in ended' : /\ e.files = request[c]
                               /\ e.status \in {"accepted", "refused"}
    BY <1>5, ServerDoes
  <2>2. Taken(p)'
    BY <1>2, <1>3, <1>5, <2>1 DEF Taken, FilesOf
  <2> QED
    BY <1>1, <1>2, <1>5, <2>1, <2>2
<1> QED
  BY <1>4, <1>5

(* The rest of a block stays tidy, *)
LEMMA ServerTidy ==
  ASSUME KcpTypeOK, NEW c \in Conns, Server(c), Tidy(c)
  PROVE  Tidy(c)'
<1>1. c \in serving /\ up[c] # << >> /\ up'[c] = Tail(up[c])
  BY ServerTyped
<1>2. CASE request[c] = << >> /\ up[c] = <<EOF>>
  BY <1>1, <1>2, One, ServerDoes DEF Tidy
<1>3. CASE \E p \in Posts : \E n \in 0 .. Len(Block[p]) + 1 :
             Carries(request[c], up[c], p, n)
  <2>1. PICK p \in Posts : \E n \in 0 .. Len(Block[p]) + 1 :
          Carries(request[c], up[c], p, n)
    BY <1>3
  <2>2. PICK n \in 0 .. Len(Block[p]) + 1 : Carries(request[c], up[c], p, n)
    BY <2>1
  <2>3. n \in Nat
    BY BlockItems
  <2> QED
    BY <2>2, <2>3, ServerCarries DEF Tidy
<1> QED
  BY <1>1, <1>2, <1>3 DEF Tidy

(* the post that waits finds what it may, *)
LEMMA ServerFinds ==
  ASSUME KcpTypeOK, NEW c \in Conns, Server(c), NEW q \in Posts,
         Finds(q, c), sent[q] <= Len(Block[q]), pc' = pc, sent' = sent
  PROVE  Finds(q, c)'
<1>1. /\ c \in serving /\ up[c] # << >> /\ up'[c] = Tail(up[c])
      /\ sent[q] \in Nat /\ Len(Block[q]) \in Nat
  BY ServerTyped, BlockItems DEF KcpTypeOK, ClientTypeOK
<1>2. CASE pc[q] = "ping"
  <2>1. up[c] = <<EOF>> /\ down[c] = << >> /\ request[c] = << >>
    BY <1>1, <1>2 DEF Finds, Pinged, Okayed
  <2>2. Okayed(c)'
    BY <1>1, <2>1, One, ServerDoes DEF Okayed
  <2> QED
    BY <1>2, <2>2 DEF Finds, Pinged
<1>3. CASE pc[q] = "send"
  <2>1. PICK n \in Nat : n = sent[q] /\ n <= Len(Block[q])
    BY <1>1
  <2>2. down[c] = << >> /\ Carries(request[c], up[c], q, n)
    BY <1>1, <1>3, <2>1 DEF Finds, Dead, UnderWay
  <2>3. \/ Carries(request[c], up[c], q, n)' /\ down'[c] = down[c]
        \/ c \notin serving' /\ down'[c] \in {down[c], Append(down[c], "FAIL")}
        \/ n = Len(Block[q]) + 1
    BY <2>2, ServerCarries
  <2>4. \/ Carries(request[c], up[c], q, n)' /\ down'[c] = << >>
        \/ c \notin serving' /\ down'[c] \in {<< >>, <<"FAIL">>}
    BY <1>1, <2>1, <2>2, <2>3, One
  <2> QED
    BY <1>3, <2>1, <2>4 DEF Finds, Dead, UnderWay
<1>4. CASE pc[q] = "reply"
  <2>1. down[c] = << >> /\ Carries(request[c], up[c], q, Len(Block[q]) + 1)
    BY <1>1, <1>4 DEF Finds, Dead, UnderWay, Okayed
  <2>2. PICK n \in Nat : n = Len(Block[q]) + 1
    BY <1>1
  <2>3. Carries(request[c], up[c], q, n)
    BY <2>1, <2>2
  <2>4. \/ Carries(request[c], up[c], q, n)' /\ down'[c] = down[c]
        \/ c \notin serving' /\ down'[c] \in {down[c], Append(down[c], "FAIL")}
        \/ /\ Taken(q)' /\ up'[c] = << >> /\ request'[c] = << >>
           /\ down'[c] = Append(down[c], "OKAY")
    BY <2>3, ServerCarries
  <2>5. \/ Carries(request[c], up[c], q, n)' /\ down'[c] = << >>
        \/ c \notin serving' /\ down'[c] \in {<< >>, <<"FAIL">>}
        \/ Okayed(c)' /\ Taken(q)'
    BY <2>1, <2>4, One DEF Okayed
  <2> QED
    BY <1>4, <2>2, <2>5 DEF Finds, Dead, UnderWay
<1>5. CASE pc[q] \notin {"ping", "send", "reply"}
  BY <1>1, <1>5 DEF Finds, Empty
<1> QED
  BY <1>2, <1>3, <1>4, <1>5

(* and the loop keeps the invariant. *)
LEMMA ServerWire ==
  ASSUME KcpTypeOK, WireInv, NEW c \in Conns, Server(c)
  PROVE  WireInv'
<1>1. /\ Alone({}) /\ Elsewhere(c) /\ up[c] # << >>
      /\ pc' = pc /\ sent' = sent /\ spare' = spare /\ Pooled' = Pooled
  BY ServerTyped DEF clientvars, Pooled
<1>2. Tidy(c)' /\ c \notin Pooled \cup {spare}
  BY <1>1, ServerTidy DEF WireInv, AllTidy, FreeEmpty, Empty
<1>3. \A q \in Posts : conn[q] = c => Finds(q, c)'
  BY <1>1, ServerFinds DEF WireInv, PostFine
<1> QED
  BY <1>1, <1>2, <1>3, Frame

-----------------------------------------------------------------------------
(* The invariant.                                                          *)
KcpInvariant == KcpTypeOK /\ Held /\ WireInv /\ WorkersKept

LEMMA InitHolds ==
  ASSUME Init
  PROVE  KcpInvariant
<1>1. /\ Threads \in Nat \ {0} /\ 1 .. Threads \subseteq Conns /\ NoConn \notin Conns
      /\ Capacity = Threads + Slack /\ Slack \in Nat
  BY ClientAssumption DEF Capacity
<1>2. /\ pc = [p \in Posts |-> "conn"] /\ conn = [p \in Posts |-> NoConn]
      /\ sent = [p \in Posts |-> 0] /\ reply = [p \in Posts |-> "none"]
      /\ connBuf = [i \in 1 .. Threads |-> i] /\ workers = Threads
      /\ seen = NoLook /\ spare = NoConn /\ closed = {} /\ checks \in Checkers
      /\ up = [c \in Conns |-> << >>] /\ down = [c \in Conns |-> << >>]
      /\ request = [c \in Conns |-> << >>] /\ ended = {} /\ serving \in SUBSET Pooled
  BY DEF Init, ClientInit, ServerInit
<1>3. /\ connBuf \in Seq(Conns) /\ DOMAIN connBuf = 1 .. Threads
      /\ Len(connBuf) = Threads
      /\ \A i \in DOMAIN connBuf : connBuf[i] = i
  <2>1. connBuf \in [1 .. Threads -> Conns]
    BY <1>1, <1>2
  <2>2. connBuf \in Seq(Conns)
    BY <1>1, <2>1, SeqDef
  <2>3. DOMAIN connBuf = 1 .. Len(connBuf) /\ Len(connBuf) \in Nat
    BY <2>2, LenProperties
  <2>4. DOMAIN connBuf = 1 .. Threads /\ \A i \in DOMAIN connBuf : connBuf[i] = i
    BY <1>2
  <2>5. PICK n \in Nat : n = Len(connBuf)
    BY <2>3
  <2>6. n = Threads
    <3>1. 1 .. n = 1 .. Threads
      BY <2>3, <2>4, <2>5
    <3>2. Threads \in 1 .. n
      BY <1>1, <3>1
    <3>3. n # 0 => n \in 1 .. n
      OBVIOUS
    <3> QED
      BY <1>1, <2>5, <3>1, <3>2, <3>3
  <2> QED
    BY <2>2, <2>4, <2>5, <2>6
<1>4. Pooled \subseteq Conns
  BY <1>1, <1>3 DEF Pooled
<1>5. WireTypeOK /\ ServerTypeOK
  BY <1>2, <1>4, EmptySeq DEF WireTypeOK, ServerTypeOK, Blocks
<1>6. ClientTypeOK
  <2>1. Len(connBuf) <= Capacity /\ workers \in 0 .. Threads
    BY <1>1, <1>2, <1>3
  <2> QED
    BY <1>2, <1>3, <2>1 DEF ClientTypeOK
<1>7. Held
  BY <1>1, <1>2, <1>3, <1>4 DEF Held
<1>8. WireInv
  <2>1. FreeEmpty /\ AllTidy
    BY <1>2 DEF FreeEmpty, Empty, AllTidy, Tidy
  <2>2. \A p \in Posts : PostFine(p)
    BY <1>1, <1>2, BlockItems DEF PostFine
  <2> QED
    BY <2>1, <2>2 DEF WireInv
<1>9. WorkersKept
  <2>1. Working = {}
    BY <1>2 DEF Working, WithWorker
  <2>2. IsFiniteSet(Working) /\ Cardinality(Working) = 0
    BY <2>1, FS_EmptySet
  <2> QED
    BY <1>1, <1>2, <2>2 DEF WorkersKept
<1> QED
  BY <1>5, <1>6, <1>7, <1>8, <1>9 DEF KcpInvariant, KcpTypeOK

(* Every step keeps it, *)
LEMMA StepKeepsInvariant ==
  ASSUME KcpInvariant, [Next]_vars
  PROVE  KcpInvariant'
<1>1. KcpTypeOK /\ Held /\ WireInv /\ WorkersKept
  BY DEF KcpInvariant
<1>2. ASSUME NEW p \in Posts, Client(p)
      PROVE  KcpInvariant'
  <2>1. KcpTypeOK' /\ Alone({p})
    BY <1>1, <1>2, ClientTyped
  <2> QED
    BY <1>1, <1>2, <2>1, ClientHeld, ClientWire, ClientWorkers DEF KcpInvariant
<1>3. ASSUME NEW p \in Posts, GivesUp(p)
      PROVE  KcpInvariant'
  <2>1. /\ KcpTypeOK' /\ Alone({p}) /\ (PingExpires(p) \/ Expires(p))
        /\ serving' = serving /\ request' = request /\ ended' = ended
    BY <1>1, <1>3, GivesUpTyped
  <2> QED
    BY <1>1, <1>3, <2>1, GivesUpHeld, GivesUpWire, GivesUpWorkers DEF KcpInvariant
<1>4. CASE Loop
  <2>1. CASE Refilled
    <3>1. UNCHANGED <<servervars, checks>>
      BY <1>4 DEF Loop
    <3>2. WorkersKept'
      BY <1>1, <2>1, WorkersSame DEF Refilled
    <3> QED
      BY <1>1, <2>1, <3>1, <3>2, RefilledTyped, HeldRefilled, RefilledWire DEF KcpInvariant
  <2>2. CASE Look \/ Sleep(Unused # {})
    <3>1. KcpTypeOK' /\ Alone({})
      BY <1>1, <1>4, <2>2, LoopTyped DEF Loop
    <3>2. Held' /\ WorkersKept'
      BY <1>1, <2>2, HeldKept, WorkersSame DEF Look, Sleep, wire
    <3>3. Elsewhere(NoConn) /\ Pooled' = Pooled /\ spare' = spare
      BY <1>4, <2>2 DEF Loop, Look, Sleep, wire, servervars, Elsewhere, Pooled
    <3>4. WireInv'
      BY <1>1, <3>1, <3>3, Frame, ClientAssumption
    <3> QED
      BY <3>1, <3>2, <3>4 DEF KcpInvariant
  <2> QED
    BY <1>4, <2>1, <2>2 DEF Loop
<1>5. ASSUME NEW c \in Conns, Server(c)
      PROVE  KcpInvariant'
  <2>1. KcpTypeOK' /\ UNCHANGED <<closed, clientvars>>
    BY <1>1, <1>5, ServerTyped
  <2>2. Held' /\ WorkersKept'
    BY <1>1, <2>1, HeldKept, WorkersSame DEF clientvars
  <2> QED
    BY <1>1, <1>5, <2>1, <2>2, ServerWire DEF KcpInvariant
<1>6. ASSUME NEW c \in Conns, Dial(c)
      PROVE  KcpInvariant'
  <2>1. KcpTypeOK' /\ Alone({}) /\ Elsewhere(c)
    BY <1>1, <1>6, DialTyped
  <2>2. WorkersKept'
    BY <1>1, <1>6, WorkersSame DEF Dial, Refill
  <2> QED
    BY <1>1, <1>6, <2>1, <2>2, HeldDialed, DialWire DEF KcpInvariant
<1>7. CASE UNCHANGED vars
  <2>1. KcpTypeOK'
    BY <1>1, <1>7 DEF vars, wire, clientvars, servervars, KcpTypeOK, WireTypeOK,
                      ClientTypeOK, ServerTypeOK
  <2>2. Held' /\ WorkersKept'
    BY <1>1, <1>7, HeldKept, WorkersSame DEF vars, wire, clientvars
  <2>3. Alone({}) /\ Elsewhere(NoConn) /\ Pooled' = Pooled /\ spare' = spare
    BY <1>7 DEF vars, wire, clientvars, servervars, Alone, Elsewhere, Pooled
  <2>4. WireInv'
    BY <1>1, <2>3, Frame, ClientAssumption
  <2> QED
    BY <2>1, <2>2, <2>4 DEF KcpInvariant
<1> QED
  BY <1>2, <1>3, <1>4, <1>5, <1>6, <1>7 DEF Next

(* and so it holds throughout. *)
LEMMA Invariance == Spec => []KcpInvariant
<1>1. Init => KcpInvariant
  BY InitHolds
<1>2. KcpInvariant /\ [Next]_vars => KcpInvariant'
  BY StepKeepsInvariant
<1> QED
  BY <1>1, <1>2, PTL DEF Spec

-----------------------------------------------------------------------------
(* Both programs keep their types, and the pool its capacity: connBuf and  *)
(* worker are channels that nothing is put into beyond it.                 *)
THEOREM LinkTypes == Spec => []KcpTypeOK
<1>1. KcpInvariant => KcpTypeOK
  BY DEF KcpInvariant
<1> QED
  BY <1>1, Invariance, PTL

(* A POST that is answered 200 had all of its FlowFiles in one HTTP POST   *)
(* at the other end: the OKAY that Receive reads is that of Finish for the *)
(* same block.                                                             *)
THEOREM OkIsDeserved == Spec => []OkIsForItsBlock
<1>1. KcpInvariant => OkIsForItsBlock
  <2> SUFFICES ASSUME KcpInvariant, NEW p \in Posts, reply[p] = "ok", Block[p] # << >>
               PROVE  Statuses(p) \cap {"accepted", "refused"} # {}
    BY DEF OkIsForItsBlock
  <2>1. PICK e \in ended : e.files = FilesOf(p) /\ e.status \in {"accepted", "refused"}
    BY DEF KcpInvariant, WireInv, PostFine, Taken
  <2>2. e.status \in Statuses(p)
    BY <2>1 DEF Statuses
  <2> QED
    BY <2>1, <2>2
<1> QED
  BY <1>1, Invariance, PTL

(* An HTTP POST never holds FlowFiles of two blocks: Pass adds to what the *)
(* same block began, for connections are clean when they change hands.     *)
THEOREM NoBlocksMixed == Spec => []BlocksApart
<1>1. KcpInvariant => BlocksApart
  <2> SUFFICES ASSUME KcpInvariant, NEW c \in Conns, request[c] # << >>
               PROVE  \E p \in Posts : \E n \in 1 .. Len(Block[p]) :
                        request[c] = SubSeq(FilesOf(p), 1, n)
    BY DEF BlocksApart
  <2>1. PICK p \in Posts : \E n \in 0 .. Len(Block[p]) + 1 :
          Carries(request[c], up[c], p, n)
    BY DEF KcpInvariant, WireInv, AllTidy, Tidy
  <2>2. request[c] \in Blocks
    BY DEF KcpInvariant, KcpTypeOK, ServerTypeOK
  <2> QED
    BY <2>1, <2>2, CarriesPrefix
<1> QED
  BY <1>1, Invariance, PTL

(* The pool holds open connections, each once, that nobody else has and    *)
(* that carry nothing: what posts put back (Put), and what the refill loop *)
(* dials.                                                                  *)
THEOREM PoolStaysClean == Spec => []PoolIsClean
<1>1. KcpInvariant => PoolIsClean
  <2> SUFFICES ASSUME KcpInvariant PROVE PoolIsClean
    OBVIOUS
  <2>1. connBuf \in Seq(Conns)
    BY DEF KcpInvariant, KcpTypeOK, ClientTypeOK
  <2>2. Pooled \subseteq Conns
    BY <2>1, ElementOfSeq, LenProperties DEF Pooled
  <2> QED
    BY <2>2 DEF KcpInvariant, Held, WireInv, FreeEmpty, Empty, PoolIsClean
<1> QED
  BY <1>1, Invariance, PTL

(* No worker is lost or made up, whatever way a post ends.                 *)
THEOREM NoWorkerLost == Spec => []WorkersAccounted
<1>1. KcpInvariant => WorkersAccounted
  BY DEF KcpInvariant, WorkersKept, Working, WorkersAccounted
<1> QED
  BY <1>1, Invariance, PTL

-----------------------------------------------------------------------------
(* Verification at either end. *)
LEMMA SentStays ==
  ASSUME KcpTypeOK, SentVerified, NEW c \in Conns, NEW m,
         \A d \in Conns \ {c} : up'[d] = up[d],
         \/ up'[c] = << >>
         \/ up'[c] = Append(up[c], m) /\ m \in Messages
         \/ up[c] # << >> /\ up'[c] = Tail(up[c]),
         checks' = checks, "client" \in checks /\ m # EOF => Passes(m[2])
  PROVE  SentVerified'
<1> SUFFICES ASSUME "client" \in checks, NEW d \in Conns, NEW i \in DOMAIN up'[d],
                    up'[d][i] # EOF
             PROVE  Passes(up'[d][i][2])
  BY DEF SentVerified, Passes
<1>1. up[d] \in Seq(Messages) /\ DOMAIN up[d] = 1 .. Len(up[d]) /\ Len(up[d]) \in Nat
  BY LenProperties DEF KcpTypeOK, WireTypeOK
<1>2. \A j \in DOMAIN up[d] : up[d][j] # EOF => Passes(up[d][j][2])
  BY DEF SentVerified
<1>3. CASE d # c
  BY <1>2, <1>3
<1>4. CASE d = c /\ up'[c] = << >>
  BY <1>4
<1>5. CASE d = c /\ up'[c] = Append(up[c], m) /\ m \in Messages
  <2>1. /\ DOMAIN up'[d] = 1 .. Len(up[d]) + 1 /\ up'[d][Len(up[d]) + 1] = m
        /\ \A j \in 1 .. Len(up[d]) : up'[d][j] = up[d][j]
    <3>1. /\ Append(up[d], m) \in Seq(Messages) /\ Len(Append(up[d], m)) = Len(up[d]) + 1
          /\ Append(up[d], m)[Len(up[d]) + 1] = m
          /\ \A j \in 1 .. Len(up[d]) : Append(up[d], m)[j] = up[d][j]
      BY <1>1, <1>5, AppendProperties
    <3>2. DOMAIN Append(up[d], m) = 1 .. Len(Append(up[d], m))
      BY <3>1, LenProperties
    <3> QED
      BY <1>5, <3>1, <3>2
  <2>2. CASE i = Len(up[d]) + 1
    BY <2>1, <2>2
  <2>3. CASE i \in 1 .. Len(up[d])
    BY <1>1, <1>2, <2>1, <2>3
  <2> QED
    BY <1>1, <2>1, <2>2, <2>3
<1>6. CASE d = c /\ up[c] # << >> /\ up'[c] = Tail(up[c])
  <2>1. /\ Tail(up[d]) \in Seq(Messages) /\ Len(Tail(up[d])) = Len(up[d]) - 1
        /\ \A j \in 1 .. Len(Tail(up[d])) : Tail(up[d])[j] = up[d][j + 1]
    BY <1>1, <1>6, HeadTailProperties
  <2>2. DOMAIN Tail(up[d]) = 1 .. Len(Tail(up[d]))
    BY <2>1, LenProperties
  <2>3. i \in 1 .. Len(Tail(up[d])) /\ i + 1 \in DOMAIN up[d] /\ up'[d][i] = up[d][i + 1]
    BY <1>1, <1>6, <2>1, <2>2
  <2> QED
    BY <1>2, <2>3
<1> QED
  BY <1>3, <1>4, <1>5, <1>6

(* A post sends what passes, *)
LEMMA ClientVerified ==
  ASSUME KcpTypeOK, Held, SentVerified, OnlyVerifiedPassed, NEW p \in Posts, Client(p)
  PROVE  SentVerified' /\ OnlyVerifiedPassed'
<1>1. WireTypeOK /\ ClientTypeOK /\ EOF \in Messages
  BY DEF KcpTypeOK, Messages
<1>2. OnlyVerifiedPassed' /\ checks' = checks
  BY DEF Client, servervars, OnlyVerifiedPassed, Passes
<1>3. CASE TakeConn(p)
  <2>1. PICK c \in Conns : c = Head(connBuf)
    BY <1>3, HeldTaken
  <2>2. up'[c] = Append(up[c], EOF) /\ \A d \in Conns \ {c} : up'[d] = up[d]
    BY <1>1, <1>3, <2>1 DEF TakeConn, WireTypeOK
  <2> QED
    BY <1>1, <1>2, <2>2, SentStays
<1>4. CASE Send(p)
  <2>1. PICK c \in Conns : c = conn[p]
    BY <1>4, HasConn DEF Send, Unsent, At
  <2>2. PICK m : m = <<p, File(p)>>
    OBVIOUS
  <2>3. up'[c] = Append(up[c], m) /\ \A d \in Conns \ {c} : up'[d] = up[d]
    BY <1>1, <1>4, <2>1, <2>2 DEF Send, Writes, WireTypeOK
  <2>4. "client" \in checks => Passes(m[2])
    BY <1>4, <2>2 DEF Send, Fit
  <2>5. m \in Messages
    <3>1. sent[p] + 1 \in 1 .. Len(Block[p])
      BY <1>1, <1>4, BlockItems DEF Send, Unsent, ClientTypeOK
    <3> QED
      BY <2>2, <3>1, BlockItems DEF File, Messages
  <2> QED
    BY <1>2, <2>3, <2>4, <2>5, SentStays
<1>5. CASE SendEnd(p)
  <2>1. PICK c \in Conns : c = conn[p]
    BY <1>5, HasConn DEF SendEnd, At
  <2>2. up'[c] = Append(up[c], EOF) /\ \A d \in Conns \ {c} : up'[d] = up[d]
    BY <1>1, <1>5, <2>1 DEF SendEnd, Writes, WireTypeOK
  <2> QED
    BY <1>1, <1>2, <2>2, SentStays
<1>6. CASE up' = up
  BY <1>2, <1>6 DEF SentVerified, Passes
<1> QED
  BY <1>3, <1>4, <1>5, <1>6 DEF Client, Post, PingAnswered, TakeWorker, Refuse, Receive,
                                Fail, GiveBack, LookAtPool, Put, wire

(* and the loop passes on what passes. *)
LEMMA ServerVerified ==
  ASSUME KcpTypeOK, SentVerified, OnlyVerifiedPassed, NEW c \in Conns, Server(c)
  PROVE  SentVerified' /\ OnlyVerifiedPassed'
<1>1. /\ Elsewhere(c) /\ up[c] # << >> /\ up'[c] = Tail(up[c])
      /\ up[c] \in Seq(Messages) /\ request[c] \in Blocks
  BY ServerTyped DEF KcpTypeOK, WireTypeOK, ServerTypeOK
<1>2. checks' = checks /\ ("client" \in checks \/ "server" \in checks \/ checks = {})
  BY KcpAssumption DEF KcpTypeOK, WireTypeOK, Server
<1>3. SentVerified'
  <2>1. \A d \in Conns \ {c} : up'[d] = up[d]
    BY <1>1 DEF Elsewhere
  <2> QED
    BY <1>1, <1>2, <2>1, SentStays
<1>4. OnlyVerifiedPassed'
  <2> SUFFICES ASSUME checks # {}, NEW d \in Conns,
                      NEW i \in DOMAIN request'[d]
               PROVE  Passes(request'[d][i][2])
    BY <1>2 DEF OnlyVerifiedPassed, Passes
  <2>1. \A j \in DOMAIN request[d] : Passes(request[d][j][2])
    BY DEF OnlyVerifiedPassed
  <2>2. CASE d # c
    BY <1>1, <2>1, <2>2 DEF Elsewhere
  <2>3. CASE d = c /\ request'[c] = << >>
    BY <2>3
  <2>4. CASE d = c /\ Head(up[c]) # EOF /\ Fine(c)
               /\ request'[c] = Append(request[c], Head(up[c]))
    <3>1. Head(up[c]) \in Posts \X FlowFiles /\ Passes(Head(up[c])[2])
      <4>1. Head(up[c]) \in Messages /\ 1 \in DOMAIN up[c] /\ up[c][1] = Head(up[c])
        BY <1>1, HeadTailProperties, LenProperties, EmptySeq
      <4> QED
        BY <1>2, <2>4, <4>1 DEF Messages, SentVerified, Fine
    <3>2. /\ Append(request[c], Head(up[c])) \in Blocks
          /\ Len(Append(request[c], Head(up[c]))) = Len(request[c]) + 1
          /\ Append(request[c], Head(up[c]))[Len(request[c]) + 1] = Head(up[c])
          /\ \A j \in 1 .. Len(request[c]) :
               Append(request[c], Head(up[c]))[j] = request[c][j]
      BY <1>1, <3>1, AppendProperties DEF Blocks
    <3>3. /\ DOMAIN request'[d] = 1 .. Len(request[c]) + 1
          /\ DOMAIN request[c] = 1 .. Len(request[c]) /\ Len(request[c]) \in Nat
      BY <1>1, <2>4, <3>2, LenProperties DEF Blocks
    <3>4. CASE i = Len(request[c]) + 1
      BY <2>4, <3>1, <3>2, <3>4
    <3>5. CASE i \in 1 .. Len(request[c])
      BY <2>1, <2>4, <3>2, <3>3, <3>5
    <3> QED
      BY <3>3, <3>4, <3>5
  <2> QED
    BY <2>2, <2>3, <2>4, ServerDoes
<1> QED
  BY <1>3, <1>4

(* Where either program verifies, nothing that fails is passed on: a       *)
(* FlowFile is verified before it is sent (Send) or before it is passed on *)
(* (Pass), and what follows a failure on the connection is not read.       *)
THEOREM VerifiedIfEitherChecks == Spec => []OnlyVerifiedPassed
<1>1. Init => SentVerified /\ OnlyVerifiedPassed
  BY DEF Init, ServerInit, SentVerified, OnlyVerifiedPassed
<1>2. /\ KcpInvariant /\ SentVerified /\ OnlyVerifiedPassed /\ [Next]_vars
      => SentVerified' /\ OnlyVerifiedPassed'
  <2> SUFFICES ASSUME KcpInvariant, SentVerified, OnlyVerifiedPassed, [Next]_vars
               PROVE  SentVerified' /\ OnlyVerifiedPassed'
    OBVIOUS
  <2>1. KcpTypeOK /\ Held
    BY DEF KcpInvariant
  <2>2. ASSUME NEW p \in Posts, Client(p)
        PROVE  SentVerified' /\ OnlyVerifiedPassed'
    BY <2>1, <2>2, ClientVerified
  <2>3. ASSUME NEW c \in Conns, Server(c)
        PROVE  SentVerified' /\ OnlyVerifiedPassed'
    BY <2>1, <2>3, ServerVerified
  <2>4. ASSUME NEW c \in Conns, Dial(c)
        PROVE  SentVerified' /\ OnlyVerifiedPassed'
    <3>1. /\ up'[c] = << >> /\ request'[c] = << >> /\ checks' = checks
          /\ \A d \in Conns \ {c} : up'[d] = up[d] /\ request'[d] = request[d]
      BY <2>1, <2>4 DEF Dial, KcpTypeOK, WireTypeOK, ServerTypeOK
    <3>2. SentVerified'
      BY <3>1 DEF SentVerified, Passes
    <3>3. OnlyVerifiedPassed'
      BY <3>1 DEF OnlyVerifiedPassed, Passes
    <3> QED
      BY <3>2, <3>3
  <2>5. CASE up' = up /\ request' = request /\ checks' = checks
    BY <2>5 DEF SentVerified, OnlyVerifiedPassed, Passes
  <2>6. ASSUME NEW p \in Posts, GivesUp(p)
        PROVE  up' = up /\ request' = request /\ checks' = checks
    BY <2>6 DEF GivesUp, PingExpires, Expires, wire, servervars
  <2>7. Loop \/ UNCHANGED vars => up' = up /\ request' = request /\ checks' = checks
    BY DEF Loop, Look, Refilled, Sleep, vars, wire, servervars
  <2> QED
    BY <2>2, <2>3, <2>4, <2>5, <2>6, <2>7 DEF Next
<1> QED
  BY <1>1, <1>2, Invariance, PTL DEF Spec
===============================================================================
