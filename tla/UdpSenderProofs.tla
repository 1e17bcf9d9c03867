---------------------------- MODULE UdpSenderProofs ----------------------------
(***************************************************************************)
(* The sender is safe for every set of FlowFiles, of workers and of send   *)
(* slots, whatever clients post, again or not, and whenever they hang up.  *)
(***************************************************************************)
EXTENDS UdpSender, FunctionTheorems, FiniteSetTheorems, SequenceTheorems, TLAPS

-----------------------------------------------------------------------------
(* Workers: who has one, and that nobody else has it.                      *)
Holding == {"buffer", "stuck", "thread", "send1", "send2"}

HoldersHold == \A f \in Posts : worker[f] # NoPort <=> pc[f] \in Holding

Idle(p) == \E i \in DOMAIN workers : workers[i] = p

WorkersApart ==
  /\ \A i, j \in DOMAIN workers : workers[i] = workers[j] => i = j
  /\ \A f, g \in Posts : worker[f] = worker[g] /\ worker[f] # NoPort => f = g
  /\ \A f \in Posts : ~Idle(worker[f])
  /\ \A p \in Ports : Idle(p) \/ \E f \in Posts : worker[f] = p

(* Send slots are held by those who send. *)
SlotsHeld ==
  /\ IsFiniteSet(sends)
  /\ \A f \in Posts : f \in sends <=> Sending(f)

(* Packets start where a pass puts them, and only what was verified gets   *)
(* as far as that.                                                         *)
OffsetsOnGrid == \A f \in Posts : off[f] \in PassOffsets(f)

CheckedFirst ==
  \A f \in Posts : pc[f] \in {"thread", "send1", "send2"} => Verified(f)

(* What a port was sent last is of the FlowFile that holds it.             *)
HolderSentLast ==
  \A f \in Posts : worker[f] # NoPort =>
    LET sent == net[worker[f]]
    IN  sent # << >> /\ sent[Len(sent)].post = f

(* A packet was put on the wire of p, and twice.                           *)
Once(p, pkt) == \E i \in DOMAIN net[p] : net[p][i] = pkt
Twice(p, pkt) ==
  \E i, j \in DOMAIN net[p] : i # j /\ net[p][i] = pkt /\ net[p][j] = pkt

FirstPass(f) ==
  \A o \in PassOffsets(f) : o < off[f] => Once(worker[f], Chunk(f, o))
SecondPass(f) ==
  \A o \in PassOffsets(f) :
    /\ Once(worker[f], Chunk(f, o))
    /\ o < off[f] => Twice(worker[f], Chunk(f, o))
BothPasses(f) ==
  \E p \in Ports : \A o \in PassOffsets(f) : Twice(p, Chunk(f, o))

Counted(f) ==
  /\ pc[f] = "send1" => FirstPass(f)
  /\ pc[f] = "send2" => SecondPass(f)
  /\ reply[f] = "ok" /\ isOpen[f] => BothPasses(f)

PassesCounted == \A f \in Posts : Counted(f)

SenderInv ==
  /\ SenderTypeOK
  /\ HoldersHold /\ WorkersApart /\ SlotsHeld
  /\ OffsetsOnGrid /\ CheckedFirst

-----------------------------------------------------------------------------
(* The offsets of a pass.                                                  *)
LEMMA Multiples ==
  ASSUME NEW M \in Nat, M >= 2, NEW e \in Nat, NEW k \in 0 .. e \div M
  PROVE  /\ M * k \in Nat /\ M * k <= e
         /\ M * k + M = M * (k + 1)
         /\ M * k + M <= e => k + 1 \in 0 .. e \div M
<1>1. e \div M \in Nat /\ M * (e \div M) <= e /\ e < M * (e \div M) + M
  OBVIOUS
<1>2. k \in Nat /\ k <= e \div M
  BY <1>1
<1>3. M * k \in Nat /\ M * k <= M * (e \div M) /\ M * k + M = M * (k + 1)
  BY <1>1, <1>2
<1>4. k = e \div M => M * k + M > e
  BY <1>1
<1> QED
  BY <1>1, <1>2, <1>3, <1>4

(* Two multiples less than one step apart. *)
LEMMA MultiplesApart ==
  ASSUME NEW M \in Nat, M >= 2, NEW j \in Nat, NEW k \in Nat, M * j < M * k + M
  PROVE  M * j <= M * k
<1>1. k < j => M * k + M <= M * j
  OBVIOUS
<1>2. j <= k => M * j <= M * k
  OBVIOUS
<1> QED
  BY <1>1, <1>2

LEMMA Grid ==
  ASSUME NEW f \in Posts
  PROVE  /\ Mtu \in Nat /\ Mtu >= 2
         /\ EncodedLen(f) \in Nat \ {0}
         /\ 0 \in PassOffsets(f)
         /\ \A o \in PassOffsets(f) :
              /\ o \in Nat /\ o <= EncodedLen(f)
              /\ Chunk(f, o) \in Packets
              /\ o + Mtu <= EncodedLen(f) => o + Mtu \in PassOffsets(f)
         /\ \A o, q \in PassOffsets(f) : o < q + Mtu => o <= q
<1>1. Mtu \in Nat /\ Mtu >= 2 /\ EncodedLen(f) \in Nat \ {0}
  BY LengthAssumption DEF EncodedLen, SentHeaderLen
<1>2. EncodedLen(f) \div Mtu \in Nat /\ Mtu * 0 = 0
  BY <1>1
<1>3. 0 \in PassOffsets(f)
  BY <1>2 DEF PassOffsets
<1>4. ASSUME NEW o \in PassOffsets(f)
      PROVE  /\ o \in Nat /\ o <= EncodedLen(f)
             /\ o + Mtu <= EncodedLen(f) => o + Mtu \in PassOffsets(f)
  <2>1. PICK k \in 0 .. EncodedLen(f) \div Mtu : o = Mtu * k
    BY DEF PassOffsets
  <2> QED
    BY <1>1, <2>1, Multiples DEF PassOffsets
<1>5. ASSUME NEW o \in PassOffsets(f), NEW q \in PassOffsets(f), o < q + Mtu
      PROVE  o <= q
  <2>1. PICK j \in 0 .. EncodedLen(f) \div Mtu : o = Mtu * j
    BY DEF PassOffsets
  <2>2. PICK k \in 0 .. EncodedLen(f) \div Mtu : q = Mtu * k
    BY DEF PassOffsets
  <2>3. j \in Nat /\ k \in Nat
    BY <1>2
  <2> QED
    BY <1>1, <1>5, <2>1, <2>2, <2>3, MultiplesApart
<1>6. \A o \in PassOffsets(f) : Chunk(f, o) \in Packets
  BY DEF Packets, PacketsOf
<1> QED
  BY <1>1, <1>3, <1>4, <1>5, <1>6

(* The wire of a port only gets longer.                                    *)
LEMMA Sent ==
  ASSUME SenderTypeOK, NEW p \in Ports, NEW pkt \in Packets, Transmit(p, pkt)
  PROVE  /\ net' \in [Ports -> Seq(Packets)]
         /\ \A q \in Ports : q # p => net'[q] = net[q]
         /\ net'[p] = Append(net[p], pkt)
         /\ Len(net[p]) \in Nat
         /\ Len(net'[p]) = Len(net[p]) + 1
         /\ net'[p] # << >>
         /\ net'[p][Len(net[p]) + 1] = pkt
         /\ \A i \in 1 .. Len(net[p]) : net'[p][i] = net[p][i]
<1>1. net[p] \in Seq(Packets) /\ net' = [net EXCEPT ![p] = Append(net[p], pkt)]
  BY DEF SenderTypeOK, Transmit
<1>2. net'[p] = Append(net[p], pkt)
  BY <1>1 DEF SenderTypeOK
<1>3. /\ Append(net[p], pkt) \in Seq(Packets) /\ Append(net[p], pkt) # << >>
      /\ Len(Append(net[p], pkt)) = Len(net[p]) + 1
      /\ \A i \in 1 .. Len(net[p]) : Append(net[p], pkt)[i] = net[p][i]
      /\ Append(net[p], pkt)[Len(net[p]) + 1] = pkt
  BY <1>1, AppendProperties
<1> QED
  BY <1>1, <1>2, <1>3, LenProperties DEF SenderTypeOK

-----------------------------------------------------------------------------
(* setupUDP puts every worker on the channel once. *)
LEMMA InitHolds ==
  ASSUME SenderInit
  PROVE  SenderInv /\ HolderSentLast /\ PassesCounted
<1>1. IsFiniteSet(Ports) /\ Cardinality(Ports) \in Nat /\ NoPort \notin Ports
      /\ MaxSends \in Nat \ {0} /\ MaxAttempts \in Nat \ {0}
  BY SenderAssumption, FS_CardinalityType
<1>2. workers \in [1 .. Cardinality(Ports) -> Ports]
      /\ \A p \in Ports : \E i \in DOMAIN workers : workers[i] = p
  BY DEF SenderInit
<1>3. workers \in Seq(Ports)
  BY <1>1, <1>2, SeqDef
<1>4. \A i, j \in DOMAIN workers : workers[i] = workers[j] => i = j
  <2>1. IsFiniteSet(1 .. Cardinality(Ports))
        /\ Cardinality(1 .. Cardinality(Ports)) = Cardinality(Ports)
    BY <1>1, FS_Interval
  <2>2. workers \in Surjection(1 .. Cardinality(Ports), Ports)
    BY <1>2, Fun_IsSurj
  <2>3. workers \in Injection(1 .. Cardinality(Ports), Ports)
    BY <2>1, <2>2, FS_SurjSameCardinalityImpliesInj
  <2> QED
    BY <1>2, <2>3 DEF Injection, IsInjective
<1>5. IsFiniteSet({}) /\ Cardinality({}) = 0
  BY FS_EmptySet
<1>6. SenderTypeOK
  BY <1>1, <1>3, <1>5, EmptySeq DEF SenderInit, SenderTypeOK
<1>7. /\ \A f \in Posts : pc[f] = "idle" /\ worker[f] = NoPort
      /\ sends = {}
  BY DEF SenderInit
<1>8. HoldersHold
  BY <1>7 DEF HoldersHold, Holding
<1>9. WorkersApart
  BY <1>1, <1>2, <1>4, <1>7 DEF WorkersApart, Idle
<1>10. SlotsHeld /\ CheckedFirst
  BY <1>5, <1>7 DEF SlotsHeld, Sending, CheckedFirst
<1>11. OffsetsOnGrid
  BY Grid DEF SenderInit, OffsetsOnGrid
<1>12. HolderSentLast /\ PassesCounted
  BY DEF SenderInit, HolderSentLast, PassesCounted, Counted
<1> QED
  BY <1>6, <1>8, <1>9, <1>10, <1>11, <1>12 DEF SenderInv

-----------------------------------------------------------------------------
(* What the steps of a post have in common: it leaves the others alone.    *)
Alone(f) ==
  \A g \in Posts \ {f} :
    /\ pc'[g] = pc[g] /\ worker'[g] = worker[g] /\ off'[g] = off[g]
    /\ reply'[g] = reply[g] /\ isOpen'[g] = isOpen[g]

(* Steps that keep the workers where they are *)
Keeps(f) ==
  /\ Alone(f) /\ worker' = worker /\ workers' = workers
  /\ (pc'[f] \in Holding) = (pc[f] \in Holding)

LEMMA KeepsInvariants ==
  ASSUME SenderInv, NEW f \in Posts, Keeps(f)
  PROVE  HoldersHold' /\ WorkersApart'
<1>1. \A g \in Posts : (pc'[g] \in Holding) = (pc[g] \in Holding)
  BY DEF Keeps, Alone
<1>2. HoldersHold'
  BY <1>1 DEF Keeps, SenderInv, HoldersHold
<1>3. WorkersApart'
  BY DEF Keeps, SenderInv, WorkersApart, Idle
<1> QED
  BY <1>2, <1>3

(* and the end of post, which puts its worker back.                        *)
LEMMA ReturnFrees ==
  ASSUME SenderInv, NEW f \in Posts, pc[f] \in Holding,
         NEW answer \in {"ok", "error"}, Return(f, answer),
         off' \in [Posts -> Nat], \A g \in Posts \ {f} : off'[g] = off[g],
         net' \in [Ports -> Seq(Packets)]
  PROVE  /\ SenderTypeOK' /\ HoldersHold' /\ WorkersApart' /\ SlotsHeld'
         /\ CheckedFirst' /\ Alone(f)
         /\ pc'[f] = "idle" /\ worker'[f] = NoPort /\ reply'[f] = answer
         /\ isOpen' = isOpen
<1>1. /\ pc' = [pc EXCEPT ![f] = "idle"] /\ reply' = [reply EXCEPT ![f] = answer]
      /\ worker' = [worker EXCEPT ![f] = NoPort]
      /\ workers' = Append(workers, worker[f])
      /\ sends' = sends \ {f} /\ isOpen' = isOpen /\ attempts' = attempts
  BY DEF Return
<1>2. SenderTypeOK /\ worker[f] \in Ports /\ NoPort \notin Ports
  BY SenderAssumption DEF SenderInv, SenderTypeOK, HoldersHold
<1>3. /\ pc'[f] = "idle" /\ worker'[f] = NoPort /\ reply'[f] = answer
      /\ Alone(f)
  BY <1>1, <1>2 DEF SenderTypeOK, Alone
<1>4. /\ workers' \in Seq(Ports)
      /\ Len(workers) \in Nat /\ DOMAIN workers = 1 .. Len(workers)
      /\ DOMAIN workers' = 1 .. Len(workers) + 1
      /\ \A i \in 1 .. Len(workers) : workers'[i] = workers[i]
      /\ workers'[Len(workers) + 1] = worker[f]
  BY <1>1, <1>2, AppendProperties, LenProperties DEF SenderTypeOK
<1>11. PICK n : /\ n \notin DOMAIN workers /\ n \in DOMAIN workers'
                /\ DOMAIN workers' = DOMAIN workers \cup {n}
                /\ \A i \in DOMAIN workers : workers'[i] = workers[i]
                /\ workers'[n] = worker[f]
  <2>1. /\ Len(workers) + 1 \notin DOMAIN workers
        /\ DOMAIN workers' = DOMAIN workers \cup {Len(workers) + 1}
    BY <1>4
  <2> QED
    BY <1>4, <2>1
<1>5. IsFiniteSet(sends') /\ Cardinality(sends') <= MaxSends
  <2>1. IsFiniteSet(sends) /\ Cardinality(sends) <= MaxSends /\ MaxSends \in Nat
    BY <1>2, SenderAssumption DEF SenderInv, SlotsHeld, SenderTypeOK
  <2>2. /\ IsFiniteSet(sends \ {f}) /\ Cardinality(sends) \in Nat
        /\ Cardinality(sends \ {f}) \in {Cardinality(sends) - 1, Cardinality(sends)}
    BY <2>1, FS_RemoveElement, FS_CardinalityType
  <2> QED
    BY <1>1, <2>1, <2>2
<1>6. SenderTypeOK'
  BY <1>1, <1>2, <1>4, <1>5 DEF SenderTypeOK
<1>7. HoldersHold'
  BY <1>3 DEF Alone, SenderInv, HoldersHold, Holding
<1>8. WorkersApart'
  <2>1. \A g \in Posts : \A i \in DOMAIN workers : workers[i] # worker[g]
    BY DEF SenderInv, WorkersApart, Idle
  <2>2. \A i, j \in DOMAIN workers' : workers'[i] = workers'[j] => i = j
    BY <1>11, <2>1 DEF SenderInv, WorkersApart
  <2>3. \A g, h \in Posts : worker'[g] = worker'[h] /\ worker'[g] # NoPort => g = h
    BY <1>3 DEF Alone, SenderInv, WorkersApart
  <2>4. \A g \in Posts : \A i \in DOMAIN workers' : workers'[i] # worker'[g]
    <3> SUFFICES ASSUME NEW g \in Posts, NEW i \in DOMAIN workers'
                 PROVE  workers'[i] # worker'[g]
      OBVIOUS
    <3>1. workers'[i] \in Ports
      BY <1>2, <1>4 DEF SenderInv, SenderTypeOK
    <3>2. CASE g = f
      BY <1>2, <1>3, <3>1, <3>2
    <3>3. CASE g # f /\ i = n
      <4>1. worker'[g] = worker[g] /\ worker[g] # worker[f]
        BY <1>2, <1>3, <3>3 DEF Alone, SenderInv, WorkersApart
      <4> QED
        BY <1>11, <3>3, <4>1
    <3>4. CASE g # f /\ i \in DOMAIN workers
      BY <1>3, <1>11, <2>1, <3>4 DEF Alone
    <3> QED
      BY <1>11, <3>2, <3>3, <3>4
  <2>5. \A p \in Ports : \/ \E i \in DOMAIN workers' : workers'[i] = p
                         \/ \E g \in Posts : worker'[g] = p
    <3> SUFFICES ASSUME NEW p \in Ports
                 PROVE  \/ \E i \in DOMAIN workers' : workers'[i] = p
                        \/ \E g \in Posts : worker'[g] = p
      OBVIOUS
    <3>1. CASE \E i \in DOMAIN workers : workers[i] = p
      BY <1>11, <3>1
    <3>2. CASE worker[f] = p
      BY <1>11, <3>2
    <3>3. CASE \E g \in Posts \ {f} : worker[g] = p
      BY <1>3, <3>3 DEF Alone
    <3>4. Idle(p) \/ \E g \in Posts : worker[g] = p
      BY DEF SenderInv, WorkersApart
    <3> QED
      BY <3>1, <3>2, <3>3, <3>4 DEF Idle
  <2> QED
    BY <2>2, <2>3, <2>4, <2>5 DEF WorkersApart, Idle
<1>9. SlotsHeld'
  BY <1>1, <1>3, <1>5 DEF Alone, SenderInv, SlotsHeld, Sending
<1>10. CheckedFirst'
  BY <1>3 DEF Alone, SenderInv, CheckedFirst, Verified
<1> QED
  BY <1>1, <1>3, <1>6, <1>7, <1>8, <1>9, <1>10

-----------------------------------------------------------------------------
(* A packet that is sent while a pass goes on is one of the FlowFile.      *)
LEMMA SenderSends ==
  ASSUME SenderTypeOK, HoldersHold, OffsetsOnGrid, NEW f \in Posts, Sending(f),
         Transmit(worker[f], Chunk(f, off[f]))
  PROVE  /\ worker[f] \in Ports /\ Chunk(f, off[f]) \in Packets
         /\ net' \in [Ports -> Seq(Packets)]
<1>1. worker[f] \in Ports
  BY DEF SenderTypeOK, HoldersHold, Sending, Holding
<1>2. Chunk(f, off[f]) \in Packets
  BY Grid DEF OffsetsOnGrid
<1> QED
  BY <1>1, <1>2, Sent

(* A worker that is taken leaves the channel. *)
TakesHead(f) ==
  /\ Alone(f) /\ pc[f] = "queued" /\ pc'[f] = "buffer"
  /\ workers # << >> /\ Head(workers) \in Ports
  /\ worker'[f] = Head(workers) /\ workers' = Tail(workers)

LEMMA TakeDoes ==
  ASSUME SenderTypeOK, NEW f \in Posts, TakeWorker(f)
  PROVE  /\ TakesHead(f) /\ SenderTypeOK'
         /\ WakeUp(f) \in Packets
<1>1. Head(workers) \in Ports /\ Tail(workers) \in Seq(Ports) /\ workers # << >>
  BY HeadTailProperties DEF TakeWorker, SenderTypeOK
<1>2. WakeUp(f) \in Packets
  BY DEF Packets, PacketsOf
<1>3. net' \in [Ports -> Seq(Packets)]
  BY <1>1, <1>2, Sent DEF TakeWorker
<1>4. TakesHead(f)
  BY <1>1 DEF TakeWorker, TakesHead, Alone, SenderTypeOK
<1>5. SenderTypeOK'
  BY <1>1, <1>3 DEF TakeWorker, SenderTypeOK
<1> QED
  BY <1>2, <1>4, <1>5

(* Taking the head of the channel keeps the workers apart. *)
LEMMA TakeApart ==
  ASSUME SenderTypeOK, HoldersHold, WorkersApart, NEW f \in Posts, TakesHead(f)
  PROVE  HoldersHold' /\ WorkersApart'
<1>1. /\ worker[f] = NoPort /\ NoPort \notin Ports
      /\ worker'[f] = Head(workers) /\ Head(workers) \in Ports
  BY SenderAssumption DEF SenderTypeOK, HoldersHold, Holding, TakesHead
<1>2. /\ workers \in Seq(Ports) /\ workers # << >> /\ workers' = Tail(workers)
      /\ Len(workers) \in Nat \ {0} /\ DOMAIN workers = 1 .. Len(workers)
      /\ Head(workers) = workers[1]
      /\ Tail(workers) \in Seq(Ports) /\ Len(Tail(workers)) = Len(workers) - 1
      /\ DOMAIN Tail(workers) = 1 .. Len(Tail(workers))
      /\ \A i \in 1 .. Len(Tail(workers)) : Tail(workers)[i] = workers[i + 1]
  BY HeadTailProperties, LenProperties, EmptySeq DEF SenderTypeOK, TakesHead
<1>3. /\ \A i \in DOMAIN workers' :
           i + 1 \in DOMAIN workers /\ i + 1 # 1 /\ i \in Nat /\ workers'[i] = workers[i + 1]
      /\ \A i \in DOMAIN workers : i # 1 =>
           i - 1 \in DOMAIN workers' /\ workers'[i - 1] = workers[i]
      /\ 1 \in DOMAIN workers /\ worker'[f] = workers[1]
  BY <1>1, <1>2
<1>4. \A g \in Posts : \A i \in DOMAIN workers : workers[i] # worker[g]
  BY DEF WorkersApart, Idle
<1>5. HoldersHold'
  <2>1. \A g \in Posts \ {f} : worker'[g] = worker[g] /\ pc'[g] = pc[g]
    BY DEF TakesHead, Alone
  <2>2. worker'[f] # NoPort /\ pc'[f] \in Holding
    BY <1>1 DEF TakesHead, Holding
  <2> QED
    BY <2>1, <2>2 DEF HoldersHold
<1>6. \A i, j \in DOMAIN workers' : workers'[i] = workers'[j] => i = j
  <2> SUFFICES ASSUME NEW i \in DOMAIN workers', NEW j \in DOMAIN workers',
                      workers'[i] = workers'[j]
               PROVE  i = j
    OBVIOUS
  <2>1. i + 1 = j + 1
    BY <1>3 DEF WorkersApart
  <2> QED
    BY <1>3, <2>1
<1>7. \A g, h \in Posts : worker'[g] = worker'[h] /\ worker'[g] # NoPort => g = h
  <2> SUFFICES ASSUME NEW g \in Posts, NEW h \in Posts, worker'[g] = worker'[h],
                      worker'[g] # NoPort
               PROVE  g = h
    OBVIOUS
  <2>1. CASE g # f /\ h # f
    BY <2>1 DEF TakesHead, Alone, WorkersApart
  <2>2. CASE g = f /\ h # f
    BY <1>3, <1>4, <2>2 DEF TakesHead, Alone
  <2>3. CASE g # f /\ h = f
    BY <1>3, <1>4, <2>3 DEF TakesHead, Alone
  <2> QED
    BY <2>1, <2>2, <2>3
<1>8. \A g \in Posts : \A i \in DOMAIN workers' : workers'[i] # worker'[g]
  <2> SUFFICES ASSUME NEW g \in Posts, NEW i \in DOMAIN workers'
               PROVE  workers'[i] # worker'[g]
    OBVIOUS
  <2>1. CASE g = f
    BY <1>3, <2>1 DEF WorkersApart
  <2>2. CASE g # f
    BY <1>3, <1>4, <2>2 DEF TakesHead, Alone
  <2> QED
    BY <2>1, <2>2
<1>9. \A p \in Ports : \/ \E i \in DOMAIN workers' : workers'[i] = p
                       \/ \E g \in Posts : worker'[g] = p
  <2> SUFFICES ASSUME NEW p \in Ports
               PROVE  \/ \E i \in DOMAIN workers' : workers'[i] = p
                      \/ \E g \in Posts : worker'[g] = p
    OBVIOUS
  <2>1. CASE \E i \in DOMAIN workers : workers[i] = p
    BY <1>3, <2>1
  <2>2. CASE \E g \in Posts : worker[g] = p
    BY <1>1, <2>2 DEF TakesHead, Alone
  <2> QED
    BY <2>1, <2>2 DEF WorkersApart, Idle
<1> QED
  BY <1>5, <1>6, <1>7, <1>8, <1>9 DEF WorkersApart, Idle

-----------------------------------------------------------------------------
(* Every step keeps the invariant. *)
LEMMA StepKeepsInv ==
  ASSUME SenderInv, NEW f \in Posts, Request(f) \/ HangUp(f) \/ Post(f)
  PROVE  SenderInv'
  <1>1. /\ SenderTypeOK /\ HoldersHold /\ WorkersApart /\ SlotsHeld
        /\ OffsetsOnGrid /\ CheckedFirst
    BY DEF SenderInv
  <1>2. CASE Request(f)
    <2>1. Keeps(f)
      BY <1>1, <1>2 DEF Request, Keeps, Alone, Holding, SenderTypeOK
    <2>2. SenderTypeOK'
      BY <1>1, <1>2, SenderAssumption DEF Request, SenderTypeOK
    <2>3. SlotsHeld' /\ CheckedFirst' /\ OffsetsOnGrid'
      BY <1>1, <1>2
         DEF Request, SenderTypeOK, SlotsHeld, Sending, CheckedFirst, Verified, OffsetsOnGrid
    <2> QED
      BY <2>1, <2>2, <2>3, KeepsInvariants DEF SenderInv
  <1>3. CASE HangUp(f)
    <2>1. Keeps(f)
      BY <1>1, <1>3 DEF HangUp, Keeps, Alone, Holding, SenderTypeOK
    <2>2. SenderTypeOK'
      BY <1>1, <1>3 DEF HangUp, SenderTypeOK
    <2>3. SlotsHeld' /\ CheckedFirst' /\ OffsetsOnGrid'
      BY <1>1, <1>3
         DEF HangUp, SenderTypeOK, SlotsHeld, Sending, CheckedFirst, Verified, OffsetsOnGrid
    <2> QED
      BY <2>1, <2>2, <2>3, KeepsInvariants DEF SenderInv
  <1>4. CASE TakeWorker(f)
    <2>1. TakesHead(f) /\ SenderTypeOK'
      BY <1>1, <1>4, TakeDoes
    <2>2. HoldersHold' /\ WorkersApart'
      BY <1>1, <2>1, TakeApart
    <2>3. SlotsHeld' /\ CheckedFirst' /\ OffsetsOnGrid'
      BY <1>1, <1>4
         DEF TakeWorker, SenderTypeOK, SlotsHeld, Sending, CheckedFirst, Verified, OffsetsOnGrid
    <2> QED
      BY <2>1, <2>2, <2>3 DEF SenderInv
  <1>5. CASE Buffer(f)
    <2>1. Keeps(f)
      BY <1>1, <1>5 DEF Buffer, Keeps, Alone, Holding, SenderTypeOK
    <2>2. SenderTypeOK'
      BY <1>1, <1>5 DEF Buffer, SenderTypeOK
    <2>3. SlotsHeld' /\ CheckedFirst' /\ OffsetsOnGrid'
      BY <1>1, <1>5
         DEF Buffer, SenderTypeOK, SlotsHeld, Sending, CheckedFirst, Verified, OffsetsOnGrid
    <2> QED
      BY <2>1, <2>2, <2>3, KeepsInvariants DEF SenderInv
  <1>6. CASE Refuse(f)
    <2>1. pc[f] \in Holding
      BY <1>6 DEF Refuse, Holding, Sending
    <2>2. off' \in [Posts -> Nat] /\ (\A g \in Posts \ {f} : off'[g] = off[g]) /\ OffsetsOnGrid'
      BY <1>1, <1>6, Grid DEF Refuse, SenderTypeOK, OffsetsOnGrid
    <2>3. net' \in [Ports -> Seq(Packets)]
      BY <1>1, <1>6 DEF Refuse, SenderTypeOK
    <2> QED
      BY <1>1, <1>6, <2>1, <2>2, <2>3, ReturnFrees DEF Refuse, SenderInv
  <1>7. CASE BreakOff(f) /\ SumPresent(f)
    <2>1. Keeps(f)
      BY <1>1, <1>7 DEF BreakOff, Keeps, Alone, Holding, SenderTypeOK
    <2>2. SenderTypeOK'
      BY <1>1, <1>7 DEF BreakOff, SenderTypeOK
    <2>3. SlotsHeld' /\ CheckedFirst' /\ OffsetsOnGrid'
      BY <1>1, <1>7
         DEF BreakOff, SenderTypeOK, SlotsHeld, Sending, CheckedFirst, Verified, OffsetsOnGrid
    <2> QED
      BY <2>1, <2>2, <2>3, KeepsInvariants DEF SenderInv
  <1>8. CASE BreakOff(f) /\ ~SumPresent(f)
    <2>1. pc[f] \in Holding
      BY <1>8 DEF BreakOff, Holding, Sending
    <2>2. off' \in [Posts -> Nat] /\ (\A g \in Posts \ {f} : off'[g] = off[g]) /\ OffsetsOnGrid'
      BY <1>1, <1>8, Grid DEF BreakOff, SenderTypeOK, OffsetsOnGrid
    <2>3. net' \in [Ports -> Seq(Packets)]
      BY <1>1, <1>8 DEF BreakOff, SenderTypeOK
    <2> QED
      BY <1>1, <1>8, <2>1, <2>2, <2>3, ReturnFrees DEF BreakOff, SenderInv
  <1>9. CASE StartSending(f)
    <2>1. Keeps(f)
      BY <1>1, <1>9 DEF StartSending, Keeps, Alone, Holding, SenderTypeOK
    <2>2. IsFiniteSet(sends') /\ Cardinality(sends') <= MaxSends /\ sends' = sends \cup {f}
      <3>1. IsFiniteSet(sends) /\ Cardinality(sends) < MaxSends /\ MaxSends \in Nat
        BY <1>1, <1>9, SenderAssumption DEF SlotsHeld, StartSending
      <3>2. /\ IsFiniteSet(sends \cup {f}) /\ Cardinality(sends) \in Nat
            /\ Cardinality(sends \cup {f}) \in {Cardinality(sends), Cardinality(sends) + 1}
        BY <3>1, FS_AddElement, FS_CardinalityType
      <3>3. sends' = sends \cup {f}
        BY <1>9 DEF StartSending
      <3> QED
        BY <3>1, <3>2, <3>3
    <2>3. off'[f] = 0 /\ off' \in [Posts -> Nat] /\ OffsetsOnGrid'
      BY <1>1, <1>9, Grid DEF StartSending, SenderTypeOK, OffsetsOnGrid
    <2>4. SenderTypeOK'
      BY <1>1, <1>9, <2>2, <2>3 DEF StartSending, SenderTypeOK
    <2>5. SlotsHeld' /\ CheckedFirst'
      BY <1>1, <1>9, <2>2
         DEF StartSending, SenderTypeOK, SlotsHeld, Sending, CheckedFirst, Verified
    <2> QED
      BY <2>1, <2>3, <2>4, <2>5, KeepsInvariants DEF SenderInv
  <1>10. CASE SendChunk(f)
    <2>1. Keeps(f)
      BY <1>1, <1>10 DEF SendChunk, Keeps, Alone, Holding, SenderTypeOK
    <2>2. off'[f] = off[f] + Mtu /\ off' \in [Posts -> Nat] /\ OffsetsOnGrid'
      BY <1>1, <1>10, Grid DEF SendChunk, EndsPass, SenderTypeOK, OffsetsOnGrid
    <2>3. net' \in [Ports -> Seq(Packets)]
      BY <1>1, <1>10, SenderSends DEF SendChunk
    <2>4. SenderTypeOK'
      BY <1>1, <1>10, <2>2, <2>3 DEF SendChunk, SenderTypeOK
    <2>5. SlotsHeld' /\ CheckedFirst'
      BY <1>1, <1>10 DEF SendChunk, SlotsHeld, Sending, CheckedFirst, Verified
    <2> QED
      BY <2>1, <2>2, <2>4, <2>5, KeepsInvariants DEF SenderInv
  <1>11. CASE EndFirstPass(f)
    <2>1. Keeps(f)
      BY <1>1, <1>11 DEF EndFirstPass, Keeps, Alone, Holding, SenderTypeOK
    <2>2. off'[f] = 0 /\ off' \in [Posts -> Nat] /\ OffsetsOnGrid'
      BY <1>1, <1>11, Grid DEF EndFirstPass, SenderTypeOK, OffsetsOnGrid
    <2>3. net' \in [Ports -> Seq(Packets)]
      BY <1>1, <1>11, SenderSends DEF EndFirstPass, Sending
    <2>4. SenderTypeOK'
      BY <1>1, <1>11, <2>2, <2>3 DEF EndFirstPass, SenderTypeOK
    <2>5. SlotsHeld' /\ CheckedFirst'
      BY <1>1, <1>11
         DEF EndFirstPass, SenderTypeOK, SlotsHeld, Sending, CheckedFirst, Verified
    <2> QED
      BY <2>1, <2>2, <2>4, <2>5, KeepsInvariants DEF SenderInv
  <1>12. CASE EndSecondPass(f)
    <2>1. pc[f] \in Holding
      BY <1>12 DEF EndSecondPass, Holding, Sending
    <2>2. off' \in [Posts -> Nat] /\ (\A g \in Posts \ {f} : off'[g] = off[g]) /\ OffsetsOnGrid'
      BY <1>1, <1>12, Grid DEF EndSecondPass, SenderTypeOK, OffsetsOnGrid
    <2>3. net' \in [Ports -> Seq(Packets)]
      BY <1>1, <1>12, SenderSends DEF EndSecondPass, Sending
    <2> QED
      BY <1>1, <1>12, <2>1, <2>2, <2>3, ReturnFrees DEF EndSecondPass, SenderInv
  <1>13. CASE Abandon(f)
    <2>1. pc[f] \in Holding
      BY <1>13 DEF Abandon, Holding, Sending
    <2>2. off' \in [Posts -> Nat] /\ (\A g \in Posts \ {f} : off'[g] = off[g]) /\ OffsetsOnGrid'
      BY <1>1, <1>13, Grid DEF Abandon, SenderTypeOK, OffsetsOnGrid
    <2>3. net' \in [Ports -> Seq(Packets)]
      BY <1>1, <1>13 DEF Abandon, SenderTypeOK
    <2> QED
      BY <1>1, <1>13, <2>1, <2>2, <2>3, ReturnFrees DEF Abandon, SenderInv
  <1>14. CASE WriteFails(f)
    <2>1. pc[f] \in Holding
      BY <1>14 DEF WriteFails, Holding, Sending
    <2>2. off' \in [Posts -> Nat] /\ (\A g \in Posts \ {f} : off'[g] = off[g]) /\ OffsetsOnGrid'
      BY <1>1, <1>14, Grid DEF WriteFails, SenderTypeOK, OffsetsOnGrid
    <2>3. net' \in [Ports -> Seq(Packets)]
      BY <1>1, <1>14 DEF WriteFails, SenderTypeOK
    <2> QED
      BY <1>1, <1>14, <2>1, <2>2, <2>3, ReturnFrees DEF WriteFails, SenderInv
  <1> QED
    BY <1>2, <1>3, <1>4, <1>5, <1>6, <1>7, <1>8, <1>9, <1>10, <1>11, <1>12, <1>13, <1>14
       DEF Post

(* The invariant holds throughout. *)
LEMMA Invariance == SenderSpec => []SenderInv
<1>1. SenderInit => SenderInv
  BY InitHolds
<1>2. SenderInv /\ [SenderNext]_svars => SenderInv'
  <2> SUFFICES ASSUME SenderInv, [SenderNext]_svars PROVE SenderInv'
    OBVIOUS
  <2>1. CASE SenderNext
    BY <2>1, StepKeepsInv DEF SenderNext
  <2>2. CASE UNCHANGED svars
    BY <2>2 DEF svars, SenderInv, SenderTypeOK, HoldersHold, WorkersApart, Idle, SlotsHeld,
                Sending, OffsetsOnGrid, CheckedFirst, Verified
  <2> QED
    BY <2>1, <2>2
<1> QED
  BY <1>1, <1>2, PTL DEF SenderSpec

(* Types, and a send slot for every FlowFile that is sent: setupUDP, post. *)
THEOREM SenderTypes == SenderSpec => []SenderTypeOK
<1>1. SenderInv => SenderTypeOK
  BY DEF SenderInv
<1> QED
  BY <1>1, Invariance, PTL

(* Every port is on the channel once or held by one FlowFile: post with    *)
(* its deferred return of the worker.                                      *)
THEOREM NoWorkerLost == SenderSpec => []WorkersConserved
<1>1. SenderInv => WorkersConserved
  <2> SUFFICES ASSUME SenderInv, NEW p \in Ports
               PROVE  Cardinality({i \in DOMAIN workers : workers[i] = p})
                        + Cardinality({f \in Posts : worker[f] = p}) = 1
    BY DEF WorkersConserved
  <2>1. WorkersApart /\ p # NoPort
    BY SenderAssumption DEF SenderInv
  <2>2. CASE Idle(p)
    <3>1. PICK n \in DOMAIN workers : workers[n] = p
      BY <2>2 DEF Idle
    <3>2. {i \in DOMAIN workers : workers[i] = p} = {n}
      BY <2>1, <3>1 DEF WorkersApart
    <3>3. {f \in Posts : worker[f] = p} = {}
      BY <2>1, <2>2 DEF WorkersApart
    <3>4. Cardinality({i \in DOMAIN workers : workers[i] = p}) = 1
      BY <3>2, FS_Singleton
    <3>5. Cardinality({f \in Posts : worker[f] = p}) = 0
      BY <3>3, FS_EmptySet
    <3> QED
      BY <3>4, <3>5
  <2>3. CASE ~Idle(p)
    <3>1. PICK g \in Posts : worker[g] = p
      BY <2>1, <2>3 DEF WorkersApart
    <3>2. {f \in Posts : worker[f] = p} = {g}
      BY <2>1, <3>1 DEF WorkersApart
    <3>3. {i \in DOMAIN workers : workers[i] = p} = {}
      BY <2>3 DEF Idle
    <3>4. Cardinality({f \in Posts : worker[f] = p}) = 1
      BY <3>2, FS_Singleton
    <3>5. Cardinality({i \in DOMAIN workers : workers[i] = p}) = 0
      BY <3>3, FS_EmptySet
    <3> QED
      BY <3>4, <3>5
  <2> QED
    BY <2>2, <2>3
<1> QED
  BY <1>1, Invariance, PTL

-----------------------------------------------------------------------------
(* What a step puts on the wire: nothing, a wake-up to the worker that is  *)
(* taken, or the next packet of a verified FlowFile to the one it holds.   *)
WakesUp(f) == TakesHead(f) /\ Transmit(Head(workers), WakeUp(f))

SendsNext(f) ==
  /\ Sending(f)
  /\ Transmit(worker[f], Chunk(f, off[f]))

(* Every step puts at most one packet on the wire.                         *)
LEMMA WireSteps ==
  ASSUME SenderInv, NEW f \in Posts, Request(f) \/ HangUp(f) \/ Post(f)
  PROVE  /\ Alone(f)
         /\ \/ net' = net /\ worker'[f] \in {worker[f], NoPort}
            \/ WakesUp(f)
            \/ SendsNext(f) /\ worker'[f] \in {worker[f], NoPort}
<1>1. SenderTypeOK
  BY DEF SenderInv
<1>2. CASE TakeWorker(f)
  BY <1>1, <1>2, TakeDoes DEF TakeWorker, WakesUp, TakesHead
<1>3. CASE Request(f) \/ HangUp(f) \/ Buffer(f) \/ StartSending(f)
  BY <1>1, <1>3 DEF Request, HangUp, Buffer, StartSending, Alone, SenderTypeOK
<1>4. CASE Refuse(f) \/ BreakOff(f)
  BY <1>1, <1>4 DEF Refuse, BreakOff, Return, Alone, SenderTypeOK
<1>5. CASE Abandon(f) \/ WriteFails(f)
  BY <1>1, <1>5 DEF Abandon, WriteFails, Return, Alone, SenderTypeOK
<1>6. CASE SendChunk(f)
  BY <1>1, <1>6 DEF SendChunk, SendsNext, Alone, SenderTypeOK
<1>7. CASE EndFirstPass(f)
  BY <1>1, <1>7 DEF EndFirstPass, SendsNext, Sending, Alone, SenderTypeOK
<1>8. CASE EndSecondPass(f)
  BY <1>1, <1>8 DEF EndSecondPass, SendsNext, Sending, Return, Alone, SenderTypeOK
<1> QED
  BY <1>2, <1>3, <1>4, <1>5, <1>6, <1>7, <1>8 DEF Post

(* One packet more on the wire of p, of f *)
Adds(p, pkt) ==
  /\ \A q \in Ports \ {p} : net'[q] = net[q]
  /\ Len(net[p]) \in Nat /\ Len(net'[p]) = Len(net[p]) + 1
  /\ DOMAIN net[p] = 1 .. Len(net[p]) /\ DOMAIN net'[p] = 1 .. Len(net[p]) + 1
  /\ net'[p] # << >> /\ net'[p][Len(net[p]) + 1] = pkt
  /\ \A i \in 1 .. Len(net[p]) : net'[p][i] = net[p][i]

LEMMA TransmitAdds ==
  ASSUME SenderTypeOK, NEW p \in Ports, NEW pkt \in Packets, Transmit(p, pkt)
  PROVE  Adds(p, pkt)
  BY Sent, LenProperties DEF Adds, SenderTypeOK

(* Which packet that is, and to which port it goes.                        *)
LEMMA WireAdds ==
  ASSUME SenderInv, NEW f \in Posts
  PROVE  /\ WakesUp(f) => /\ Head(workers) \in Ports /\ worker'[f] = Head(workers)
                          /\ Adds(Head(workers), WakeUp(f))
         /\ SendsNext(f) => /\ worker[f] \in Ports /\ worker[f] # NoPort
                            /\ Adds(worker[f], Chunk(f, off[f])) /\ Verified(f)
<1>1. SenderTypeOK
  BY DEF SenderInv
<1>2. ASSUME WakesUp(f)
      PROVE  /\ Head(workers) \in Ports /\ worker'[f] = Head(workers)
             /\ Adds(Head(workers), WakeUp(f))
  <2>1. WakeUp(f) \in Packets
    BY DEF Packets, PacketsOf
  <2> QED
    BY <1>1, <1>2, <2>1, TransmitAdds DEF WakesUp, TakesHead
<1>3. ASSUME SendsNext(f)
      PROVE  /\ worker[f] \in Ports /\ worker[f] # NoPort
             /\ Adds(worker[f], Chunk(f, off[f])) /\ Verified(f)
  <2>1. worker[f] \in Ports /\ Chunk(f, off[f]) \in Packets
    BY <1>3, SenderSends DEF SenderInv, SendsNext
  <2>2. worker[f] # NoPort
    BY <2>1, SenderAssumption
  <2>3. Verified(f)
    BY <1>3 DEF SenderInv, CheckedFirst, SendsNext, Sending
  <2> QED
    BY <1>1, <1>3, <2>1, <2>2, <2>3, TransmitAdds DEF SendsNext
<1> QED
  BY <1>2, <1>3

(* No step sends data of an unverified FlowFile. *)
LEMMA StepKeepsVerified ==
  ASSUME SenderInv, OnlyVerifiedSent, NEW f \in Posts, Request(f) \/ HangUp(f) \/ Post(f)
  PROVE  OnlyVerifiedSent'
<1>1. CASE net' = net
  BY <1>1 DEF OnlyVerifiedSent, Verified
<1>2. ASSUME NEW p \in Ports, NEW pkt, Adds(p, pkt), pkt.len > 0 => Verified(pkt.post)
      PROVE  OnlyVerifiedSent'
  <2> SUFFICES ASSUME NEW q \in Ports, NEW i \in DOMAIN net'[q], net'[q][i].len > 0
               PROVE  Verified(net'[q][i].post)
    BY DEF OnlyVerifiedSent, Verified
  <2>1. CASE q # p
    BY <1>2, <2>1 DEF Adds, OnlyVerifiedSent
  <2>2. CASE q = p /\ i \in 1 .. Len(net[p])
    BY <1>2, <2>2 DEF Adds, OnlyVerifiedSent
  <2>3. CASE q = p /\ i = Len(net[p]) + 1
    BY <1>2, <2>3 DEF Adds
  <2>4. q = p => i \in 1 .. Len(net[p]) \/ i = Len(net[p]) + 1
    BY <1>2 DEF Adds
  <2> QED
    BY <2>1, <2>2, <2>3, <2>4
<1>3. CASE WakesUp(f)
  <2>1. /\ Head(workers) \in Ports /\ Adds(Head(workers), WakeUp(f))
        /\ ~(WakeUp(f).len > 0)
    BY <1>3, WireAdds DEF WakeUp
  <2> QED
    BY <1>2, <2>1
<1>4. CASE SendsNext(f)
  <2>1. /\ worker[f] \in Ports /\ Adds(worker[f], Chunk(f, off[f]))
        /\ Verified(f) /\ Chunk(f, off[f]).post = f
    BY <1>4, WireAdds DEF Chunk
  <2>2. Chunk(f, off[f]).len > 0 => Verified(Chunk(f, off[f]).post)
    BY <2>1
  <2> QED
    BY <1>2, <2>1, <2>2
<1> QED
  BY <1>1, <1>3, <1>4, WireSteps

(* Data packets on the wire are of FlowFiles whose checksum held, or that  *)
(* are empty: post verifies a file before it sends any of it.              *)
THEOREM VerifiedBeforeSent == SenderSpec => []OnlyVerifiedSent
<1>1. SenderInit => OnlyVerifiedSent
  BY DEF SenderInit, OnlyVerifiedSent
<1>2. SenderInv /\ OnlyVerifiedSent /\ [SenderNext]_svars => OnlyVerifiedSent'
  BY StepKeepsVerified DEF SenderNext, svars, OnlyVerifiedSent, Verified
<1> QED
  BY <1>1, <1>2, Invariance, PTL DEF SenderSpec

-----------------------------------------------------------------------------
(* The last packet of a port that is held is of its holder.                *)
LEMMA StepKeepsLast ==
  ASSUME SenderInv, HolderSentLast,
         NEW f \in Posts, Request(f) \/ HangUp(f) \/ Post(f)
  PROVE  HolderSentLast'
<1> SUFFICES ASSUME NEW g \in Posts, worker'[g] # NoPort
             PROVE  /\ net'[worker'[g]] # << >>
                    /\ net'[worker'[g]][Len(net'[worker'[g]])].post = g
  BY DEF HolderSentLast
<1>1. Alone(f)
  BY WireSteps
<1>2. /\ \A h \in Posts : worker[h] \in Ports \cup {NoPort}
      /\ \A h, k \in Posts : worker[h] = worker[k] /\ worker[h] # NoPort => h = k
      /\ \A h \in Posts : ~Idle(worker[h])
  BY DEF SenderInv, SenderTypeOK, WorkersApart
<1>3. worker'[g] = worker[g] =>
        /\ worker[g] \in Ports /\ net[worker[g]] # << >>
        /\ net[worker[g]][Len(net[worker[g]])].post = g
  BY <1>2 DEF HolderSentLast
<1>4. CASE net' = net /\ worker'[f] \in {worker[f], NoPort}
  BY <1>1, <1>3, <1>4 DEF Alone
<1>5. ASSUME NEW p \in Ports, NEW pkt, Adds(p, pkt), pkt.post = f,
             g = f => worker'[f] = p, g # f => worker[g] # p
      PROVE  /\ net'[worker'[g]] # << >>
             /\ net'[worker'[g]][Len(net'[worker'[g]])].post = g
  <2>1. CASE g = f
    BY <1>5, <2>1 DEF Adds
  <2>2. CASE g # f
    <3>1. worker'[g] = worker[g] /\ worker[g] \in Ports \ {p}
      BY <1>1, <1>3, <1>5, <2>2 DEF Alone
    <3>2. net'[worker[g]] = net[worker[g]]
      BY <1>5, <3>1 DEF Adds
    <3> QED
      BY <1>3, <3>1, <3>2
  <2> QED
    BY <2>1, <2>2
<1>6. CASE WakesUp(f)
  <2>1. /\ Head(workers) \in Ports /\ worker'[f] = Head(workers)
        /\ Adds(Head(workers), WakeUp(f)) /\ WakeUp(f).post = f
    BY <1>6, WireAdds DEF WakeUp
  <2>2. Idle(Head(workers))
    <3>1. workers \in Seq(Ports) /\ workers # << >>
      BY <1>6 DEF SenderInv, SenderTypeOK, WakesUp, TakesHead
    <3>2. 1 \in DOMAIN workers /\ workers[1] = Head(workers)
      BY <3>1, HeadTailProperties, LenProperties, EmptySeq
    <3> QED
      BY <3>2 DEF Idle
  <2> QED
    BY <1>2, <1>5, <2>1, <2>2
<1>7. CASE SendsNext(f) /\ worker'[f] \in {worker[f], NoPort}
  <2>1. /\ worker[f] \in Ports /\ worker[f] # NoPort
        /\ Adds(worker[f], Chunk(f, off[f])) /\ Chunk(f, off[f]).post = f
    BY <1>7, WireAdds DEF Chunk
  <2> QED
    BY <1>2, <1>5, <1>7, <2>1
<1> QED
  BY <1>4, <1>6, <1>7, WireSteps

(* A packet that is added is a wake-up or follows one of its own FlowFile. *)
LEMMA StepKeepsWhole ==
  ASSUME SenderInv, HolderSentLast, PortsCarryWholeFiles,
         NEW f \in Posts, Request(f) \/ HangUp(f) \/ Post(f)
  PROVE  PortsCarryWholeFiles'
<1>1. CASE net' = net
  BY <1>1 DEF PortsCarryWholeFiles
<1>2. ASSUME NEW p \in Ports, NEW pkt, Adds(p, pkt),
             pkt = WakeUp(pkt.post) \/ net[p][Len(net[p])].post = pkt.post
      PROVE  PortsCarryWholeFiles'
  <2> SUFFICES ASSUME NEW q \in Ports, NEW i \in 1 .. Len(net'[q]) - 1,
                      net'[q][i].post # net'[q][i + 1].post
               PROVE  net'[q][i + 1] = WakeUp(net'[q][i + 1].post)
    BY DEF PortsCarryWholeFiles
  <2>1. CASE q # p
    <3>1. net'[q] = net[q]
      BY <1>2, <2>1 DEF Adds
    <3> QED
      BY <3>1 DEF PortsCarryWholeFiles
  <2>2. CASE q = p /\ i \in 1 .. Len(net[p]) - 1
    <3>1. net'[p][i] = net[p][i] /\ net'[p][i + 1] = net[p][i + 1]
      BY <1>2, <2>2 DEF Adds
    <3> QED
      BY <2>2, <3>1 DEF PortsCarryWholeFiles
  <2>3. CASE q = p /\ i = Len(net[p])
    <3>1. i \in 1 .. Len(net[p]) /\ i + 1 = Len(net[p]) + 1
      BY <1>2, <2>3
    <3>2. net'[p][i] = net[p][i] /\ net'[p][i + 1] = pkt
      BY <1>2, <3>1, <2>3 DEF Adds
    <3> QED
      BY <1>2, <2>3, <3>2
  <2>4. q = p => i \in 1 .. Len(net[p]) - 1 \/ i = Len(net[p])
    BY <1>2 DEF Adds
  <2> QED
    BY <2>1, <2>2, <2>3, <2>4
<1>3. CASE WakesUp(f)
  <2>1. /\ Head(workers) \in Ports /\ Adds(Head(workers), WakeUp(f))
        /\ WakeUp(f) = WakeUp(WakeUp(f).post)
    BY <1>3, WireAdds DEF WakeUp
  <2> QED
    BY <1>2, <2>1
<1>4. CASE SendsNext(f)
  <2>1. /\ worker[f] \in Ports /\ worker[f] # NoPort
        /\ Adds(worker[f], Chunk(f, off[f])) /\ Chunk(f, off[f]).post = f
    BY <1>4, WireAdds DEF Chunk
  <2>2. net[worker[f]][Len(net[worker[f]])].post = Chunk(f, off[f]).post
    BY <2>1 DEF HolderSentLast
  <2> QED
    BY <1>2, <2>1, <2>2
<1> QED
  BY <1>1, <1>3, <1>4, WireSteps

(* A port carries one FlowFile after the other, a wake-up ahead of each:   *)
(* post holds its worker from the wake-up to the last packet of the second *)
(* pass, and the deferred return puts it back only then.                   *)
THEOREM FilesInOnePiece == SenderSpec => []PortsCarryWholeFiles
<1>1. SenderInit => HolderSentLast /\ PortsCarryWholeFiles
  BY InitHolds DEF SenderInit, PortsCarryWholeFiles
<1>2. /\ SenderInv /\ HolderSentLast /\ PortsCarryWholeFiles
      /\ [SenderNext]_svars
      => HolderSentLast' /\ PortsCarryWholeFiles'
  <2> SUFFICES ASSUME SenderInv, HolderSentLast, PortsCarryWholeFiles,
                      [SenderNext]_svars
               PROVE  HolderSentLast' /\ PortsCarryWholeFiles'
    OBVIOUS
  <2>1. CASE SenderNext
    BY <2>1, StepKeepsLast, StepKeepsWhole DEF SenderNext
  <2>2. CASE UNCHANGED svars
    BY <2>2 DEF svars, HolderSentLast, PortsCarryWholeFiles
  <2> QED
    BY <2>1, <2>2
<1> QED
  BY <1>1, <1>2, Invariance, PTL DEF SenderSpec

-----------------------------------------------------------------------------
(* What was put on the wire stays there, and is counted.                   *)
Grows ==
  \A p \in Ports : \A i \in DOMAIN net[p] :
    i \in DOMAIN net'[p] /\ net'[p][i] = net[p][i]

LEMMA StepGrows ==
  ASSUME SenderInv, NEW f \in Posts, Request(f) \/ HangUp(f) \/ Post(f)
  PROVE  Grows
<1>1. CASE net' = net
  BY <1>1 DEF Grows
<1>2. ASSUME NEW p \in Ports, NEW pkt, Adds(p, pkt)
      PROVE  Grows
  BY <1>2 DEF Adds, Grows
<1> QED
  BY <1>1, <1>2, WireAdds, WireSteps

(* Counts only grow with the wire, *)
LEMMA CountsPersist ==
  ASSUME Grows, NEW p \in Ports, NEW pkt
  PROVE  /\ Once(p, pkt) => Once(p, pkt)'
         /\ Twice(p, pkt) => Twice(p, pkt)'
BY DEF Grows, Once, Twice

(* and a packet that is added counts. *)
LEMMA AddsCounts ==
  ASSUME NEW p \in Ports, NEW pkt, Adds(p, pkt)
  PROVE  /\ Once(p, pkt)'
         /\ Once(p, pkt) => Twice(p, pkt)'
<1>1. /\ Len(net[p]) + 1 \in DOMAIN net'[p]
      /\ net'[p][Len(net[p]) + 1] = pkt
  BY DEF Adds
<1>2. Once(p, pkt)'
  BY <1>1 DEF Once
<1>3. ASSUME NEW i \in DOMAIN net[p], net[p][i] = pkt
      PROVE  Twice(p, pkt)'
  <2>1. /\ i \in DOMAIN net'[p] /\ net'[p][i] = pkt
        /\ i # Len(net[p]) + 1
    BY <1>3 DEF Adds
  <2> QED
    BY <1>1, <2>1 DEF Twice
<1> QED
  BY <1>2, <1>3 DEF Once

(* The counts of a post whose pass, port and offset stay persist.          *)
LEMMA SameCounts ==
  ASSUME SenderInv, Grows, NEW f \in Posts
  PROVE  /\ Sending(f) => worker[f] \in Ports
         /\ /\ worker[f] \in Ports
            /\ worker'[f] = worker[f] /\ off'[f] = off[f]
            => /\ FirstPass(f) => FirstPass(f)'
               /\ SecondPass(f) => SecondPass(f)'
         /\ BothPasses(f) => BothPasses(f)'
<1>1. Sending(f) => worker[f] \in Ports
  BY DEF SenderInv, SenderTypeOK, HoldersHold, Sending, Holding
<1>2. ASSUME worker[f] \in Ports, worker'[f] = worker[f], off'[f] = off[f]
      PROVE  /\ FirstPass(f) => FirstPass(f)'
             /\ SecondPass(f) => SecondPass(f)'
  <2>1. PICK p \in Ports : worker[f] = p /\ worker'[f] = p
    BY <1>2
  <2>2. \A o : /\ Once(p, Chunk(f, o)) => Once(p, Chunk(f, o))'
               /\ Twice(p, Chunk(f, o)) => Twice(p, Chunk(f, o))'
    BY CountsPersist
  <2>3. FirstPass(f) => FirstPass(f)'
    BY <1>2, <2>1, <2>2 DEF FirstPass, Once
  <2>4. SecondPass(f) => SecondPass(f)'
    BY <1>2, <2>1, <2>2 DEF SecondPass, Once, Twice
  <2> QED
    BY <2>3, <2>4
<1>3. ASSUME BothPasses(f)
      PROVE  BothPasses(f)'
  <2>1. PICK p \in Ports : \A o \in PassOffsets(f) : Twice(p, Chunk(f, o))
    BY <1>3 DEF BothPasses
  <2>2. \A o \in PassOffsets(f) : Twice(p, Chunk(f, o))'
    BY <2>1, CountsPersist
  <2> QED
    BY <2>2 DEF BothPasses
<1> QED
  BY <1>1, <1>2, <1>3

(* What the next packet adds to a pass: everything up to its offset is on  *)
(* the wire, and when it ends the pass that is everything.                 *)
LEMMA PacketCounts ==
  ASSUME SenderInv, Grows, NEW f \in Posts, SendsNext(f),
         NEW p \in Ports, worker[f] = p
  PROVE  /\ FirstPass(f) =>
              \A o \in PassOffsets(f) : o < off[f] + Mtu => Once(p, Chunk(f, o))'
         /\ SecondPass(f) =>
              \A o \in PassOffsets(f) :
                /\ Once(p, Chunk(f, o))'
                /\ o < off[f] + Mtu => Twice(p, Chunk(f, o))'
         /\ EndsPass(f) => \A o \in PassOffsets(f) : o < off[f] + Mtu
<1>1. off[f] \in PassOffsets(f) /\ off[f] \in Nat
  BY Grid DEF SenderInv, OffsetsOnGrid
<1>2. PICK here \in PassOffsets(f) : here = off[f]
  BY <1>1
<1>3. /\ Once(p, Chunk(f, here))'
      /\ Once(p, Chunk(f, here)) => Twice(p, Chunk(f, here))'
  <2>1. Adds(p, Chunk(f, here))
    BY <1>2, WireAdds
  <2> QED
    BY <2>1, AddsCounts
<1>4. \A o \in PassOffsets(f) : o < off[f] + Mtu => o = here \/ o < here
  BY <1>1, <1>2, Grid
<1>5. \A o : /\ Once(p, Chunk(f, o)) => Once(p, Chunk(f, o))'
             /\ Twice(p, Chunk(f, o)) => Twice(p, Chunk(f, o))'
  BY CountsPersist
<1>6. ASSUME FirstPass(f), NEW o \in PassOffsets(f), o < off[f] + Mtu
      PROVE  Once(p, Chunk(f, o))'
  <2>1. CASE o = here
    BY <1>3, <2>1
  <2>2. CASE o < here
    <3>1. Once(p, Chunk(f, o))
      BY <1>2, <1>6, <2>2 DEF FirstPass
    <3> QED
      BY <1>5, <3>1
  <2> QED
    BY <1>4, <1>6, <2>1, <2>2
<1>7. ASSUME SecondPass(f), NEW o \in PassOffsets(f)
      PROVE  /\ Once(p, Chunk(f, o))'
             /\ o < off[f] + Mtu => Twice(p, Chunk(f, o))'
  <2>1. Once(p, Chunk(f, o)) /\ (o < here => Twice(p, Chunk(f, o)))
    BY <1>2, <1>7 DEF SecondPass
  <2>2. Once(p, Chunk(f, o))'
    BY <1>5, <2>1
  <2>3. CASE o = here
    BY <1>3, <2>1, <2>2, <2>3
  <2>4. CASE o < here
    BY <1>5, <2>1, <2>2, <2>4
  <2>5. CASE ~(o < off[f] + Mtu)
    BY <2>2, <2>5
  <2> QED
    BY <1>4, <2>3, <2>4, <2>5
<1>8. EndsPass(f) => \A o \in PassOffsets(f) : o < off[f] + Mtu
  BY <1>1, Grid DEF EndsPass
<1> QED
  BY <1>6, <1>7, <1>8

(* Every step keeps the counts. *)
LEMMA StepKeepsCounts ==
  ASSUME SenderInv, PassesCounted,
         NEW f \in Posts, Request(f) \/ HangUp(f) \/ Post(f)
  PROVE  PassesCounted'
<1>1. SenderTypeOK /\ Grows /\ Alone(f)
  BY StepGrows, WireSteps DEF SenderInv
<1>2. \A g \in Posts \ {f} : Counted(g)'
  <2> SUFFICES ASSUME NEW g \in Posts \ {f} PROVE Counted(g)'
    OBVIOUS
  <2>1. /\ pc'[g] = pc[g] /\ worker'[g] = worker[g] /\ off'[g] = off[g]
        /\ reply'[g] = reply[g] /\ isOpen'[g] = isOpen[g] /\ Counted(g)
    BY <1>1 DEF Alone, PassesCounted
  <2>2. pc[g] \in {"send1", "send2"} => worker[g] \in Ports
    BY SameCounts, <1>1 DEF Sending
  <2>3. /\ worker[g] \in Ports /\ FirstPass(g) => FirstPass(g)'
        /\ worker[g] \in Ports /\ SecondPass(g) => SecondPass(g)'
        /\ BothPasses(g) => BothPasses(g)'
    BY SameCounts, <1>1, <2>1
  <2> QED
    BY <2>1, <2>2, <2>3 DEF Counted
<1>3. Counted(f)'
  <2>1. Counted(f) /\ (BothPasses(f) => BothPasses(f)')
    BY <1>1, SameCounts DEF PassesCounted
  <2>2. CASE Request(f)
    BY <1>1, <2>2 DEF Request, Counted, SenderTypeOK
  <2>3. CASE Refuse(f) \/ WriteFails(f)
    BY <1>1, <2>3 DEF Refuse, WriteFails, Return, Counted, SenderTypeOK
  <2>4. CASE Abandon(f)
    BY <1>1, <2>4 DEF Abandon, Return, Counted, SenderTypeOK
  <2>5. CASE BreakOff(f)
    BY <1>1, <2>1, <2>5 DEF BreakOff, Return, Counted, SenderTypeOK
  <2>6. CASE TakeWorker(f) \/ Buffer(f)
    BY <1>1, <2>1, <2>6 DEF TakeWorker, Buffer, Counted, SenderTypeOK
  <2>7. CASE HangUp(f)
    <3>1. /\ pc'[f] = pc[f] /\ worker'[f] = worker[f] /\ off'[f] = off[f]
          /\ ~isOpen'[f]
      BY <1>1, <2>7 DEF HangUp, SenderTypeOK
    <3>2. /\ Sending(f) /\ FirstPass(f) => FirstPass(f)'
          /\ Sending(f) /\ SecondPass(f) => SecondPass(f)'
      BY <1>1, <3>1, SameCounts
    <3> QED
      BY <2>1, <3>1, <3>2 DEF Counted, Sending
  <2>8. CASE StartSending(f)
    <3>1. /\ pc'[f] = "send1" /\ off'[f] = 0
          /\ reply'[f] = reply[f] /\ isOpen'[f] = isOpen[f]
      BY <1>1, <2>8 DEF StartSending, SenderTypeOK
    <3>2. FirstPass(f)'
      BY <3>1, Grid DEF FirstPass
    <3> QED
      BY <2>1, <3>1, <3>2 DEF Counted
  <2>9. CASE SendChunk(f)
    <3>1. /\ SendsNext(f) /\ pc'[f] = pc[f] /\ worker'[f] = worker[f]
          /\ off'[f] = off[f] + Mtu
          /\ reply'[f] = reply[f] /\ isOpen'[f] = isOpen[f]
      BY <1>1, <2>9 DEF SendChunk, SendsNext, SenderTypeOK
    <3>2. PICK p \in Ports : worker[f] = p
      BY <1>1, <3>1, SameCounts DEF SendsNext
    <3>3. FirstPass(f) => FirstPass(f)'
      BY <1>1, <3>1, <3>2, PacketCounts DEF FirstPass, Once
    <3>4. SecondPass(f) => SecondPass(f)'
      <4> SUFFICES ASSUME SecondPass(f)
                   PROVE  SecondPass(f)'
        OBVIOUS
      <4>1. \A o \in PassOffsets(f) :
              Once(p, Chunk(f, o))' /\ (o < off'[f] => Twice(p, Chunk(f, o))')
        BY <1>1, <3>1, <3>2, PacketCounts
      <4>2. worker'[f] = p
        BY <3>1, <3>2
      <4> QED
        BY <4>1, <4>2 DEF SecondPass, Once, Twice
    <3> QED
      BY <2>1, <3>1, <3>3, <3>4 DEF Counted
  <2>10. CASE EndFirstPass(f)
    <3>1. /\ SendsNext(f) /\ EndsPass(f) /\ pc[f] = "send1" /\ pc'[f] = "send2"
          /\ worker'[f] = worker[f] /\ off'[f] = 0
          /\ reply'[f] = reply[f] /\ isOpen'[f] = isOpen[f]
      BY <1>1, <2>10 DEF EndFirstPass, SendsNext, Sending, SenderTypeOK
    <3>2. PICK p \in Ports : worker[f] = p
      BY <1>1, <3>1, SameCounts DEF SendsNext
    <3>3. \A o \in PassOffsets(f) : Once(p, Chunk(f, o))'
      BY <1>1, <2>1, <3>1, <3>2, PacketCounts DEF Counted
    <3>4. SecondPass(f)'
      BY <3>1, <3>2, <3>3, Grid DEF SecondPass, Once
    <3> QED
      BY <2>1, <3>1, <3>4 DEF Counted
  <2>11. CASE EndSecondPass(f)
    <3>1. SendsNext(f) /\ EndsPass(f) /\ pc[f] = "send2" /\ pc'[f] = "idle"
      BY <1>1, <2>11 DEF EndSecondPass, SendsNext, Sending, Return, SenderTypeOK
    <3>2. PICK p \in Ports : worker[f] = p
      BY <1>1, <3>1, SameCounts DEF SendsNext
    <3>3. \A o \in PassOffsets(f) : Twice(p, Chunk(f, o))'
      BY <1>1, <2>1, <3>1, <3>2, PacketCounts DEF Counted
    <3>4. BothPasses(f)'
      BY <3>3 DEF BothPasses
    <3> QED
      BY <3>1, <3>4 DEF Counted
  <2> QED
    BY <2>2, <2>3, <2>4, <2>5, <2>6, <2>7, <2>8, <2>9, <2>10, <2>11 DEF Post
<1> QED
  BY <1>2, <1>3 DEF PassesCounted

(* A post that reports success to a client that stayed has put every       *)
(* packet of its FlowFile at least twice on the wire of one port.          *)
THEOREM SuccessMeansSentTwice == SenderSpec => []OkMeansSentTwice
<1>1. SenderInit => PassesCounted
  BY InitHolds
<1>2. SenderInv /\ PassesCounted /\ [SenderNext]_svars => PassesCounted'
  <2> SUFFICES ASSUME SenderInv, PassesCounted, [SenderNext]_svars
               PROVE  PassesCounted'
    OBVIOUS
  <2>1. CASE SenderNext
    BY <2>1, StepKeepsCounts DEF SenderNext
  <2>2. CASE UNCHANGED svars
    BY <2>2 DEF svars, PassesCounted, Counted, FirstPass, SecondPass,
                BothPasses, Once, Twice
  <2> QED
    BY <2>1, <2>2
<1>3. SenderInv /\ PassesCounted => OkMeansSentTwice
  <2> SUFFICES ASSUME SenderInv, PassesCounted, NEW f \in Posts,
                      reply[f] = "ok", isOpen[f]
               PROVE  \E p \in Ports : \A o \in PassOffsets(f) :
                        Cardinality({i \in DOMAIN net[p] : net[p][i] = Chunk(f, o)}) >= 2
    BY DEF OkMeansSentTwice
  <2>1. PICK p \in Ports : \A o \in PassOffsets(f) : Twice(p, Chunk(f, o))
    BY DEF PassesCounted, Counted, BothPasses
  <2>2. IsFiniteSet(DOMAIN net[p])
    <3>1. DOMAIN net[p] = 1 .. Len(net[p]) /\ Len(net[p]) \in Nat
      BY LenProperties DEF SenderInv, SenderTypeOK
    <3> QED
      BY <3>1, FS_Interval
  <2>3. ASSUME NEW o \in PassOffsets(f)
        PROVE  Cardinality({i \in DOMAIN net[p] : net[p][i] = Chunk(f, o)}) >= 2
    <3> DEFINE S == {i \in DOMAIN net[p] : net[p][i] = Chunk(f, o)}
    <3>1. PICK i \in S, j \in S : i # j
      BY <2>1 DEF Twice
    <3>2. IsFiniteSet(S)
      BY <2>2, FS_Subset
    <3>3. Cardinality({i}) = 1 /\ IsFiniteSet({i})
      BY FS_Singleton
    <3>4. Cardinality({i} \cup {j}) = 2
      <4>1. j \notin {i}
        BY <3>1
      <4>2. Cardinality({i} \cup {j}) = Cardinality({i}) + 1
        BY <3>3, <4>1, FS_AddElement
      <4> QED
        BY <3>3, <4>2
    <3>5. Cardinality({i} \cup {j}) <= Cardinality(S) /\ Cardinality(S) \in Nat
      BY <3>1, <3>2, FS_Subset, FS_CardinalityType
    <3> QED
      BY <3>4, <3>5
  <2> QED
    BY <2>1, <2>3
<1> QED
  BY <1>1, <1>2, <1>3, Invariance, PTL DEF SenderSpec
===============================================================================
