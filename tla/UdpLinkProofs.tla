---------------------------- MODULE UdpLinkProofs ----------------------------
(***************************************************************************)
(* Sender and receiver together, for any number of FlowFiles, ports,       *)
(* threads and posts: links that keep the order of their packets deliver   *)
(* no FlowFile more often than it was posted, and miss none of which a     *)
(* copy of every packet arrives.                                           *)
(***************************************************************************)
EXTENDS UdpLink, UdpReceiverProofs, UdpSenderProofs

(* The first packet under way leaves the wire.                             *)
LEMMA WithoutFirst ==
  ASSUME NEW S, NEW s \in Seq(S), s # << >>
  PROVE  /\ Seqs!RemoveAt(s, 1) \in Seq(S)
         /\ Len(s) \in Nat \ {0}
         /\ Len(Seqs!RemoveAt(s, 1)) = Len(s) - 1
         /\ \A i \in 1 .. Len(s) - 1 : Seqs!RemoveAt(s, 1)[i] = s[i + 1]
<1>1. SubSeq(s, 1, 0) = << >>
  OBVIOUS
<1>2. Len(s) \in Nat \ {0} /\ \A i \in 2 .. Len(s) : s[i] \in S
  OBVIOUS
<1>3. /\ SubSeq(s, 2, Len(s)) \in Seq(S)
      /\ Len(SubSeq(s, 2, Len(s))) =
           IF 2 <= Len(s) THEN Len(s) - 2 + 1 ELSE 0
      /\ \A i \in 1 .. Len(s) - 2 + 1 : SubSeq(s, 2, Len(s))[i] = s[2 + i - 1]
  BY <1>2, SubSeqProperties
<1>4. Seqs!RemoveAt(s, 1) = SubSeq(s, 1, 1 - 1) \o SubSeq(s, 1 + 1, Len(s))
  BY DEF Seqs!RemoveAt
<1>5. Seqs!RemoveAt(s, 1) = << >> \o SubSeq(s, 2, Len(s))
  BY <1>1, <1>4
<1>6. Seqs!RemoveAt(s, 1) = SubSeq(s, 2, Len(s))
  BY <1>3, <1>5, ConcatEmptySeq
<1> DEFINE n == Len(s)
<1> HIDE DEF n
<1>7. n \in Nat \ {0} /\ n - 2 + 1 = n - 1 /\ (2 <= n \/ n = 1)
  <2>1. n \in Nat \ {0}
    BY <1>2 DEF n
  <2> QED BY <2>1
<1>8. (IF 2 <= n THEN n - 2 + 1 ELSE 0) = n - 1
  BY <1>7
<1>9. ASSUME NEW i \in 1 .. n - 1
      PROVE  SubSeq(s, 2, n)[i] = s[i + 1]
  <2>1. i \in 1 .. n - 2 + 1 /\ 2 + i - 1 = i + 1
    BY <1>7
  <2>2. SubSeq(s, 2, n)[i] = s[2 + i - 1]
    BY <1>3, <2>1 DEF n
  <2> QED BY <2>1, <2>2
<1> QED BY <1>3, <1>6, <1>7, <1>8, <1>9 DEF n

(* Of the sender only the wire has changed, which is one packet shorter.   *)
Shifts(p) ==
  /\ net[p] # << >> /\ net[p][1] \in Packets
  /\ \A q \in Ports \ {p} : net'[q] = net[q]
  /\ Len(net[p]) \in Nat \ {0} /\ Len(net'[p]) = Len(net[p]) - 1
  /\ \A i \in 1 .. Len(net[p]) - 1 : net'[p][i] = net[p][i + 1]

LEMMA TakeShifts ==
  ASSUME SenderInv, NEW p \in Ports, Take(p, 1)
  PROVE  /\ SenderInv' /\ Shifts(p)
         /\ UNCHANGED <<pc, isOpen, worker, off, attempts, reply, workers, sends>>
<1>1. /\ net \in [Ports -> Seq(Packets)] /\ 1 \in DOMAIN net[p]
      /\ net' = [net EXCEPT ![p] = Seqs!RemoveAt(@, 1)]
      /\ UNCHANGED <<pc, isOpen, worker, off, attempts, reply, workers, sends>>
  BY DEF Take, SenderInv, SenderTypeOK
<1>2. net[p] \in Seq(Packets) /\ net[p] # << >> /\ net[p][1] \in Packets
  BY <1>1
<1> DEFINE s == Seqs!RemoveAt(net[p], 1)
<1>3. /\ s \in Seq(Packets) /\ Len(net[p]) \in Nat \ {0}
      /\ Len(s) = Len(net[p]) - 1
      /\ \A i \in 1 .. Len(net[p]) - 1 : s[i] = net[p][i + 1]
  BY <1>2, WithoutFirst
<1>4. net' = [net EXCEPT ![p] = s]
  BY <1>1
<1> HIDE DEF s
<1>5. /\ net'[p] = s /\ \A q \in Ports \ {p} : net'[q] = net[q]
      /\ net' \in [Ports -> Seq(Packets)]
  BY <1>1, <1>3, <1>4
<1>6. Shifts(p)
  BY <1>2, <1>3, <1>5 DEF Shifts
<1>7. SenderTypeOK'
  BY <1>1, <1>5 DEF SenderInv, SenderTypeOK
<1>8. SenderInv'
  BY <1>1, <1>7 DEF SenderInv, HoldersHold, WorkersApart, Idle, SlotsHeld,
    Sending, OffsetsOnGrid, CheckedFirst, Verified
<1> QED BY <1>1, <1>6, <1>8

(* What a step does to either side.                                        *)
Posting(f) == (Request(f) \/ HangUp(f) \/ Post(f)) /\ UNCHANGED <<rvars, history>>
Taking(p) == Take(p, 1) /\ Handle(p, net[p][1]) /\ UNCHANGED history
Losing(p) == Lose(p)
Working(t) == WorkerStep(t)

LEMMA LinkSteps ==
  ASSUME Overtake = 0, Next
  PROVE  \/ \E f \in Posts : Posting(f)
         \/ \E p \in Ports : Taking(p) \/ Losing(p)
         \/ \E t \in Threads : Working(t)
<1>1. ASSUME NEW f \in Posts, Client(f) \/ Send(f)
      PROVE  Posting(f)
  BY <1>1 DEF Client, Send, Posting, history
<1>2. ASSUME NEW p \in Ports, Receive(p)
      PROVE  Taking(p)
  <2>1. PICK i \in 1 .. Overtake + 1 : Take(p, i) /\ Handle(p, net[p][i])
    BY <1>2 DEF Receive
  <2>2. i = 1
    BY <2>1
  <2> QED BY <1>2, <2>1, <2>2 DEF Receive, Taking, history
<1>3. ASSUME NEW p \in Ports, Lose(p)
      PROVE  Losing(p)
  BY <1>3 DEF Losing, Lose
<1>4. ASSUME NEW t \in Threads, WorkerStep(t)
      PROVE  Working(t)
  BY <1>4 DEF Working
<1> QED BY <1>1, <1>2, <1>3, <1>4 DEF Next

(* Both sides keep their invariants.                                       *)
BothInv == SenderInv /\ TypeOK

LEMMA SidesStep ==
  ASSUME BothInv, Overtake = 0, Next
  PROVE  SenderInv' /\ [ReceiverNext]_rvars
<1>1. SenderInv
  BY DEF BothInv
<1>2. ASSUME NEW f \in Posts, Posting(f)
      PROVE  SenderInv' /\ [ReceiverNext]_rvars
  BY <1>1, <1>2, StepKeepsInv DEF Posting, history
<1>3. ASSUME NEW p \in Ports, Taking(p) \/ Losing(p)
      PROVE  SenderInv' /\ [ReceiverNext]_rvars
  <2>1. SenderInv' /\ net[p][1] \in Packets
    BY <1>1, <1>3, TakeShifts DEF Taking, history, Losing, Lose, Shifts
  <2> QED BY <1>3, <2>1 DEF Taking, history, Losing, Lose, ReceiverNext
<1>4. ASSUME NEW t \in Threads, Working(t)
      PROVE  SenderInv' /\ [ReceiverNext]_rvars
  <2>1. SenderInv'
    BY <1>1, <1>4 DEF Working, WorkerStep, svars, SenderInv, SenderTypeOK, HoldersHold,
      WorkersApart, Idle, SlotsHeld, Sending, OffsetsOnGrid, CheckedFirst,
      Verified
  <2> QED BY <1>4, <2>1 DEF Working, WorkerStep, ReceiverNext, Work, Attempt
<1> QED BY <1>2, <1>3, <1>4, LinkSteps

-----------------------------------------------------------------------------
(* A port rebuilds one FlowFile at a time: what is in the buffer of its    *)
(* job is of the FlowFile whose UUID it holds.                             *)
FromOne ==
  \A p \in Ports : job[p] # NoJob =>
    \E f \in Posts : Uuid[f] = uuid[p] /\ job[p].buf \in BuffersOf({f})

(* The header tells which FlowFile that is.                                *)
LEMMA HeaderIsOf ==
  ASSUME NEW f \in Posts, NEW g \in Posts, NEW j, j.buf \in BuffersOf({g}),
         HeaderIntact(f, Image(j))
  PROVE  f = g
<1>1. 0 \in Cell /\ 0 < SentHeaderLen(f)
  BY Lengths, BufferAssumption DEF Cell
<1>2. Image(j)[0] = <<f, 0>>
  BY <1>1 DEF HeaderIntact
<1>3. Image(j)[0] \in ContentOf({g})
  BY <1>1, ImageFrom
<1>4. <<f, 0>> # Hole /\ <<f, 0>> # Junk
  BY <1>1, ReceiverAssumption
<1>5. <<f, 0>> \in {g} \X Cell
  BY <1>2, <1>3, <1>4 DEF ContentOf
<1> QED BY <1>5

LEMMA NewFrom ==
  ASSUME NEW U
  PROVE  NewBuffer \in BuffersOf(U)
  BY BufferAssumption DEF NewBuffer, Blank, BuffersOf, ContentOf

LEMMA JobFrom ==
  ASSUME UniqueUuids, TypeOK, FromOne, NEW p \in Ports, NEW pkt \in Packets,
         JobFor(p, pkt) # NoJob
  PROVE  /\ JobFor(p, pkt) \in Job
         /\ JobFor(p, pkt).buf \in BuffersOf({pkt.post})
<1>1. JobFor(p, pkt) \in Job /\ pkt.post \in Posts
  BY JobForTyped, PacketFacts
<1>2. CASE Opens(p, pkt)
  BY <1>1, <1>2, NewFrom DEF JobFor, NewJob
<1>3. CASE ~Opens(p, pkt)
  <2>1. JobFor(p, pkt) = job[p] /\ uuid[p] = Uuid[pkt.post]
    BY <1>3 DEF JobFor, Opens
  <2>2. PICK f \in Posts : Uuid[f] = uuid[p] /\ job[p].buf \in BuffersOf({f})
    BY <2>1 DEF FromOne
  <2>3. f = pkt.post
    BY <1>1, <2>1, <2>2 DEF UniqueUuids
  <2> QED BY <1>1, <2>1, <2>2, <2>3
<1> QED BY <1>2, <1>3

(* What a packet does to the jobs of its port and to the channel, unless   *)
(* the process ends.                                                       *)
KeepsOn(p, pkt) ==
  /\ workChan' = workChan
  /\ job'[p] # NoJob => /\ Opens(p, pkt) \/ job[p] # NoJob
                        /\ job'[p].buf \in BuffersOf({pkt.post})

HandsOn(p, pkt) ==
  /\ job'[p] = NoJob /\ (Opens(p, pkt) \/ job[p] # NoJob)
  /\ \E j \in Job : /\ j.buf \in BuffersOf({pkt.post})
                    /\ workChan' = Append(workChan, j)

LEMMA HandleDoes ==
  ASSUME UniqueUuids, TypeOK, FromOne, NEW p \in Ports, NEW pkt \in Packets,
         Handle(p, pkt)
  PROVE  \/ crashed' /\ UNCHANGED <<uuid, job>>
         \/ /\ uuid' = [uuid EXCEPT ![p] = Uuid[pkt.post]]
            /\ \A q \in Ports \ {p} : job'[q] = job[q]
            /\ active' = active /\ crashed' = crashed
            /\ KeepsOn(p, pkt) \/ HandsOn(p, pkt)
<1>1. job \in [Ports -> Job \cup {NoJob}] /\ pkt.post \in Posts
  BY PacketFacts DEF TypeOK
<1>2. JobFor(p, pkt) # NoJob => Opens(p, pkt) \/ job[p] # NoJob
  BY DEF JobFor
<1>3. CASE Ignore(p, pkt)
  <2>1. job'[p] = JobFor(p, pkt) /\ \A q \in Ports \ {p} : job'[q] = job[q]
    BY <1>1, <1>3 DEF Ignore
  <2>2. KeepsOn(p, pkt)
    BY <1>2, <1>3, <2>1, JobFrom DEF Ignore, KeepsOn
  <2> QED BY <1>3, <2>1, <2>2 DEF Ignore
<1>4. CASE NilJob(p, pkt)
  BY <1>4 DEF NilJob
<1>5. ASSUME IsNews(p, pkt)
      PROVE  /\ Opens(p, pkt) \/ job[p] # NoJob
             /\ Stored(JobFor(p, pkt), pkt) \in Job
             /\ Stored(JobFor(p, pkt), pkt).buf \in BuffersOf({pkt.post})
  <2>1. /\ JobFor(p, pkt) \in Job
        /\ JobFor(p, pkt).buf \in BuffersOf({pkt.post})
        /\ JobFor(p, pkt) # NoJob
    BY <1>5, JobFrom DEF IsNews
  <2>2. {pkt.post} \in SUBSET Posts /\ pkt.post \in {pkt.post}
    BY <1>1
  <2> QED BY <1>2, <2>1, <2>2, StoredFrom
<1>6. CASE Fill(p, pkt)
  <2>1. /\ job'[p] = Stored(JobFor(p, pkt), pkt)
        /\ \A q \in Ports \ {p} : job'[q] = job[q]
    BY <1>1, <1>6 DEF Fill
  <2>2. KeepsOn(p, pkt)
    BY <1>5, <1>6, <2>1 DEF Fill, KeepsOn
  <2> QED BY <1>6, <2>1, <2>2 DEF Fill
<1>7. CASE Complete(p, pkt)
  <2>1. job'[p] = NoJob /\ \A q \in Ports \ {p} : job'[q] = job[q]
    BY <1>1, <1>7 DEF Complete
  <2>2. HandsOn(p, pkt)
    BY <1>5, <1>7, <2>1 DEF Complete, HandsOn
  <2> QED BY <1>7, <2>1, <2>2 DEF Complete
<1> QED BY <1>3, <1>4, <1>6, <1>7 DEF Handle

-----------------------------------------------------------------------------
(* What may still be sent on of f without another post: a post that waits  *)
(* for a worker, a run of packets of f that a port has not begun to read,  *)
(* and a job of f that is being rebuilt, queued, or verified and sent for  *)
(* the first time.  A claim is named by what it is, where it is and at     *)
(* which place there.                                                      *)
Begins(f, p, i) ==
  /\ i \in 1 .. Len(net[p]) + 1
  /\ IF i <= Len(net[p]) THEN net[p][i].post = f ELSE worker[f] = p
  /\ IF i = 1 THEN uuid[p] # Uuid[f] ELSE net[p][i - 1].post # f

IsClaim(f, what, at, i) ==
  \/ what = "asked" /\ at = 0 /\ i = 0 /\ pc[f] = "queued"
  \/ what = "net" /\ at \in Ports /\ Begins(f, at, i)
  \/ what = "job" /\ at \in Ports /\ i = 0 /\ job[at] # NoJob
     /\ uuid[at] = Uuid[f]
  \/ what = "chan" /\ at = 0 /\ i \in 1 .. Len(workChan)
     /\ HeaderIntact(f, Image(workChan[i]))
  \/ what = "hand" /\ at \in Threads /\ i = 0 /\ active[at] # NoJob
     /\ nth[at] = 0 /\ HeaderIntact(f, Image(active[at]))

Places == {0} \cup Ports \cup Threads
Kinds == {"asked", "net", "job", "chan", "hand"}

Claims(f) ==
  {x \in Kinds \X Places \X Nat : IsClaim(f, x[1], x[2], x[3])}

(* How many of the files that were rebuilt of f the endpoint has.          *)
Began(f) == Len(copies[f])

(* No more files of f are sent on than its posts allow, what may still be  *)
(* sent on of it included.                                                 *)
ClaimsPaid(f) ==
  /\ IsFiniteSet(Claims(f))
  /\ Began(f) + Cardinality(Claims(f)) <= attempts[f]

NoMore == ~crashed => \A f \in Posts : ClaimsPaid(f)

LEMMA ClaimsAre ==
  ASSUME BothInv, NEW f \in Posts, NEW what, NEW at, NEW i
  PROVE  /\ <<what, at, i>> \in Claims(f) <=> IsClaim(f, what, at, i)
         /\ IsClaim(f, what, at, i) => i \in Nat
<1>1. /\ \A p \in Ports : Len(net[p]) \in Nat
      /\ Len(workChan) \in Nat
  BY LenProperties DEF BothInv, SenderInv, SenderTypeOK, TypeOK
<1>2. IsClaim(f, what, at, i) => what \in Kinds /\ at \in Places /\ i \in Nat
  BY <1>1 DEF IsClaim, Begins, Kinds, Places
<1> QED BY <1>2 DEF Claims

(* A claim has the shape of one. *)
LEMMA ClaimShape ==
  ASSUME NEW f, NEW x \in Claims(f)
  PROVE  x = <<x[1], x[2], x[3]>> /\ x[3] \in Nat
BY DEF Claims

(* Fewer claims, or as many that moved. *)
LEMMA Moved ==
  ASSUME NEW S, NEW T, IsFiniteSet(T), NEW m \in [S -> T],
         \A x, y \in S : m[x] = m[y] => x = y
  PROVE  /\ IsFiniteSet(S)
         /\ Cardinality(S) <= Cardinality(T)
         /\ Cardinality(S) \in Nat /\ Cardinality(T) \in Nat
<1>1. m \in Injection(S, T)
  BY DEF Injection, IsInjective
<1> QED BY <1>1, FS_Injection, FS_CardinalityType

(* The claims and what pays for them after a step.                         *)
LEMMA PaidWhenFewer ==
  ASSUME NEW f \in Posts, ClaimsPaid(f), Began(f) \in Nat, attempts[f] \in Nat,
         IsFiniteSet(Claims(f)'), Cardinality(Claims(f)') <= Cardinality(Claims(f)),
         Began(f)' = Began(f), attempts'[f] = attempts[f]
  PROVE  ClaimsPaid(f)'
<1>1. Cardinality(Claims(f)) \in Nat /\ Cardinality(Claims(f)') \in Nat
  BY FS_CardinalityType DEF ClaimsPaid
<1> QED BY <1>1 DEF ClaimsPaid

(* A subset, *)
LEMMA PaidWhenSubset ==
  ASSUME NEW f \in Posts, ClaimsPaid(f), Began(f) \in Nat, attempts[f] \in Nat,
         Claims(f)' \subseteq Claims(f),
         Began(f)' = Began(f), attempts'[f] = attempts[f]
  PROVE  ClaimsPaid(f)'
<1>1. /\ IsFiniteSet(Claims(f)')
      /\ Cardinality(Claims(f)') <= Cardinality(Claims(f))
  BY FS_Subset DEF ClaimsPaid
<1> QED BY <1>1, PaidWhenFewer

(* or one for another. *)
LEMMA PaidWhenSwapped ==
  ASSUME NEW f \in Posts, ClaimsPaid(f), Began(f) \in Nat, attempts[f] \in Nat,
         NEW x \in Claims(f), NEW y, Claims(f)' \subseteq (Claims(f) \ {x}) \cup {y},
         Began(f)' = Began(f), attempts'[f] = attempts[f]
  PROVE  ClaimsPaid(f)'
<1> DEFINE T == Claims(f)
<1>1. IsFiniteSet(T) /\ Cardinality(T) \in Nat
  BY FS_CardinalityType DEF ClaimsPaid
<1> HIDE DEF T
<1> DEFINE R == T \ {x}
<1>2. IsFiniteSet(R) /\ Cardinality(R) = Cardinality(T) - 1
  BY <1>1, FS_RemoveElement DEF T
<1> HIDE DEF R
<1>3. /\ IsFiniteSet(R \cup {y})
      /\ Cardinality(R \cup {y}) \in {Cardinality(T) - 1, Cardinality(T)}
  <2>1. /\ IsFiniteSet(R \cup {y})
        /\ Cardinality(R \cup {y}) = Cardinality(R)
             \/ Cardinality(R \cup {y}) = Cardinality(R) + 1
    BY <1>2, FS_AddElement
  <2> QED BY <1>1, <1>2, <2>1
<1>4. /\ IsFiniteSet(Claims(f)')
      /\ Cardinality(Claims(f)') <= Cardinality(R \cup {y})
  BY <1>3, FS_Subset DEF R, T
<1>5. Cardinality(Claims(f)') \in Nat
  BY <1>4, FS_CardinalityType
<1>6. Cardinality(Claims(f)') <= Cardinality(T)
  BY <1>1, <1>3, <1>4, <1>5
<1> QED BY <1>4, <1>6, PaidWhenFewer DEF T

-----------------------------------------------------------------------------
(* A step of a post begins no run of packets of another FlowFile, and of   *)
(* its own only when it takes a worker.                                    *)
LEMMA WireClaims ==
  ASSUME SenderInv, NEW f \in Posts, Request(f) \/ HangUp(f) \/ Post(f),
         uuid' = uuid, NEW p \in Ports, NEW i
  PROVE  /\ \A h \in Posts \ {f} : Begins(h, p, i)' => Begins(h, p, i)
         /\ Begins(f, p, i)' =>
              Begins(f, p, i) \/ (WakesUp(f) /\ p = Head(workers)
                                  /\ i = Len(net[p]) + 1)
<1>1. /\ \A h \in Posts \ {f} : worker'[h] = worker[h]
      /\ NoPort \notin Ports /\ Len(net[p]) \in Nat
  BY WireSteps, SenderAssumption, LenProperties DEF Alone, SenderInv, SenderTypeOK
<1>2. CASE net' = net /\ worker'[f] \in {worker[f], NoPort}
  BY <1>1, <1>2 DEF Begins
<1>3. ASSUME NEW q \in Ports, NEW pkt, Adds(q, pkt), pkt.post = f,
             worker[f] \in {q, NoPort}, worker'[f] \in {q, NoPort},
             \A h \in Posts \ {f} : worker[h] # q
      PROVE  /\ \A h \in Posts \ {f} : Begins(h, p, i)' => Begins(h, p, i)
             /\ Begins(f, p, i)' =>
                  \/ Begins(f, p, i)
                  \/ worker[f] # q /\ p = q /\ i = Len(net[p]) + 1
  <2>1. CASE p # q
    <3>1. net'[p] = net[p]
      BY <1>3, <2>1 DEF Adds
    <3> QED BY <1>1, <1>3, <2>1, <3>1 DEF Begins
  <2>2. CASE p = q
    <3>1. /\ Len(net'[p]) = Len(net[p]) + 1
          /\ net'[p][Len(net[p]) + 1].post = f
          /\ \A k \in 1 .. Len(net[p]) : net'[p][k] = net[p][k]
      BY <1>3, <2>2 DEF Adds
    <3>2. ASSUME NEW h \in Posts, Begins(h, p, i)', i \in 1 .. Len(net[p])
          PROVE  Begins(h, p, i)
      <4>1. i <= Len(net[p]) + 1 /\ i \in Int /\ (i = 1 \/ i - 1 \in 1 .. Len(net[p]))
        BY <1>1, <3>2
      <4>2. net'[p][i].post = h /\ net'[p][i] = net[p][i]
        BY <1>1, <3>1, <3>2, <4>1 DEF Begins
      <4>3. IF i = 1 THEN uuid[p] # Uuid[h] ELSE net[p][i - 1].post # h
        BY <3>1, <3>2, <4>1 DEF Begins
      <4> QED BY <1>1, <3>2, <4>1, <4>2, <4>3 DEF Begins
    <3>3. ASSUME NEW h \in Posts, Begins(h, p, i)', i = Len(net[p]) + 1
          PROVE  /\ h = f
                 /\ worker[f] = q => Begins(h, p, i)
      <4>1. h = f
        BY <1>1, <3>1, <3>3 DEF Begins
      <4>2. IF i = 1 THEN uuid[p] # Uuid[h] ELSE net[p][i - 1].post # h
        <5>1. i # 1 => i - 1 \in 1 .. Len(net[p])
          BY <1>1, <3>3
        <5> QED BY <3>1, <3>3, <5>1 DEF Begins
      <4> QED BY <1>1, <2>2, <3>3, <4>1, <4>2 DEF Begins
    <3>4. ASSUME NEW h \in Posts, Begins(h, p, i)', i = Len(net[p]) + 2
          PROVE  FALSE
      <4>1. i > Len(net[p]) + 1 /\ i # 1 /\ i - 1 = Len(net[p]) + 1
        BY <1>1, <3>4
      <4>2. worker'[h] = p /\ h # f
        BY <3>1, <3>4, <4>1 DEF Begins
      <4> QED BY <1>1, <1>3, <2>2, <4>2
    <3>5. ASSUME NEW h \in Posts, Begins(h, p, i)'
          PROVE  \/ i \in 1 .. Len(net[p]) \/ i = Len(net[p]) + 1
                 \/ i = Len(net[p]) + 2
      <4>1. i \in 1 .. Len(net[p]) + 1 + 1
        BY <3>1, <3>5 DEF Begins
      <4> QED BY <1>1, <4>1
    <3>6. ASSUME NEW h \in Posts \ {f}, Begins(h, p, i)'
          PROVE  Begins(h, p, i)
      BY <3>2, <3>3, <3>4, <3>5, <3>6
    <3>7. ASSUME Begins(f, p, i)'
          PROVE  Begins(f, p, i) \/ (worker[f] # q /\ p = q /\ i = Len(net[p]) + 1)
      BY <2>2, <3>2, <3>3, <3>4, <3>5, <3>7
    <3> QED BY <3>6, <3>7
  <2> QED BY <2>1, <2>2
<1>4. CASE WakesUp(f)
  <2>1. /\ Head(workers) \in Ports /\ worker'[f] = Head(workers)
        /\ Adds(Head(workers), WakeUp(f)) /\ WakeUp(f).post = f
    BY <1>4, WireAdds DEF WakeUp
  <2>2. worker[f] = NoPort
    BY <1>4 DEF WakesUp, TakesHead, SenderInv, HoldersHold, Holding
  <2>3. Idle(Head(workers))
    <3>1. workers \in Seq(Ports) /\ workers # << >>
      BY <1>4 DEF WakesUp, TakesHead, SenderInv, SenderTypeOK
    <3>2. 1 \in DOMAIN workers /\ workers[1] = Head(workers)
      BY <3>1
    <3> QED BY <3>2 DEF Idle
  <2>4. \A h \in Posts \ {f} : worker[h] # Head(workers)
    BY <2>3 DEF SenderInv, WorkersApart
  <2> QED BY <1>3, <1>4, <2>1, <2>2, <2>4
<1>5. CASE SendsNext(f) /\ worker'[f] \in {worker[f], NoPort}
  <2>1. /\ worker[f] \in Ports /\ worker[f] # NoPort
        /\ Adds(worker[f], Chunk(f, off[f])) /\ Chunk(f, off[f]).post = f
    BY <1>5, WireAdds DEF Chunk
  <2>2. \A h \in Posts \ {f} : worker[h] # worker[f]
    BY <2>1 DEF SenderInv, WorkersApart
  <2> QED BY <1>3, <1>5, <2>1, <2>2
<1> QED BY <1>2, <1>4, <1>5, WireSteps

(* A claim after a step. *)
LEMMA ClaimThen ==
  ASSUME NEW f, NEW x \in Claims(f)'
  PROVE  /\ x = <<x[1], x[2], x[3]>> /\ x[3] \in Nat
         /\ IsClaim(f, x[1], x[2], x[3])'
BY DEF Claims

Counting ==
  /\ copies \in [Posts -> Seq(Nat)] /\ attempts \in [Posts -> Nat]
  /\ \A f \in Posts : Began(f) \in Nat

LEMMA CountsTyped ==
  ASSUME SenderTypeOK, copies \in [Posts -> Seq(Nat)]
  PROVE  Counting
<1>1. MaxAttempts \in Nat
  BY SenderAssumption
<1>2. \A f \in Posts : Began(f) \in Nat
  BY LenProperties DEF Began
<1> QED BY <1>1, <1>2 DEF SenderTypeOK, Counting

(* Only a request asks for more, and is counted. *)
LEMMA PostCounts ==
  ASSUME SenderTypeOK, NEW f \in Posts, Request(f) \/ HangUp(f) \/ Post(f)
  PROVE  \/ attempts' = [attempts EXCEPT ![f] = @ + 1] /\ ~WakesUp(f)
            /\ \A h \in Posts \ {f} : pc'[h] = pc[h]
         \/ /\ attempts' = attempts
            /\ \A h \in Posts : pc'[h] = "queued" => pc[h] = "queued"
<1>1. pc \in [Posts -> {"idle", "queued", "buffer", "stuck", "thread",
                        "send1", "send2"}]
  BY DEF SenderTypeOK
<1>2. CASE Request(f)
  BY <1>1, <1>2 DEF Request, WakesUp, TakesHead
<1>3. CASE HangUp(f)
  BY <1>3 DEF HangUp
<1>4. CASE Post(f)
  BY <1>1, <1>4 DEF Post, TakeWorker, Buffer, Refuse, BreakOff, StartSending,
    SendChunk, EndFirstPass, EndSecondPass, Abandon, WriteFails, Return
<1> QED BY <1>2, <1>3, <1>4

(* What may be sent on of f grows by one when f is posted, *)
LEMMA PaidWhenPosted ==
  ASSUME NEW f \in Posts, ClaimsPaid(f), Began(f) \in Nat, attempts[f] \in Nat,
         NEW y, Claims(f)' \subseteq Claims(f) \cup {y},
         Began(f)' = Began(f), attempts'[f] = attempts[f] + 1
  PROVE  ClaimsPaid(f)'
<1> DEFINE T == Claims(f)
<1>1. IsFiniteSet(T) /\ Cardinality(T) \in Nat
      /\ Began(f) + Cardinality(T) <= attempts[f]
  BY FS_CardinalityType DEF ClaimsPaid
<1>2. /\ IsFiniteSet(T \cup {y})
      /\ Cardinality(T \cup {y}) \in {Cardinality(T), Cardinality(T) + 1}
  <2> HIDE DEF T
  <2> QED BY <1>1, FS_AddElement
<1>3. /\ IsFiniteSet(Claims(f)')
      /\ Cardinality(Claims(f)') <= Cardinality(T \cup {y})
  BY <1>2, FS_Subset
<1>4. Cardinality(Claims(f)') \in Nat
  BY <1>3, FS_CardinalityType
<1>5. Began(f) + Cardinality(Claims(f)') <= attempts[f] + 1
  BY <1>1, <1>2, <1>3, <1>4
<1> QED BY <1>3, <1>5 DEF ClaimsPaid

(* and shrinks by one when it is sent on. *)
LEMMA PaidWhenSent ==
  ASSUME NEW f \in Posts, ClaimsPaid(f), Began(f) \in Nat, attempts[f] \in Nat,
         NEW x \in Claims(f), Claims(f)' \subseteq Claims(f) \ {x},
         Began(f)' = Began(f) + 1, attempts'[f] = attempts[f]
  PROVE  ClaimsPaid(f)'
<1> DEFINE T == Claims(f)
<1>1. IsFiniteSet(T) /\ Cardinality(T) \in Nat
      /\ Began(f) + Cardinality(T) <= attempts[f]
  BY FS_CardinalityType DEF ClaimsPaid
<1>2. /\ IsFiniteSet(T \ {x}) /\ Cardinality(T \ {x}) = Cardinality(T) - 1
      /\ Cardinality(T \ {x}) \in Nat
  <2>1. x \in T
    OBVIOUS
  <2> HIDE DEF T
  <2>2. IsFiniteSet(T \ {x}) /\ Cardinality(T \ {x}) = Cardinality(T) - 1
    BY <1>1, <2>1, FS_RemoveElement
  <2> QED BY <2>2, FS_CardinalityType
<1>3. /\ IsFiniteSet(Claims(f)')
      /\ Cardinality(Claims(f)') <= Cardinality(T \ {x})
  BY <1>2, FS_Subset
<1>4. Cardinality(Claims(f)') \in Nat
  BY <1>3, FS_CardinalityType
<1>5. Began(f) + 1 + Cardinality(Claims(f)') <= attempts[f]
  BY <1>1, <1>2, <1>3, <1>4
<1> QED BY <1>3, <1>5 DEF ClaimsPaid

LEMMA PostingKeeps ==
  ASSUME BothInv, Counting, NoMore, NEW f \in Posts, Posting(f)
  PROVE  NoMore'
<1>1. /\ SenderInv /\ SenderTypeOK /\ (Request(f) \/ HangUp(f) \/ Post(f))
      /\ UNCHANGED <<rvars, copies, nth>>
  BY DEF Posting, history, BothInv, SenderInv
<1>2. /\ UNCHANGED <<uuid, job, workChan, active, crashed, nth>>
      /\ \A h \in Posts : Began(h)' = Began(h)
  BY <1>1 DEF rvars, Began
<1> SUFFICES ASSUME ~crashed', NEW h \in Posts
             PROVE  ClaimsPaid(h)'
  BY DEF NoMore
<1>3. ClaimsPaid(h) /\ Began(h) \in Nat /\ attempts[h] \in Nat
  BY <1>2 DEF NoMore, Counting
<1> DEFINE asked == <<"asked", 0, 0>>
           begun == <<"net", Head(workers), Len(net[Head(workers)]) + 1>>
<1>4. ASSUME NEW x \in Claims(h)'
      PROVE  \/ x \in Claims(h)
             \/ x = asked /\ pc'[h] = "queued" /\ pc[h] # "queued"
             \/ x = begun /\ h = f /\ WakesUp(f)
  <2>1. /\ x = <<x[1], x[2], x[3]>>
        /\ IsClaim(h, x[1], x[2], x[3])'
    BY ClaimThen
  <2>2. IsClaim(h, x[1], x[2], x[3]) => x \in Claims(h)
    BY <2>1, ClaimsAre
  <2>3. CASE x[1] = "asked"
    BY <2>1, <2>2, <2>3 DEF IsClaim
  <2>4. CASE x[1] = "net"
    <3>1. x[2] \in Ports /\ Begins(h, x[2], x[3])'
      BY <2>1, <2>4 DEF IsClaim
    <3>2. \/ Begins(h, x[2], x[3])
          \/ h = f /\ WakesUp(f) /\ x[2] = Head(workers)
             /\ x[3] = Len(net[x[2]]) + 1
      BY <1>1, <1>2, <3>1, WireClaims
    <3> QED BY <2>1, <2>2, <2>4, <3>1, <3>2 DEF IsClaim
  <2>5. CASE x[1] \in {"job", "chan", "hand"}
    <3>1. \A file : HeaderIntact(h, file)' = HeaderIntact(h, file)
      BY DEF HeaderIntact
    <3>2. IsClaim(h, x[1], x[2], x[3])
      BY <1>2, <2>1, <2>5 DEF IsClaim, HeaderIntact
    <3> QED BY <2>2, <3>2
  <2> QED BY <2>1, <2>3, <2>4, <2>5 DEF IsClaim
<1> HIDE DEF begun
<1>5. CASE attempts' = [attempts EXCEPT ![f] = @ + 1] /\ ~WakesUp(f)
           /\ \A g \in Posts \ {f} : pc'[g] = pc[g]
  <2>1. CASE h = f
    <3>1. Claims(h)' \subseteq Claims(h) \cup {asked}
      BY <1>4, <1>5
    <3>2. attempts'[h] = attempts[h] + 1
      BY <1>5, <2>1 DEF Counting
    <3> HIDE DEF asked
    <3> QED BY <1>2, <1>3, <3>1, <3>2, PaidWhenPosted
  <2>2. CASE h # f
    <3>1. Claims(h)' \subseteq Claims(h)
      BY <1>4, <1>5, <2>2
    <3>2. attempts'[h] = attempts[h]
      BY <1>5, <2>2 DEF Counting
    <3> QED BY <1>2, <1>3, <3>1, <3>2, PaidWhenSubset
  <2> QED BY <2>1, <2>2
<1>6. CASE attempts' = attempts
           /\ \A g \in Posts : pc'[g] = "queued" => pc[g] = "queued"
  <2>1. CASE h = f /\ WakesUp(f)
    <3>1. pc[f] = "queued" /\ pc'[f] = "buffer"
      BY <2>1 DEF WakesUp, TakesHead
    <3>2. asked \in Claims(h)
      BY <2>1, <3>1, ClaimsAre DEF IsClaim
    <3>3. asked \notin Claims(h)'
      BY <2>1, <3>1 DEF Claims, IsClaim
    <3>4. Claims(h)' \subseteq (Claims(h) \ {asked}) \cup {begun}
      BY <1>4, <1>6, <3>3
    <3> HIDE DEF asked
    <3> QED BY <1>2, <1>3, <1>6, <3>2, <3>4, PaidWhenSwapped
  <2>2. CASE ~(h = f /\ WakesUp(f))
    <3>1. Claims(h)' \subseteq Claims(h)
      BY <1>4, <1>6, <2>2
    <3> QED BY <1>2, <1>3, <1>6, <3>1, PaidWhenSubset
  <2> QED BY <2>1, <2>2
<1> QED BY <1>1, <1>5, <1>6, PostCounts

-----------------------------------------------------------------------------
(* A job that a thread takes off the channel is the claim it was; one that *)
(* is sent on has been paid.                                               *)
LEMMA DispatchKeeps ==
  ASSUME BothInv, Counting, NoMore, NEW t \in Threads, Dispatch(t),
         UNCHANGED <<svars, copies, nth>>
  PROVE  NoMore'
<1>1. /\ workChan \in Seq(Job) /\ workChan # << >> /\ workChan' = Tail(workChan)
      /\ active \in [Threads -> Job \cup {NoJob}]
      /\ active' = [active EXCEPT ![t] = Head(workChan)]
      /\ UNCHANGED <<uuid, job, crashed, pc, worker, net, attempts, nth>>
      /\ \A h \in Posts : Began(h)' = Began(h)
  BY DEF BothInv, TypeOK, Dispatch, svars, Began
<1>2. /\ Len(workChan) \in Nat \ {0} /\ workChan[1] = Head(workChan)
      /\ Len(workChan') = Len(workChan) - 1 /\ workChan[1] \in Job
      /\ \A i \in 1 .. Len(workChan) - 1 : workChan'[i] = workChan[i + 1]
  BY <1>1, HeadTailProperties
<1> SUFFICES ASSUME ~crashed', NEW h \in Posts
             PROVE  ClaimsPaid(h)'
  BY DEF NoMore
<1>3. ClaimsPaid(h) /\ Began(h) \in Nat /\ attempts[h] \in Nat
  BY <1>1 DEF NoMore, Counting
<1> DEFINE Was(x) == IF x[1] = "chan" THEN <<"chan", 0, x[3] + 1>>
                     ELSE IF x = <<"hand", t, 0>> THEN <<"chan", 0, 1>>
                     ELSE x
<1>4. ASSUME NEW x \in Claims(h)'
      PROVE  Was(x) \in Claims(h) /\ (x[1] = "chan" => x[2] = 0 /\ x[3] >= 1)
  <2>1. /\ x = <<x[1], x[2], x[3]>> /\ x[3] \in Nat
        /\ IsClaim(h, x[1], x[2], x[3])'
    BY ClaimThen
  <2>2. CASE x[1] = "chan"
    <3>1. /\ x[2] = 0 /\ x[3] \in 1 .. Len(workChan) - 1
          /\ HeaderIntact(h, Image(workChan[x[3] + 1]))
      BY <1>2, <2>1, <2>2 DEF IsClaim, HeaderIntact
    <3>2. x[3] + 1 \in 1 .. Len(workChan)
      BY <1>2, <3>1
    <3>3. <<"chan", 0, x[3] + 1>> \in Claims(h)
      BY <3>1, <3>2, ClaimsAre DEF IsClaim
    <3> QED BY <2>2, <3>1, <3>3
  <2>3. CASE x = <<"hand", t, 0>>
    <3>1. HeaderIntact(h, Image(workChan[1]))
      BY <1>1, <1>2, <2>1, <2>3 DEF IsClaim, HeaderIntact
    <3>2. <<"chan", 0, 1>> \in Claims(h)
      BY <1>2, <3>1, ClaimsAre DEF IsClaim
    <3> QED BY <2>3, <3>2
  <2>4. CASE x[1] = "hand" /\ x[2] # t
    <3>1. active'[x[2]] = active[x[2]]
      BY <1>1, <2>1, <2>4 DEF IsClaim
    <3>2. IsClaim(h, x[1], x[2], x[3])
      BY <2>1, <2>4, <3>1 DEF IsClaim, HeaderIntact
    <3> QED BY <2>1, <2>4, <3>2, ClaimsAre
  <2>5. CASE x[1] \in {"asked", "net", "job"}
    <3>1. IsClaim(h, x[1], x[2], x[3])
      BY <1>1, <2>1, <2>5 DEF IsClaim, Begins
    <3> QED BY <2>1, <2>5, <3>1, ClaimsAre
  <2>6. x[1] = "hand" /\ x[2] = t => x = <<"hand", t, 0>>
    BY <2>1 DEF IsClaim
  <2> QED BY <2>1, <2>2, <2>3, <2>4, <2>5, <2>6 DEF IsClaim
<1> DEFINE m == [x \in Claims(h)' |-> Was(x)]
<1>5. m \in [Claims(h)' -> Claims(h)]
  BY <1>4
<1>6. ASSUME NEW x \in Claims(h)', NEW y \in Claims(h)', Was(x) = Was(y)
      PROVE  x = y
  <2>1. /\ x = <<x[1], x[2], x[3]>> /\ x[3] \in Nat
        /\ y = <<y[1], y[2], y[3]>> /\ y[3] \in Nat
    BY ClaimThen
  <2>2. /\ x[1] = "chan" => x[2] = 0 /\ x[3] >= 1
        /\ y[1] = "chan" => y[2] = 0 /\ y[3] >= 1
    BY <1>4
  <2> QED BY <1>6, <2>1, <2>2
<1>7. \A x, y \in Claims(h)' : m[x] = m[y] => x = y
  BY <1>6
<1>8. /\ IsFiniteSet(Claims(h)')
      /\ Cardinality(Claims(h)') <= Cardinality(Claims(h))
  <2>1. IsFiniteSet(Claims(h))
    BY <1>3 DEF ClaimsPaid
  <2> HIDE DEF m
  <2> QED BY <1>5, <1>7, <2>1, Moved
<1> QED BY <1>1, <1>3, <1>8, PaidWhenFewer

(* What a thread does with its file, and with the count of its copies.     *)
Stays == UNCHANGED <<uuid, job, workChan, pc, worker, net, attempts, crashed>>

Takes(t, f) ==
  /\ Sends(t, f) /\ Counts(t, f)
  /\ \/ active' = [active EXCEPT ![t] = NoJob]
     \/ active' = active /\ tries[t] < RetryCount
        /\ tries' = [tries EXCEPT ![t] = @ + 1]

LetsGo(t) ==
  /\ copies' = copies
  /\ \/ /\ active' = [active EXCEPT ![t] = NoJob]
        /\ nth' = [nth EXCEPT ![t] = 0]
     \/ /\ active' = active /\ nth' = nth /\ active[t] # NoJob
        /\ tries[t] < RetryCount /\ tries' = [tries EXCEPT ![t] = @ + 1]

LEMMA WorkingDoes ==
  ASSUME TypeOK, nth \in [Threads -> Nat], NEW t \in Threads, Working(t)
  PROVE  \/ Dispatch(t) /\ UNCHANGED <<svars, copies, nth>>
         \/ /\ Stays /\ ~crashed /\ \A u \in Threads \ {t} : tries'[u] = tries[u]
            /\ LetsGo(t) \/ \E f \in Posts : Takes(t, f)
<1>1. /\ UNCHANGED <<svars, pc, worker, net, attempts>>
      /\ active \in [Threads -> Job \cup {NoJob}] /\ workChan \in Seq(Job)
      /\ tries \in [Threads -> 0 .. RetryCount]
  BY DEF Working, WorkerStep, svars, TypeOK
<1>2. CASE Dispatch(t) /\ CountsNone(t)
  <2>1. active' = [active EXCEPT ![t] = Head(workChan)] /\ Head(workChan) \in Job
    BY <1>1, <1>2 DEF Dispatch
  <2>2. active'[t] # NoJob
    BY <1>1, <2>1, NilAssumption
  <2>3. nth' = [nth EXCEPT ![t] = nth[t]] /\ copies' = copies
    BY <1>2, <2>2 DEF CountsNone
  <2>4. nth' = nth
    BY <2>3
  <2> QED BY <1>1, <1>2, <2>3, <2>4
<1>3. ASSUME Release(t)
      PROVE  /\ active' = [active EXCEPT ![t] = NoJob] /\ active'[t] = NoJob
             /\ UNCHANGED <<uuid, job, workChan, crashed>>
             /\ \A u \in Threads \ {t} : tries'[u] = tries[u]
  BY <1>1, <1>3 DEF Release
<1>4. CASE (Reject(t) \/ Discard(t)) /\ CountsNone(t)
  BY <1>1, <1>3, <1>4 DEF Reject, Discard, CountsNone, Stays, LetsGo
<1>5. ASSUME NEW f \in Posts, Attempt(t, f)
      PROVE  /\ ~crashed /\ active[t] # NoJob /\ Sends(t, f)
             /\ UNCHANGED <<uuid, job, workChan, crashed>>
             /\ \A u \in Threads \ {t} : tries'[u] = tries[u]
             /\ \/ active' = [active EXCEPT ![t] = NoJob] /\ active'[t] = NoJob
                \/ active' = active /\ tries[t] < RetryCount
                   /\ tries' = [tries EXCEPT ![t] = @ + 1]
  <2>1. Sends(t, f) /\ ~crashed /\ active[t] # NoJob
    BY <1>5, AttemptDoes DEF Sends
  <2>2. CASE Release(t)
    BY <1>3, <2>1, <2>2
  <2>3. CASE /\ UNCHANGED <<uuid, job, done, workChan, active, tmpFiles, crashed>>
             /\ tries[t] < RetryCount
             /\ tries' = [tries EXCEPT ![t] = @ + 1]
    BY <1>1, <2>1, <2>3
  <2> QED BY <1>5, <2>2, <2>3, AttemptDoes
<1>6. ASSUME NEW f \in Posts, SendFails(t, f), CountsNone(t)
      PROVE  Stays /\ LetsGo(t)
  <2>1. Attempt(t, f)
    BY <1>6 DEF Attempt
  <2>2. nth' = [nth EXCEPT ![t] = nth[t]] => nth' = nth
    OBVIOUS
  <2> QED BY <1>1, <1>5, <1>6, <2>1, <2>2 DEF CountsNone, Stays, LetsGo
<1>7. ASSUME NEW f \in Posts, Forward(t, f) \/ LoseAnswer(t, f), Counts(t, f)
      PROVE  Stays /\ Takes(t, f)
  <2>1. Attempt(t, f)
    BY <1>7 DEF Attempt
  <2> QED BY <1>1, <1>5, <1>7, <2>1 DEF Stays, Takes
<1>8. ASSUME NEW f \in Posts,
             Forward(t, f) \/ LoseAnswer(t, f) \/ SendFails(t, f)
      PROVE  ~crashed /\ \A u \in Threads \ {t} : tries'[u] = tries[u]
  BY <1>5, <1>8 DEF Attempt
<1>9. Reject(t) \/ Discard(t) =>
        ~crashed /\ \A u \in Threads \ {t} : tries'[u] = tries[u]
  BY <1>3 DEF Reject, Discard
<1> QED BY <1>2, <1>4, <1>6, <1>7, <1>8, <1>9 DEF Working, WorkerStep

(* The copies of a thread's file are in their place, no more of them than  *)
(* attempts that failed, and no other thread counts there.                 *)
Placed(t, f) ==
  active[t] # NoJob /\ nth[t] # 0 /\ HeaderIntact(f, Image(active[t]))

CopiesInPlace ==
  /\ \A t \in Threads : nth[t] # 0 => active[t] # NoJob
  /\ \A t \in Threads, f \in Posts : Placed(t, f) =>
       nth[t] \in 1 .. Len(copies[f]) /\ copies[f][nth[t]] <= tries[t]
  /\ \A t, u \in Threads, f \in Posts :
       Placed(t, f) /\ Placed(u, f) /\ t # u => nth[t] # nth[u]

(* One more copy: the first of a file gets a place of its own, and a       *)
(* further one is counted in the same place.                               *)
LEMMA CopyCounted ==
  ASSUME Counting, nth \in [Threads -> Nat], CopiesInPlace,
         NEW t \in Threads, NEW f \in Posts, Takes(t, f)
  PROVE  /\ copies' \in [Posts -> Seq(Nat)] /\ nth' \in [Threads -> Nat]
         /\ \A h \in Posts \ {f} : copies'[h] = copies[h]
         /\ \A u \in Threads \ {t} : nth'[u] = nth[u]
         /\ IF active'[t] = NoJob THEN nth'[t] = 0
            ELSE nth'[t] = IF nth[t] = 0 THEN Began(f) + 1 ELSE nth[t]
         /\ IF nth[t] = 0
            THEN /\ Began(f)' = Began(f) + 1
                 /\ copies' = [copies EXCEPT ![f] = Append(@, 1)]
                 /\ \A i \in 1 .. Began(f) : copies'[f][i] = copies[f][i]
                 /\ copies'[f][Began(f) + 1] = 1
            ELSE /\ nth[t] \in 1 .. Began(f) /\ Began(f)' = Began(f)
                 /\ copies' = [copies EXCEPT ![f][nth[t]] = @ + 1]
                 /\ copies[f][nth[t]] <= tries[t] /\ copies[f][nth[t]] \in Nat
                 /\ \A i \in 1 .. Began(f) : copies'[f][i] =
                      IF i = nth[t] THEN copies[f][i] + 1 ELSE copies[f][i]
<1>1. /\ copies \in [Posts -> Seq(Nat)] /\ copies[f] \in Seq(Nat)
      /\ Began(f) = Len(copies[f]) /\ Began(f) \in Nat
      /\ active[t] # NoJob /\ HeaderIntact(f, Image(active[t])) /\ Counts(t, f)
  BY DEF Counting, Began, Takes, Sends
<1>2. CASE nth[t] = 0
  <2> DEFINE s == Append(copies[f], 1)
  <2>1. /\ copies' = [copies EXCEPT ![f] = s]
        /\ nth' = [nth EXCEPT ![t] = IF active'[t] = NoJob THEN 0
                                     ELSE Began(f) + 1]
    BY <1>1, <1>2 DEF Counts
  <2>2. /\ s \in Seq(Nat) /\ Len(s) = Began(f) + 1 /\ s[Began(f) + 1] = 1
        /\ \A i \in 1 .. Began(f) : s[i] = copies[f][i]
    BY <1>1, AppendProperties
  <2>4. copies' = [copies EXCEPT ![f] = Append(@, 1)]
    BY <2>1
  <2> HIDE DEF s
  <2>3. copies'[f] = s /\ Began(f)' = Len(s)
    BY <1>1, <2>1 DEF Began
  <2>5. /\ copies' \in [Posts -> Seq(Nat)] /\ nth' \in [Threads -> Nat]
        /\ \A h \in Posts \ {f} : copies'[h] = copies[h]
        /\ \A u \in Threads \ {t} : nth'[u] = nth[u]
        /\ nth'[t] = IF active'[t] = NoJob THEN 0 ELSE Began(f) + 1
    BY <1>1, <2>1, <2>2
  <2>6. /\ Began(f)' = Began(f) + 1
        /\ \A i \in 1 .. Began(f) : copies'[f][i] = copies[f][i]
        /\ copies'[f][Began(f) + 1] = 1
    BY <2>2, <2>3
  <2> QED BY <1>2, <2>4, <2>5, <2>6
<1>3. CASE nth[t] # 0
  <2> DEFINE n == nth[t]
             s == [copies[f] EXCEPT ![n] = copies[f][n] + 1]
  <2>1. n \in 1 .. Began(f) /\ copies[f][n] <= tries[t] /\ copies[f][n] \in Nat
    <3>1. Placed(t, f)
      BY <1>1, <1>3 DEF Placed
    <3> QED BY <1>1, <3>1 DEF CopiesInPlace
  <2>2. /\ copies' = [copies EXCEPT ![f] = s]
        /\ nth' = [nth EXCEPT ![t] = IF active'[t] = NoJob THEN 0 ELSE n]
        /\ copies' = [copies EXCEPT ![f][nth[t]] = @ + 1]
    BY <1>1, <1>3 DEF Counts
  <2> HIDE DEF n
  <2>3. copies[f][n] + 1 \in Nat
    BY <2>1
  <2>4. /\ s \in Seq(Nat) /\ Len(s) = Began(f)
        /\ \A i \in 1 .. Began(f) :
             s[i] = IF i = n THEN copies[f][n] + 1 ELSE copies[f][i]
    BY <1>1, <2>1, <2>3, ExceptSeq
  <2> HIDE DEF s
  <2>5. copies'[f] = s /\ Began(f)' = Len(s)
    BY <1>1, <2>2 DEF Began
  <2>6. n \in Nat
    BY <2>1, <1>1
  <2> QED BY <1>1, <1>3, <2>1, <2>2, <2>4, <2>5, <2>6 DEF n
<1> QED BY <1>2, <1>3

LEMMA CopiesStay ==
  ASSUME TypeOK, Counting, nth \in [Threads -> Nat], CopiesInPlace,
         NEW t \in Threads, Working(t)
  PROVE  copies' \in [Posts -> Seq(Nat)] /\ nth' \in [Threads -> Nat]
         /\ CopiesInPlace'
<1>1. /\ active \in [Threads -> Job \cup {NoJob}]
      /\ tries \in [Threads -> 0 .. RetryCount] /\ RetryCount \in Nat
      /\ copies \in [Posts -> Seq(Nat)]
      /\ \A u \in Threads : tries[u] \in Nat
      /\ \A f \in Posts : Began(f) \in Nat /\ Began(f) = Len(copies[f])
  BY ReceiverAssumption DEF TypeOK, Counting, Began
<1>2. CASE Dispatch(t) /\ UNCHANGED <<svars, copies, nth>>
  <2>1. /\ active[t] = NoJob /\ nth[t] = 0 /\ tries' = tries
        /\ \A u \in Threads \ {t} : active'[u] = active[u]
    BY <1>1, <1>2 DEF Dispatch, CopiesInPlace
  <2>2. \A u \in Threads, f \in Posts : Placed(u, f)' => Placed(u, f) /\ u # t
    BY <1>2, <2>1 DEF Placed, HeaderIntact
  <2> QED BY <1>1, <1>2, <2>1, <2>2 DEF CopiesInPlace
<1>3. CASE LetsGo(t) /\ \A u \in Threads \ {t} : tries'[u] = tries[u]
  <2>1. \A u \in Threads : /\ nth'[u] \in {0, nth[u]}
                           /\ active'[u] = active[u] \/ nth'[u] = 0
    BY <1>1, <1>3 DEF LetsGo
  <2>2. \A u \in Threads, f \in Posts : Placed(u, f)' => Placed(u, f) /\ nth'[u] = nth[u]
    BY <2>1 DEF Placed, HeaderIntact
  <2>3. \A u \in Threads, f \in Posts : Placed(u, f)' => tries[u] <= tries'[u]
    <3>1. CASE nth' = [nth EXCEPT ![t] = 0]
      <4>1. \A f \in Posts : ~Placed(t, f)'
        BY <3>1 DEF Placed
      <4> QED BY <1>1, <1>3, <4>1
    <3>2. CASE tries' = [tries EXCEPT ![t] = @ + 1]
      BY <1>1, <3>2
    <3> QED BY <1>3, <3>1, <3>2 DEF LetsGo
  <2>4. copies' = copies /\ nth' \in [Threads -> Nat]
    BY <1>3 DEF LetsGo
  <2>5. \A u \in Threads : nth'[u] # 0 => active'[u] # NoJob
    BY <2>1 DEF CopiesInPlace
  <2>6. ASSUME NEW u \in Threads, NEW f \in Posts, Placed(u, f)'
        PROVE  nth'[u] \in 1 .. Len(copies'[f]) /\ copies'[f][nth'[u]] <= tries'[u]
    <3>1. /\ nth[u] \in 1 .. Len(copies[f]) /\ copies[f][nth[u]] <= tries[u]
          /\ nth'[u] = nth[u] /\ tries[u] <= tries'[u]
      BY <2>2, <2>3, <2>6 DEF CopiesInPlace
    <3>2. copies[f][nth[u]] \in Nat /\ tries[u] \in Nat /\ tries'[u] \in Nat
      <4>1. copies[f] \in Seq(Nat)
        BY <1>1
      <4>2. tries'[u] = tries[u] \/ tries'[u] = tries[u] + 1
        <5>1. nth' = [nth EXCEPT ![t] = 0] => u # t
          BY <2>6 DEF Placed
        <5> QED BY <1>1, <1>3, <5>1 DEF LetsGo
      <4> QED BY <1>1, <3>1, <4>1, <4>2
    <3> QED BY <2>4, <3>1, <3>2
  <2> QED BY <2>2, <2>4, <2>5, <2>6, <1>1 DEF CopiesInPlace
<1>4. ASSUME NEW f \in Posts, Takes(t, f),
             \A u \in Threads \ {t} : tries'[u] = tries[u]
      PROVE  copies' \in [Posts -> Seq(Nat)] /\ nth' \in [Threads -> Nat]
             /\ CopiesInPlace'
  <2>1. /\ copies' \in [Posts -> Seq(Nat)] /\ nth' \in [Threads -> Nat]
        /\ \A h \in Posts \ {f} : copies'[h] = copies[h]
        /\ \A u \in Threads \ {t} : nth'[u] = nth[u]
        /\ IF active'[t] = NoJob THEN nth'[t] = 0
           ELSE nth'[t] = IF nth[t] = 0 THEN Began(f) + 1 ELSE nth[t]
        /\ IF nth[t] = 0
           THEN /\ Began(f)' = Began(f) + 1
                /\ \A i \in 1 .. Began(f) : copies'[f][i] = copies[f][i]
                /\ copies'[f][Began(f) + 1] = 1
           ELSE /\ nth[t] \in 1 .. Began(f) /\ Began(f)' = Began(f)
                /\ copies[f][nth[t]] <= tries[t] /\ copies[f][nth[t]] \in Nat
                /\ \A i \in 1 .. Began(f) : copies'[f][i] =
                     IF i = nth[t] THEN copies[f][i] + 1 ELSE copies[f][i]
    BY <1>4, CopyCounted
  <2>2. /\ active[t] # NoJob /\ HeaderIntact(f, Image(active[t]))
        /\ \A u \in Threads \ {t} : active'[u] = active[u]
        /\ active'[t] # NoJob => active'[t] = active[t] /\ tries'[t] = tries[t] + 1
    BY <1>1, <1>4 DEF Takes, Sends
  <2>3. \A u \in Threads \ {t}, h \in Posts :
          /\ Placed(u, h)' => Placed(u, h)
          /\ Placed(u, h) => nth[u] \in 1 .. Len(copies[h]) /\ copies[h][nth[u]] <= tries[u]
    BY <2>1, <2>2 DEF Placed, HeaderIntact, CopiesInPlace
  <2>4. \A h \in Posts : Placed(t, h)' => h = f /\ active'[t] # NoJob
    <3>1. 0 \in Cell /\ 0 < SentHeaderLen(f)
      BY Lengths DEF Cell
    <3>2. Image(active[t])[0] = <<f, 0>>
      BY <2>2, <3>1 DEF HeaderIntact
    <3>3. \A h \in Posts : Placed(t, h)' => HeaderIntact(h, Image(active[t]))
                                          /\ active'[t] # NoJob
      BY <2>2 DEF Placed, HeaderIntact
    <3> QED BY <3>2, <3>3, HeaderTells
  <2>5. \A u \in Threads : nth'[u] # 0 => active'[u] # NoJob
    BY <2>1, <2>2 DEF CopiesInPlace
  <2>6. Len(copies'[f]) = Began(f)'
    BY DEF Began
  <2>7. ASSUME Placed(t, f)'
        PROVE  nth'[t] \in 1 .. Len(copies'[f]) /\ copies'[f][nth'[t]] <= tries'[t]
    <3>1. /\ active'[t] # NoJob /\ tries'[t] = tries[t] + 1
          /\ nth'[t] = IF nth[t] = 0 THEN Began(f) + 1 ELSE nth[t]
      BY <2>1, <2>2, <2>4, <2>7
    <3>2. tries[t] \in Nat /\ Began(f) \in Nat
      BY <1>1, LenProperties DEF Began
    <3>3. CASE nth[t] = 0
      BY <2>1, <2>6, <3>1, <3>2, <3>3
    <3>4. CASE nth[t] # 0
      BY <2>1, <2>6, <3>1, <3>2, <3>4
    <3> QED BY <3>3, <3>4
  <2>8. ASSUME NEW u \in Threads \ {t}, NEW h \in Posts, Placed(u, h)'
        PROVE  /\ nth'[u] \in 1 .. Len(copies'[h])
               /\ copies'[h][nth'[u]] <= tries'[u]
               /\ h = f => nth'[u] \in 1 .. Began(f) /\ nth'[u] # nth[t]
    <3>1. /\ nth'[u] = nth[u] /\ tries'[u] = tries[u] /\ Placed(u, h)
          /\ nth[u] \in 1 .. Len(copies[h]) /\ copies[h][nth[u]] <= tries[u]
      BY <1>4, <2>1, <2>3, <2>8
    <3>2. CASE h # f
      BY <2>1, <3>1, <3>2
    <3>3. CASE h = f
      <4>1. nth[u] # nth[t]
        <5>1. nth[t] # 0 => Placed(t, f)
          BY <2>2 DEF Placed
        <5>2. nth[u] # 0
          BY <3>1 DEF Placed
        <5> QED BY <3>1, <3>3, <5>1, <5>2 DEF CopiesInPlace
      <4>2. nth[u] \in 1 .. Began(f) /\ Began(f) \in Nat
        BY <1>1, <3>1, <3>3
      <4>3. Began(f)' = Began(f) + 1 \/ Began(f)' = Began(f)
        BY <2>1
      <4>4. copies'[f][nth[u]] = copies[f][nth[u]]
        BY <2>1, <4>1, <4>2
      <4>5. nth[u] \in 1 .. Len(copies'[f])
        BY <2>6, <4>2, <4>3
      <4> QED BY <3>1, <3>3, <4>1, <4>2, <4>4, <4>5
    <3> QED BY <3>2, <3>3
  <2>9. ASSUME NEW u \in Threads \ {t}, Placed(t, f)', Placed(u, f)'
        PROVE  nth'[u] # nth'[t]
    <3>1. nth'[u] \in 1 .. Began(f) /\ nth'[u] # nth[t]
      BY <2>8, <2>9
    <3>2. nth'[t] = Began(f) + 1 \/ nth'[t] = nth[t]
      BY <2>1, <2>4, <2>9
    <3> QED BY <1>1, <3>1, <3>2
  <2>10. \A u, v \in Threads \ {t}, h \in Posts :
           Placed(u, h)' /\ Placed(v, h)' /\ u # v => nth'[u] # nth'[v]
    BY <2>1, <2>3 DEF CopiesInPlace
  <2>11. \A u \in Threads, h \in Posts : Placed(u, h)' =>
           nth'[u] \in 1 .. Len(copies'[h]) /\ copies'[h][nth'[u]] <= tries'[u]
    BY <2>4, <2>7, <2>8
  <2>12. \A u, v \in Threads, h \in Posts :
           Placed(u, h)' /\ Placed(v, h)' /\ u # v => nth'[u] # nth'[v]
    BY <2>4, <2>9, <2>10
  <2> QED BY <2>1, <2>5, <2>11, <2>12 DEF CopiesInPlace
<1> QED BY <1>2, <1>3, <1>4, WorkingDoes

LEMMA WorkingKeeps ==
  ASSUME BothInv, Counting, NoMore, nth \in [Threads -> Nat], CopiesInPlace,
         NEW t \in Threads, Working(t)
  PROVE  /\ NoMore'
         /\ \A f \in Posts : Takes(t, f) /\ nth[t] = 0 => Began(f) < attempts[f]
<1>1. active \in [Threads -> Job \cup {NoJob}] /\ TypeOK
  BY DEF BothInv, TypeOK
<1>2. ASSUME Dispatch(t), UNCHANGED <<svars, copies, nth>>
      PROVE  NoMore'
  BY <1>2, DispatchKeeps
<1>3. ASSUME NEW h \in Posts, Stays,
             \/ active' = [active EXCEPT ![t] = NoJob] \/ active' = active,
             \A u \in Threads \ {t} : nth'[u] = nth[u],
             active'[t] # NoJob /\ nth'[t] = 0 => nth[t] = 0,
             NEW x \in Claims(h)'
      PROVE  /\ x \in Claims(h)
             /\ active'[t] = NoJob \/ nth'[t] # 0 => x # <<"hand", t, 0>>
  <2>1. /\ x = <<x[1], x[2], x[3]>>
        /\ IsClaim(h, x[1], x[2], x[3])'
    BY ClaimThen
  <2>2. CASE x[1] = "hand"
    <3>1. /\ x[2] \in Threads /\ x[3] = 0 /\ active'[x[2]] # NoJob
          /\ nth'[x[2]] = 0 /\ HeaderIntact(h, Image(active'[x[2]]))
      BY <2>1, <2>2 DEF IsClaim, HeaderIntact
    <3>2. active'[x[2]] = active[x[2]]
      BY <1>1, <1>3, <3>1
    <3>3. nth[x[2]] = 0
      BY <1>3, <3>1
    <3>4. IsClaim(h, x[1], x[2], x[3])
      BY <2>2, <3>1, <3>2, <3>3 DEF IsClaim
    <3> QED BY <2>1, <3>1, <3>4, ClaimsAre
  <2>3. CASE x[1] # "hand"
    <3>1. IsClaim(h, x[1], x[2], x[3])
      BY <1>3, <2>1, <2>3 DEF IsClaim, Begins, HeaderIntact, Stays
    <3> QED BY <2>1, <2>3, <3>1, ClaimsAre
  <2> QED BY <2>2, <2>3
<1>4. ASSUME LetsGo(t), Stays, ~crashed
      PROVE  NoMore'
  <2>1. /\ \/ active' = [active EXCEPT ![t] = NoJob] \/ active' = active
        /\ \A u \in Threads \ {t} : nth'[u] = nth[u]
        /\ active'[t] # NoJob /\ nth'[t] = 0 => nth[t] = 0
    BY <1>1, <1>4 DEF LetsGo
  <2>2. ASSUME NEW h \in Posts
        PROVE  ClaimsPaid(h)'
    <3>1. ClaimsPaid(h) /\ Began(h) \in Nat /\ attempts[h] \in Nat
      BY <1>4 DEF NoMore, Counting
    <3>2. Claims(h)' \subseteq Claims(h)
      BY <1>3, <1>4, <2>1
    <3>3. Began(h)' = Began(h) /\ attempts' = attempts
      BY <1>4 DEF LetsGo, Began, Stays
    <3> QED BY <3>1, <3>2, <3>3, PaidWhenSubset
  <2> QED BY <2>2 DEF NoMore
<1>5. ASSUME NEW f \in Posts, Takes(t, f), nth[t] = 0
      PROVE  /\ ClaimsPaid(f) /\ <<"hand", t, 0>> \in Claims(f)
             /\ Began(f) < attempts[f]
  <2>1. ~crashed /\ ClaimsPaid(f) /\ <<"hand", t, 0>> \in Claims(f)
    BY <1>5, ClaimsAre DEF NoMore, Takes, Sends, IsClaim
  <2>2. Cardinality(Claims(f)) \in Nat \ {0}
    BY <2>1, FS_CardinalityType, FS_EmptySet DEF ClaimsPaid
  <2>3. /\ Began(f) \in Nat /\ attempts[f] \in Nat
        /\ Began(f) + Cardinality(Claims(f)) <= attempts[f]
    BY <2>1 DEF ClaimsPaid, Counting
  <2> QED BY <2>1, <2>2, <2>3
<1>6. ASSUME NEW f \in Posts, Takes(t, f), Stays
      PROVE  NoMore'
  <2>1. /\ ~crashed /\ attempts' = attempts
        /\ \/ active' = [active EXCEPT ![t] = NoJob] \/ active' = active
    BY <1>6 DEF Takes, Sends, Stays
  <2>2. /\ \A h \in Posts \ {f} : Began(h)' = Began(h)
        /\ \A u \in Threads \ {t} : nth'[u] = nth[u]
    BY <1>6, CopyCounted DEF Began
  <2>3. /\ nth[t] = 0 => Began(f)' = Began(f) + 1
        /\ nth[t] # 0 => Began(f)' = Began(f)
    BY <1>6, CopyCounted
  <2>4. active'[t] = NoJob \/ nth'[t] # 0
    <3>1. Began(f) + 1 # 0
      BY DEF Counting
    <3> QED BY <1>6, <3>1, CopyCounted
  <2>5. ASSUME NEW h \in Posts
        PROVE  ClaimsPaid(h)'
    <3>1. ClaimsPaid(h) /\ Began(h) \in Nat /\ attempts[h] \in Nat
      BY <2>1 DEF NoMore, Counting
    <3>2. \A x \in Claims(h)' : x \in Claims(h) /\ x # <<"hand", t, 0>>
      BY <1>3, <1>6, <2>1, <2>2, <2>4
    <3>3. Claims(h)' \subseteq Claims(h) \ {<<"hand", t, 0>>}
      BY <3>2
    <3>4. CASE h # f \/ nth[t] # 0
      <4>1. Began(h)' = Began(h)
        BY <2>2, <2>3, <3>4
      <4> QED BY <2>1, <3>1, <3>3, <4>1, PaidWhenSubset
    <3>5. CASE h = f /\ nth[t] = 0
      <4>1. <<"hand", t, 0>> \in Claims(h)
        BY <1>5, <1>6, <3>5
      <4>2. Began(h)' = Began(h) + 1
        BY <2>3, <3>5
      <4> QED BY <2>1, <3>1, <3>3, <4>1, <4>2, PaidWhenSent
    <3> QED BY <3>4, <3>5
  <2> QED BY <2>5 DEF NoMore
<1>7. NoMore'
  BY <1>1, <1>2, <1>4, <1>6, WorkingDoes
<1> QED BY <1>5, <1>7

-----------------------------------------------------------------------------
(* A packet that leaves the wire moves the runs behind it up; one that is  *)
(* read may begin to be rebuilt, or hand a job that was on to the channel. *)
LEMMA ShiftsBegins ==
  ASSUME SenderInv, NEW p \in Ports, Shifts(p), worker' = worker,
         NEW f, NEW q \in Ports, NEW i \in Nat, Begins(f, q, i)',
         q # p => uuid'[q] = uuid[q]
  PROVE  /\ i >= 1
         /\ q # p => Begins(f, q, i)
         /\ q = p /\ i # 1 => Begins(f, q, i + 1)
         /\ q = p /\ i = 1 /\ net[p][1].post # f => Begins(f, p, 2)
<1> DEFINE n == Len(net[p])
<1>1. /\ n \in Nat \ {0} /\ Len(net'[p]) = n - 1
      /\ \A k \in 1 .. n - 1 : net'[p][k] = net[p][k + 1]
  BY DEF Shifts
<1>2. i >= 1 /\ i \in 1 .. Len(net'[q]) + 1
  BY DEF Begins
<1>3. CASE q # p
  <2>1. net'[q] = net[q]
    BY <1>3 DEF Shifts
  <2> QED BY <1>2, <1>3, <2>1 DEF Begins
<1>4. CASE q = p
  <2> HIDE DEF n
  <2>1. i \in 1 .. n /\ i + 1 \in 1 .. n + 1 /\ i + 1 # 1 /\ (i + 1) - 1 = i
    BY <1>1, <1>2, <1>4
  <2>2. IF i + 1 <= n THEN net[p][i + 1].post = f ELSE worker[f] = p
    <3>1. CASE i <= n - 1
      <4>1. i \in 1 .. n - 1 /\ i + 1 <= n
        BY <1>1, <2>1, <3>1
      <4>2. net'[p][i].post = f
        BY <1>1, <1>4, <3>1 DEF Begins
      <4> QED BY <1>1, <4>1, <4>2
    <3>2. CASE ~(i <= n - 1)
      <4>1. ~(i + 1 <= n)
        BY <1>1, <2>1, <3>2
      <4>2. worker[f] = p
        BY <1>1, <1>4, <3>2 DEF Begins
      <4> QED BY <4>1, <4>2
    <3> QED BY <3>1, <3>2
  <2>3. i # 1 => net[p][i].post # f
    <3> SUFFICES ASSUME i # 1 PROVE net[p][i].post # f
      OBVIOUS
    <3>1. i - 1 \in 1 .. n - 1 /\ (i - 1) + 1 = i
      BY <1>1, <2>1
    <3>2. net'[p][i - 1].post # f
      BY <1>4 DEF Begins
    <3> QED BY <1>1, <3>1, <3>2
  <2>4. net[p][i].post # f => Begins(f, p, i + 1)
    BY <2>1, <2>2 DEF Begins, n
  <2>5. 1 + 1 = 2
    OBVIOUS
  <2> QED BY <1>2, <1>4, <2>3, <2>4, <2>5
<1> QED BY <1>3, <1>4

LEMMA LosingKeeps ==
  ASSUME BothInv, Counting, NoMore, NEW p \in Ports, Losing(p)
  PROVE  NoMore'
<1>1. /\ SenderInv /\ Shifts(p) /\ \A f \in Posts : Began(f)' = Began(f)
      /\ UNCHANGED <<pc, worker, attempts, uuid, job, workChan, active, crashed, nth>>
  BY TakeShifts DEF BothInv, Losing, Lose, rvars, Began
<1> SUFFICES ASSUME ~crashed', NEW h \in Posts
             PROVE  ClaimsPaid(h)'
  BY DEF NoMore
<1>2. ClaimsPaid(h) /\ Began(h) \in Nat /\ attempts[h] \in Nat
  BY <1>1 DEF NoMore, Counting
<1> DEFINE Was(x) == IF x[1] = "net" /\ x[2] = p
                     THEN IF x[3] = 1 /\ net[p][1].post = h
                          THEN <<"net", p, 1>> ELSE <<"net", p, x[3] + 1>>
                     ELSE x
<1>3. ASSUME NEW x \in Claims(h)'
      PROVE  Was(x) \in Claims(h) /\ (x[1] = "net" => x[3] >= 1)
  <2>1. /\ x = <<x[1], x[2], x[3]>> /\ x[3] \in Nat
        /\ IsClaim(h, x[1], x[2], x[3])'
    BY ClaimThen
  <2>2. CASE x[1] = "net"
    <3>1. x[2] \in Ports /\ Begins(h, x[2], x[3])'
      BY <2>1, <2>2 DEF IsClaim
    <3>2. /\ x[3] >= 1
          /\ x[2] # p => Begins(h, x[2], x[3])
          /\ x[2] = p /\ x[3] # 1 => Begins(h, p, x[3] + 1)
          /\ x[2] = p /\ x[3] = 1 /\ net[p][1].post # h => Begins(h, p, 2)
      BY <1>1, <2>1, <3>1, ShiftsBegins
    <3>3. CASE x[2] = p /\ x[3] = 1 /\ net[p][1].post = h
      <4>1. 1 \in 1 .. Len(net[p]) + 1 /\ 1 <= Len(net[p])
        BY <1>1 DEF Shifts
      <4>2. uuid[p] # Uuid[h]
        BY <1>1, <3>1, <3>3 DEF Begins
      <4>3. Begins(h, p, 1)
        BY <3>3, <4>1, <4>2 DEF Begins
      <4>4. <<"net", p, 1>> \in Claims(h)
        BY <4>3, ClaimsAre DEF IsClaim
      <4> QED BY <2>2, <3>2, <3>3, <4>4
    <3>4. CASE x[2] = p /\ ~(x[3] = 1 /\ net[p][1].post = h)
      <4>1. Begins(h, p, x[3] + 1)
        BY <2>1, <3>2, <3>4
      <4>2. <<"net", p, x[3] + 1>> \in Claims(h)
        BY <4>1, ClaimsAre DEF IsClaim
      <4> QED BY <2>2, <3>2, <3>4, <4>2
    <3>5. CASE x[2] # p
      <4>1. x \in Claims(h)
        BY <2>1, <2>2, <3>1, <3>2, <3>5, ClaimsAre DEF IsClaim
      <4> QED BY <3>2, <3>5, <4>1
    <3> QED BY <3>3, <3>4, <3>5
  <2>3. CASE x[1] # "net"
    <3>1. IsClaim(h, x[1], x[2], x[3])
      BY <1>1, <2>1, <2>3 DEF IsClaim, HeaderIntact
    <3> QED BY <2>1, <2>3, <3>1, ClaimsAre
  <2> QED BY <2>2, <2>3
<1> DEFINE m == [x \in Claims(h)' |-> Was(x)]
<1>4. m \in [Claims(h)' -> Claims(h)]
  BY <1>3
<1>5. ASSUME NEW x \in Claims(h)', NEW y \in Claims(h)', Was(x) = Was(y)
      PROVE  x = y
  <2>1. /\ x = <<x[1], x[2], x[3]>> /\ x[3] \in Nat
        /\ y = <<y[1], y[2], y[3]>> /\ y[3] \in Nat
    BY ClaimThen
  <2>2. /\ x[1] = "net" => x[3] >= 1
        /\ y[1] = "net" => y[3] >= 1
    BY <1>3
  <2> QED BY <1>5, <2>1, <2>2
<1>6. \A x, y \in Claims(h)' : m[x] = m[y] => x = y
  BY <1>5
<1>7. /\ IsFiniteSet(Claims(h)')
      /\ Cardinality(Claims(h)') <= Cardinality(Claims(h))
  <2>1. IsFiniteSet(Claims(h))
    BY <1>2 DEF ClaimsPaid
  <2> HIDE DEF m
  <2> QED BY <1>4, <1>6, <2>1, Moved
<1> QED BY <1>1, <1>2, <1>7, PaidWhenFewer

LEMMA TakingKeeps ==
  ASSUME UniqueUuids, BothInv, Counting, NoMore, FromOne,
         NEW p \in Ports, Taking(p)
  PROVE  NoMore'
<1> DEFINE pkt == net[p][1]
<1>1. /\ SenderInv /\ TypeOK /\ Shifts(p)
      /\ \A f \in Posts : Began(f)' = Began(f)
      /\ UNCHANGED <<pc, worker, attempts, nth>>
  BY TakeShifts DEF BothInv, Taking, history, Began
<1>2. pkt \in Packets /\ pkt.post \in Posts
  BY <1>1, PacketFacts DEF Shifts
<1> SUFFICES ASSUME ~crashed', NEW h \in Posts
             PROVE  ClaimsPaid(h)'
  BY DEF NoMore
<1>3. /\ uuid' = [uuid EXCEPT ![p] = Uuid[pkt.post]]
      /\ \A q \in Ports \ {p} : job'[q] = job[q]
      /\ active' = active /\ ~crashed
      /\ KeepsOn(p, pkt) \/ HandsOn(p, pkt)
  BY <1>1, <1>2, HandleDoes DEF Taking, history
<1>4. ClaimsPaid(h) /\ Began(h) \in Nat /\ attempts[h] \in Nat
  BY <1>3 DEF NoMore, Counting
<1>5. /\ uuid'[p] = Uuid[pkt.post]
      /\ \A q \in Ports \ {p} : uuid'[q] = uuid[q]
      /\ workChan \in Seq(Job) /\ Len(workChan) \in Nat
  BY <1>1, <1>3 DEF TypeOK
<1> DEFINE last == Len(workChan) + 1
           New(x) == x = <<"job", p, 0>> \/ x = <<"chan", 0, last>>
           source == IF Opens(p, pkt) THEN <<"net", p, 1>> ELSE <<"job", p, 0>>
           Was(x) == IF x[1] = "net" /\ x[2] = p THEN <<"net", p, x[3] + 1>>
                     ELSE IF New(x) THEN source ELSE x
<1>6. h = pkt.post /\ (Opens(p, pkt) \/ job[p] # NoJob) => source \in Claims(h)
  <2> SUFFICES ASSUME h = pkt.post, Opens(p, pkt) \/ job[p] # NoJob
               PROVE  source \in Claims(h)
    OBVIOUS
  <2>1. CASE Opens(p, pkt)
    <3>1. 1 \in 1 .. Len(net[p]) + 1 /\ 1 <= Len(net[p])
      BY <1>1 DEF Shifts
    <3>2. Begins(h, p, 1)
      BY <2>1, <3>1 DEF Begins, Opens
    <3>3. <<"net", p, 1>> \in Claims(h)
      BY <3>2, ClaimsAre DEF IsClaim
    <3> QED BY <2>1, <3>3
  <2>2. CASE ~Opens(p, pkt)
    <3>1. <<"job", p, 0>> \in Claims(h)
      BY <2>2, ClaimsAre DEF IsClaim, Opens
    <3> QED BY <2>2, <3>1
  <2> QED BY <2>1, <2>2
<1>7. ASSUME NEW x \in Claims(h)'
      PROVE  Was(x) \in Claims(h) /\ (x[1] = "net" => x[3] >= 1)
  <2>1. /\ x = <<x[1], x[2], x[3]>> /\ x[3] \in Nat
        /\ IsClaim(h, x[1], x[2], x[3])'
    BY ClaimThen
  <2>2. CASE x[1] = "net"
    <3>1. x[2] \in Ports /\ Begins(h, x[2], x[3])'
      BY <2>1, <2>2 DEF IsClaim
    <3>2. /\ x[3] >= 1
          /\ x[2] # p => Begins(h, x[2], x[3])
          /\ x[2] = p /\ x[3] # 1 => Begins(h, p, x[3] + 1)
          /\ x[2] = p /\ x[3] = 1 /\ net[p][1].post # h => Begins(h, p, 2)
      BY <1>1, <1>5, <2>1, <3>1, ShiftsBegins
    <3>3. x[2] = p /\ x[3] = 1 => net[p][1].post # h
      BY <1>5, <3>1 DEF Begins
    <3>4. CASE x[2] = p
      <4>1. Begins(h, p, x[3] + 1)
        BY <2>1, <3>2, <3>3, <3>4
      <4>2. <<"net", p, x[3] + 1>> \in Claims(h)
        BY <4>1, ClaimsAre DEF IsClaim
      <4> QED BY <2>2, <3>2, <3>4, <4>2
    <3>5. CASE x[2] # p
      <4>1. x \in Claims(h)
        BY <2>1, <2>2, <3>1, <3>2, <3>5, ClaimsAre DEF IsClaim
      <4>2. ~New(x)
        BY <2>2
      <4> QED BY <3>2, <3>5, <4>1, <4>2
    <3> QED BY <3>4, <3>5
  <2>3. CASE x[1] \in {"asked", "hand"}
    <3>1. IsClaim(h, x[1], x[2], x[3])
      BY <1>1, <1>3, <2>1, <2>3 DEF IsClaim, HeaderIntact
    <3>2. x \in Claims(h)
      BY <2>1, <3>1, ClaimsAre
    <3> QED BY <2>3, <3>2
  <2>4. CASE x[1] = "job"
    <3>1. x[2] \in Ports /\ x[3] = 0 /\ job'[x[2]] # NoJob /\ uuid'[x[2]] = Uuid[h]
      BY <2>1, <2>4 DEF IsClaim
    <3>2. CASE x[2] = p
      <4>1. h = pkt.post
        BY <1>2, <1>5, <3>1, <3>2 DEF UniqueUuids
      <4>2. Opens(p, pkt) \/ job[p] # NoJob
        BY <1>3, <3>1, <3>2 DEF KeepsOn, HandsOn
      <4>3. New(x)
        BY <2>1, <2>4, <3>1, <3>2
      <4>4. Was(x) = source
        BY <2>4, <4>3
      <4> QED BY <1>6, <2>4, <4>1, <4>2, <4>4
    <3>3. CASE x[2] # p
      <4>1. IsClaim(h, x[1], x[2], x[3])
        BY <1>3, <1>5, <2>4, <3>1, <3>3 DEF IsClaim
      <4>2. x \in Claims(h) /\ ~New(x)
        BY <2>1, <2>4, <3>3, <4>1, ClaimsAre
      <4> QED BY <2>4, <4>2
    <3> QED BY <3>2, <3>3
  <2>5. CASE x[1] = "chan"
    <3>1. /\ x[2] = 0 /\ x[3] \in 1 .. Len(workChan')
          /\ HeaderIntact(h, Image(workChan'[x[3]]))
      BY <2>1, <2>5 DEF IsClaim, HeaderIntact
    <3>2. CASE x[3] \in 1 .. Len(workChan) /\ workChan'[x[3]] = workChan[x[3]]
      <4>1. IsClaim(h, x[1], x[2], x[3])
        BY <2>5, <3>1, <3>2 DEF IsClaim
      <4>2. x[3] # last
        BY <1>5, <3>2
      <4>3. x \in Claims(h) /\ ~New(x)
        BY <2>1, <2>5, <4>1, <4>2, ClaimsAre
      <4> QED BY <2>5, <4>3
    <3>3. CASE KeepsOn(p, pkt)
      BY <3>1, <3>2, <3>3 DEF KeepsOn
    <3>4. CASE HandsOn(p, pkt)
      <4>1. PICK j \in Job : /\ j.buf \in BuffersOf({pkt.post})
                             /\ workChan' = Append(workChan, j)
        BY <3>4 DEF HandsOn
      <4>2. /\ Len(workChan') = last /\ workChan'[last] = j
            /\ \A i \in 1 .. Len(workChan) : workChan'[i] = workChan[i]
        BY <1>5, <4>1, AppendProperties
      <4>3. x[3] \in 1 .. Len(workChan) \/ x[3] = last
        BY <1>5, <3>1, <4>2
      <4>4. CASE x[3] = last
        <5>1. h = pkt.post
          BY <1>2, <3>1, <4>1, <4>2, <4>4, HeaderIsOf
        <5>2. New(x)
          BY <2>1, <2>5, <3>1, <4>4
        <5>3. Was(x) = source
          BY <2>5, <5>2
        <5> QED BY <1>6, <2>5, <3>4, <5>1, <5>3 DEF HandsOn
      <4> QED BY <3>2, <4>2, <4>3, <4>4
    <3> QED BY <1>3, <3>3, <3>4
  <2> QED BY <2>1, <2>2, <2>3, <2>4, <2>5 DEF IsClaim
<1>8. ASSUME <<"job", p, 0>> \in Claims(h)', <<"chan", 0, last>> \in Claims(h)'
      PROVE  FALSE
  <2>1. job'[p] # NoJob
    BY <1>8 DEF Claims, IsClaim
  <2>2. KeepsOn(p, pkt)
    BY <1>3, <2>1 DEF HandsOn
  <2>3. last \in 1 .. Len(workChan)
    BY <1>8, <2>2 DEF Claims, IsClaim, KeepsOn
  <2> QED BY <1>5, <2>3
<1> DEFINE m == [x \in Claims(h)' |-> Was(x)]
<1>9. m \in [Claims(h)' -> Claims(h)]
  BY <1>7
<1>10. ASSUME NEW x \in Claims(h)', NEW y \in Claims(h)', Was(x) = Was(y)
       PROVE  x = y
  <2>1. /\ x = <<x[1], x[2], x[3]>> /\ x[3] \in Nat
        /\ y = <<y[1], y[2], y[3]>> /\ y[3] \in Nat
    BY ClaimThen
  <2>2. /\ x[1] = "net" => x[3] >= 1
        /\ y[1] = "net" => y[3] >= 1
    BY <1>7
  <2>3. New(x) /\ New(y) => x = y
    BY <1>8
  <2>4. source = <<"net", p, 1>> \/ source = <<"job", p, 0>>
    OBVIOUS
  <2> HIDE DEF source
  <2>5. ASSUME NEW u \in Claims(h)', New(u)
        PROVE  Was(u) = source /\ u[1] # "net"
    BY <2>5
  <2>6. CASE New(x) /\ ~New(y)
    <3>1. Was(y) = source
      BY <1>10, <2>5, <2>6
    <3>2. y[1] = "net" /\ y[2] = p => Was(y) = <<"net", p, y[3] + 1>>
      OBVIOUS
    <3>3. ~(y[1] = "net" /\ y[2] = p) => Was(y) = y
      BY <2>6
    <3> QED BY <2>1, <2>2, <2>4, <2>6, <3>1, <3>2, <3>3
  <2>7. CASE New(y) /\ ~New(x)
    <3>1. Was(x) = source
      BY <1>10, <2>5, <2>7
    <3>2. x[1] = "net" /\ x[2] = p => Was(x) = <<"net", p, x[3] + 1>>
      OBVIOUS
    <3>3. ~(x[1] = "net" /\ x[2] = p) => Was(x) = x
      BY <2>7
    <3> QED BY <2>1, <2>2, <2>4, <2>7, <3>1, <3>2, <3>3
  <2>8. CASE ~New(x) /\ ~New(y)
    BY <1>10, <2>1, <2>2, <2>8
  <2> QED BY <2>3, <2>6, <2>7, <2>8
<1>11. \A x, y \in Claims(h)' : m[x] = m[y] => x = y
  BY <1>10
<1>12. /\ IsFiniteSet(Claims(h)')
       /\ Cardinality(Claims(h)') <= Cardinality(Claims(h))
  <2>1. IsFiniteSet(Claims(h))
    BY <1>4 DEF ClaimsPaid
  <2> HIDE DEF m
  <2> QED BY <1>9, <1>11, <2>1, Moved
<1> QED BY <1>1, <1>4, <1>12, PaidWhenFewer

-----------------------------------------------------------------------------
(* The links keep all of it.                                               *)
LinkInv ==
  /\ BothInv /\ copies \in [Posts -> Seq(Nat)] /\ nth \in [Threads -> Nat]
  /\ FromOne /\ NoMore /\ CopiesInPlace

LEMMA FromOneStep ==
  ASSUME UniqueUuids, BothInv, FromOne, Overtake = 0, Next
  PROVE  FromOne'
<1>1. CASE UNCHANGED <<uuid, job>>
  BY <1>1 DEF FromOne
<1>2. ASSUME NEW p \in Ports, Taking(p)
      PROVE  FromOne'
  <2> DEFINE pkt == net[p][1]
  <2>1. TypeOK /\ SenderInv /\ pkt \in Packets /\ pkt.post \in Posts
    BY <1>2, TakeShifts, PacketFacts DEF BothInv, Taking, history, Shifts
  <2> HIDE DEF pkt
  <2>2. CASE UNCHANGED <<uuid, job>>
    BY <2>2 DEF FromOne
  <2>3. CASE /\ uuid' = [uuid EXCEPT ![p] = Uuid[pkt.post]]
             /\ \A q \in Ports \ {p} : job'[q] = job[q]
             /\ KeepsOn(p, pkt) \/ HandsOn(p, pkt)
    <3>1. /\ uuid'[p] = Uuid[pkt.post]
          /\ \A q \in Ports \ {p} : uuid'[q] = uuid[q]
      BY <2>1, <2>3 DEF TypeOK
    <3>2. job'[p] # NoJob => job'[p].buf \in BuffersOf({pkt.post})
      BY <2>3 DEF KeepsOn, HandsOn
    <3> QED BY <2>1, <2>3, <3>1, <3>2 DEF FromOne
  <2>4. Handle(p, pkt)
    BY <1>2 DEF Taking, history, pkt
  <2> QED BY <2>1, <2>2, <2>3, <2>4, HandleDoes
<1>3. ASSUME NEW t \in Threads, Working(t)
      PROVE  FromOne'
  BY <1>1, <1>3, AttemptDoes DEF Working, WorkerStep, Attempt, Dispatch,
     Reject, Discard, Release
<1> QED BY <1>1, <1>2, <1>3, LinkSteps DEF Posting, history, Losing, Lose, rvars

LEMMA LinkStep ==
  ASSUME UniqueUuids, Overtake = 0, LinkInv, [Next]_vars
  PROVE  LinkInv'
<1>1. CASE UNCHANGED vars
  <2>1. UNCHANGED <<svars, rvars, copies, nth>>
    BY <1>1 DEF vars, history
  <2>2. SenderInv' /\ TypeOK'
    BY <2>1 DEF LinkInv, BothInv, svars, rvars, TypeOK, SenderInv, SenderTypeOK,
      HoldersHold, WorkersApart, Idle, SlotsHeld, Sending, OffsetsOnGrid,
      CheckedFirst, Verified
  <2>3. FromOne'
    BY <2>1 DEF LinkInv, rvars, FromOne
  <2>4. NoMore'
    <3>1. ASSUME NEW f
          PROVE  Claims(f)' = Claims(f)
      <4>1. \A what, at, i : IsClaim(f, what, at, i)' = IsClaim(f, what, at, i)
        BY <2>1 DEF svars, rvars, IsClaim, Begins, HeaderIntact
      <4> QED BY <4>1 DEF Claims
    <3>2. \A f : ClaimsPaid(f)' = ClaimsPaid(f)
      BY <2>1, <3>1 DEF svars, ClaimsPaid, Began
    <3> QED BY <2>1, <3>2 DEF LinkInv, rvars, NoMore
  <2>5. CopiesInPlace'
    BY <2>1 DEF LinkInv, rvars, CopiesInPlace, Placed, HeaderIntact
  <2>6. copies' \in [Posts -> Seq(Nat)] /\ nth' \in [Threads -> Nat]
    BY <2>1 DEF LinkInv
  <2> QED BY <2>2, <2>3, <2>4, <2>5, <2>6 DEF LinkInv, BothInv
<1>2. CASE Next
  <2>1. /\ BothInv /\ SenderInv /\ TypeOK /\ SenderTypeOK
        /\ copies \in [Posts -> Seq(Nat)] /\ nth \in [Threads -> Nat]
        /\ FromOne /\ NoMore /\ CopiesInPlace
    BY DEF LinkInv, BothInv, SenderInv
  <2>2. BothInv'
    BY <1>2, <2>1, SidesStep, TypeStep DEF BothInv
  <2>3. Counting
    BY <2>1, CountsTyped
  <2>4. FromOne'
    BY <1>2, <2>1, FromOneStep
  <2>5. NoMore'
    BY <1>2, <2>1, <2>3, LinkSteps, PostingKeeps, TakingKeeps, LosingKeeps,
      WorkingKeeps
  <2>6. copies' \in [Posts -> Seq(Nat)] /\ nth' \in [Threads -> Nat]
        /\ CopiesInPlace'
    <3>1. CASE UNCHANGED <<copies, nth, active, tries>>
      BY <2>1, <3>1 DEF CopiesInPlace, Placed, HeaderIntact
    <3>2. \A f \in Posts : Posting(f) => UNCHANGED <<copies, nth, active, tries>>
      BY DEF Posting, history, rvars
    <3>3. \A p \in Ports : Taking(p) \/ Losing(p)
                           => UNCHANGED <<copies, nth, active, tries>>
      BY DEF Taking, history, Losing, Lose, rvars, Handle, Ignore, NilJob,
         Fill, Complete
    <3> QED BY <1>2, <2>1, <2>3, <3>1, <3>2, <3>3, LinkSteps, CopiesStay
  <2> QED BY <2>2, <2>4, <2>5, <2>6 DEF LinkInv
<1> QED BY <1>1, <1>2

LEMMA LinkStarts ==
  ASSUME Init
  PROVE  LinkInv
<1>1. /\ SenderInit /\ ReceiverInit /\ copies = [f \in Posts |-> << >>]
      /\ nth = [t \in Threads |-> 0]
  BY DEF Init
<1>2. BothInv
  BY <1>1, InitHolds, TypeInit DEF BothInv
<1>3. FromOne
  BY <1>1 DEF ReceiverInit, FromOne
<1>4. ASSUME NEW f \in Posts
      PROVE  ClaimsPaid(f)
  <2>1. ASSUME NEW x \in Claims(f)
        PROVE  FALSE
    <3>1. IsClaim(f, x[1], x[2], x[3])
      BY <2>1 DEF Claims
    <3>2. /\ pc[f] = "idle" /\ worker[f] = NoPort /\ NoPort \notin Ports
          /\ \A p \in Ports : net[p] = << >> /\ job[p] = NoJob
          /\ \A t \in Threads : active[t] = NoJob
          /\ workChan = << >>
      BY <1>1, SenderAssumption DEF SenderInit, ReceiverInit
    <3>3. \A p \in Ports : Len(net[p]) = 0
      BY <3>2
    <3>4. \A p \in Ports : \A i : ~Begins(f, p, i)
      BY <3>2, <3>3 DEF Begins
    <3> QED BY <3>1, <3>2, <3>4 DEF IsClaim
  <2>2. Claims(f) = {}
    BY <2>1
  <2>3. Began(f) = 0 /\ attempts[f] = 0
    BY <1>1 DEF SenderInit, Began
  <2> QED BY <2>2, <2>3, FS_EmptySet DEF ClaimsPaid
<1>5. /\ copies \in [Posts -> Seq(Nat)] /\ nth \in [Threads -> Nat]
      /\ CopiesInPlace
  BY <1>1 DEF CopiesInPlace, Placed
<1> QED BY <1>2, <1>3, <1>4, <1>5 DEF LinkInv, NoMore

(* Over links that keep the order of their packets no FlowFile is sent on  *)
(* that was not posted, and no more files of it than it was posted,        *)
(* however many packets are lost: neither the second pass of sendFile nor  *)
(* a client that tries again ever makes two files of one post (post,       *)
(* handle).  Of each the endpoint gets at most RetryCount + 1 copies,      *)
(* however many answers are lost (hs.Send).                                *)
THEOREM NoMoreThanPosted ==
  ASSUME UniqueUuids, Overtake = 0
  PROVE  Spec => ImplementsDelivery
<1>1. Init => LinkInv
  BY LinkStarts
<1>2. LinkInv /\ [Next]_vars => LinkInv'
  BY LinkStep
<1>3. Init => Transfer!Init
  BY DEF Init, SenderInit, Transfer!Init
<1>4. LinkInv /\ [Next]_vars => [Transfer!Next]_<<attempts, copies>>
  <2> SUFFICES ASSUME LinkInv, [Next]_vars
               PROVE  [Transfer!Next]_<<attempts, copies>>
    OBVIOUS
  <2>1. CASE UNCHANGED vars
    BY <2>1 DEF vars, svars, history
  <2>2. ASSUME NEW f \in Posts, Posting(f)
        PROVE  [Transfer!Next]_<<attempts, copies>>
    <3>1. SenderTypeOK /\ copies' = copies
          /\ (Request(f) \/ HangUp(f) \/ Post(f))
      BY <2>2 DEF LinkInv, BothInv, SenderInv, Posting, history
    <3>2. attempts' = [attempts EXCEPT ![f] = @ + 1] \/ attempts' = attempts
      BY <3>1, PostCounts
    <3> QED BY <3>1, <3>2 DEF Transfer!Next, Transfer!Hand
  <2>3. ASSUME NEW p \in Ports, Taking(p) \/ Losing(p)
        PROVE  UNCHANGED <<attempts, copies>>
    BY <2>3 DEF Taking, history, Losing, Lose, Take
  <2>4. ASSUME NEW t \in Threads, Working(t)
        PROVE  [Transfer!Next]_<<attempts, copies>>
    <3>1. BothInv /\ Counting /\ NoMore /\ TypeOK /\ CopiesInPlace
          /\ nth \in [Threads -> Nat]
      BY CountsTyped DEF LinkInv, BothInv, SenderInv
    <3>2. \A f \in Posts : Takes(t, f) /\ nth[t] = 0 => Began(f) < attempts[f]
      BY <2>4, <3>1, WorkingKeeps
    <3>3. attempts' = attempts
      BY <2>4 DEF Working, WorkerStep, svars
    <3>4. ASSUME NEW f \in Posts, Takes(t, f), nth[t] = 0
          PROVE  Transfer!Deliver(f)
      <4>1. copies' = [copies EXCEPT ![f] = Append(@, 1)]
        BY <3>1, <3>4, CopyCounted
      <4> QED BY <3>2, <3>3, <3>4, <4>1 DEF Transfer!Deliver, Began
    <3>5. ASSUME NEW f \in Posts, Takes(t, f), nth[t] # 0
          PROVE  Transfer!Repeat(f)
      <4>1. /\ nth[t] \in 1 .. Began(f) /\ copies[f][nth[t]] \in Nat
            /\ copies[f][nth[t]] <= tries[t]
            /\ copies' = [copies EXCEPT ![f][nth[t]] = @ + 1]
        BY <3>1, <3>5, CopyCounted
      <4>2. nth[t] \in DOMAIN copies[f]
        <5>1. copies[f] \in Seq(Nat)
          BY <3>1 DEF Counting
        <5> QED BY <4>1, <5>1, LenProperties DEF Began
      <4>3. copies[f][nth[t]] < RetryCount + 1
        <5>1. tries[t] \in 0 .. RetryCount /\ RetryCount \in Nat
          BY <3>1, ReceiverAssumption DEF TypeOK
        <5> QED BY <4>1, <5>1
      <4> QED BY <3>3, <4>1, <4>2, <4>3 DEF Transfer!Repeat
    <3>6. CASE copies' = copies
      BY <3>3, <3>6
    <3>7. copies' = copies \/ \E f \in Posts : Takes(t, f)
      BY <2>4, <3>1, WorkingDoes DEF LetsGo
    <3> QED BY <3>4, <3>5, <3>6, <3>7 DEF Transfer!Next
  <2>5. CASE Next
    BY <2>2, <2>3, <2>4, <2>5, LinkSteps
  <2> QED BY <2>1, <2>5
<1> QED BY <1>1, <1>2, <1>3, <1>4, PTL DEF Spec, ImplementsDelivery, Transfer!Spec

-----------------------------------------------------------------------------
(* The offsets at which data starts, and the chunks that lie there.        *)
DataOffsets(f) == {o \in PassOffsets(f) : o < EncodedLen(f)}

(* No checksum is added, so that the declared length is the encoded one.   *)
LEMMA DataChunks ==
  ASSUME AllFit, NEW f \in Posts
  PROVE  /\ \A o \in DataOffsets(f) :
              /\ o \in PassOffsets(f)
              /\ Chunk(f, o).post = f /\ Chunk(f, o).off = o
              /\ Chunk(f, o).len > 0
              /\ Index(Chunk(f, o)) < TotalChunks(DeclaredLen(f))
         /\ \A k \in 0 .. TotalChunks(DeclaredLen(f)) - 1 :
              \E o \in DataOffsets(f) : Index(Chunk(f, o)) = k
         /\ TotalChunks(DeclaredLen(f)) \in Nat \ {0}
<1> DEFINE n == EncodedLen(f)
<1>1. /\ Mtu \in Nat /\ Mtu >= 2 /\ n \in Nat \ {0} /\ DeclaredLen(f) = n
  <2>1. DeclaredLen(f) = EncodedLen(f)
    BY Lengths DEF AllFit, EncodedLen, DeclaredLen, SentHeaderLen
  <2> QED BY <2>1, Grid
<1>2. PassOffsets(f) = {Mtu * k : k \in 0 .. n \div Mtu}
  BY DEF PassOffsets
<1>3. \A o : Chunk(f, o) = [post |-> f, off |-> o,
                            len |-> IF n - o < Mtu THEN n - o ELSE Mtu]
  BY DEF Chunk
<1>4. DataOffsets(f) = {o \in PassOffsets(f) : o < n}
  BY DEF DataOffsets
<1> HIDE DEF n
<1>5. (n - 1) \div Mtu \in Nat /\ (n - 1) \div Mtu <= n \div Mtu
      /\ n \div Mtu \in Nat
  <2>1. n - 1 \in Nat /\ n - 1 <= n
    BY <1>1
  <2> QED BY <1>1, <2>1, Quotient, QuotientMonotone
<1>6. ASSUME NEW k \in Nat
      PROVE  /\ Mtu * k \in Nat /\ (Mtu * k + 1) \div Mtu = k
             /\ Mtu * k < n <=> k <= (n - 1) \div Mtu
  <2>1. Mtu * k \in Nat /\ (Mtu * k + 1) \div Mtu = k /\ (Mtu * k) \div Mtu = k
    BY <1>1, ChunkIndex
  <2>2. ASSUME Mtu * k < n
        PROVE  k <= (n - 1) \div Mtu
    <3>1. n - 1 \in Nat /\ Mtu * k <= n - 1
      BY <1>1, <2>1, <2>2
    <3> QED BY <1>1, <2>1, <3>1, QuotientMonotone
  <2>3. ASSUME k <= (n - 1) \div Mtu
        PROVE  Mtu * k < n
    <3>1. n - 1 \in Nat /\ Mtu * ((n - 1) \div Mtu) <= n - 1
      BY <1>1, Quotient
    <3>2. Mtu * k <= Mtu * ((n - 1) \div Mtu) /\ Mtu * ((n - 1) \div Mtu) \in Nat
      BY <1>1, <1>5, <2>3
    <3> QED BY <1>1, <2>1, <3>1, <3>2
  <2> QED BY <2>1, <2>2, <2>3
<1>7. TotalChunks(DeclaredLen(f)) = (n - 1) \div Mtu + 1
  BY <1>1 DEF TotalChunks
<1>8. ASSUME NEW o \in DataOffsets(f)
      PROVE  /\ o \in PassOffsets(f)
             /\ Chunk(f, o).post = f /\ Chunk(f, o).off = o
             /\ Chunk(f, o).len > 0
             /\ Index(Chunk(f, o)) < TotalChunks(DeclaredLen(f))
  <2>1. PICK k \in 0 .. n \div Mtu : o = Mtu * k
    BY <1>2, <1>4
  <2>2. k \in Nat /\ o \in Nat /\ o < n
    BY <1>4, <1>5, <1>6, <2>1
  <2>3. Index(Chunk(f, o)) = k
    BY <1>3, <1>6, <2>1, <2>2 DEF Index
  <2>4. k <= (n - 1) \div Mtu
    BY <1>6, <2>1, <2>2
  <2> QED BY <1>1, <1>3, <1>4, <1>5, <1>7, <2>2, <2>3, <2>4
<1>9. ASSUME NEW k \in 0 .. TotalChunks(DeclaredLen(f)) - 1
      PROVE  \E o \in DataOffsets(f) : Index(Chunk(f, o)) = k
  <2>1. k \in Nat /\ k <= (n - 1) \div Mtu /\ k \in 0 .. n \div Mtu
    BY <1>5, <1>7
  <2>2. Mtu * k \in DataOffsets(f)
    BY <1>2, <1>4, <1>6, <2>1
  <2>3. Index(Chunk(f, Mtu * k)) = k
    BY <1>3, <1>6, <2>1 DEF Index
  <2> QED BY <2>2, <2>3
<1> QED BY <1>5, <1>7, <1>8, <1>9

-----------------------------------------------------------------------------
(* The receiver has all of f: it was sent on, or is queued or verified.    *)
Received(f) ==
  \/ \E r \in forwarded : r.post = f
  \/ \E i \in DOMAIN workChan : Rebuilds(workChan[i], f)
  \/ \E t \in Threads : active[t] # NoJob /\ Rebuilds(active[t], f)

(* What the workers do to a whole job of a FlowFile that the sender        *)
(* verified: nothing but send it on.                                       *)
LEMMA WholeVerified ==
  ASSUME AllFit, NEW j \in Job, Whole(j), ~j.noBuf,
         NEW f \in Posts, Rebuilds(j, f), Verified(f)
  PROVE  Verdict(j) # "failed" /\ HeaderIntact(f, Image(j))
<1>1. Verdict(j) # "failed"
  <2>1. CASE PayloadLen[f] = 0
    <3>1. AttrsAre(j.attrs, f)
      BY DEF Rebuilds
    <3>2. j.attrs = NoPost
      BY <2>1, <3>1 DEF AttrsAre
    <3> QED BY <3>2 DEF Verdict, SizeKnown
  <2>2. CASE Sum[f] = "good"
    BY <2>2, WholePasses
  <2> QED BY <2>1, <2>2 DEF Verified, AllFit
<1>2. ASSUME NEW c \in Cell, c < SentHeaderLen(f)
      PROVE  Image(j)[c] = <<f, c>>
  <2>1. RunEnd(j.buf) >= EncodedLen(f) /\ RunEnd(j.buf) \in Int
    BY WholeRun, RunEndIsEnd DEF Job, Buffers
  <2>2. SentHeaderLen(f) <= EncodedLen(f) /\ SentHeaderLen(f) \in Nat
        /\ EncodedLen(f) \in Nat /\ c \in Int
    BY Lengths DEF Cell
  <2>3. c < RunEnd(j.buf)
    BY <1>2, <2>1, <2>2
  <2> QED BY <2>3, ImageUpToRunEnd
<1> QED BY <1>1, <1>2 DEF HeaderIntact

ReceiverKnows ==
  TypeOK /\ JobsRebuild /\ NothingUnbuffered /\ NoNilJob

LEMMA StaysReceived ==
  ASSUME AllFit, SendMayFail = FALSE, ReceiverKnows, [ReceiverNext]_rvars,
         NEW f \in Posts, Verified(f), Received(f)
  PROVE  Received(f)'
<1>1. /\ workChan \in Seq(Job) /\ active \in [Threads -> Job \cup {NoJob}]
      /\ \A t \in Threads : active[t] # NoJob =>
           active[t] \in Job /\ Whole(active[t]) /\ ~active[t].noBuf
  BY DEF ReceiverKnows, TypeOK, JobsRebuild, NothingUnbuffered
<1>2. \A j : Rebuilds(j, f)' = Rebuilds(j, f)
  BY DEF Rebuilds, SeenIsStored, StoredIsSeen, DataInPlace, AttrsAre
<1>3. CASE forwarded' = forwarded /\ active' = active
           /\ \A i \in DOMAIN workChan : i \in DOMAIN workChan'
                                         /\ workChan'[i] = workChan[i]
  BY <1>2, <1>3 DEF Received
<1>4. ASSUME NEW p \in Ports, NEW pkt \in Packets, Handle(p, pkt)
      PROVE  Received(f)'
  <2>1. CASE workChan' = workChan
    BY <1>3, <1>4, <2>1 DEF Handle, Ignore, NilJob, Fill, Complete
  <2>2. CASE Complete(p, pkt)
    <3>1. PICK j : workChan' = Append(workChan, j)
      BY <2>2 DEF Complete
    <3>2. \A i \in DOMAIN workChan : i \in DOMAIN workChan'
                                     /\ workChan'[i] = workChan[i]
      BY <1>1, <3>1
    <3> QED BY <1>3, <2>2, <3>2 DEF Complete
  <2> QED BY <1>4, <2>1, <2>2 DEF Handle, Ignore, NilJob, Fill
<1>5. ASSUME NEW t \in Threads, Dispatch(t)
      PROVE  Received(f)'
  <2>1. /\ active[t] = NoJob /\ workChan # << >> /\ workChan' = Tail(workChan)
        /\ active' = [active EXCEPT ![t] = Head(workChan)]
        /\ forwarded' = forwarded
    BY <1>5 DEF Dispatch
  <2>2. /\ active'[t] = workChan[1] /\ workChan[1] \in Job
        /\ \A u \in Threads \ {t} : active'[u] = active[u]
        /\ Len(workChan) \in Nat \ {0} /\ DOMAIN workChan = 1 .. Len(workChan)
        /\ DOMAIN workChan' = 1 .. Len(workChan) - 1
        /\ \A i \in 1 .. Len(workChan) - 1 : workChan'[i] = workChan[i + 1]
    BY <1>1, <2>1
  <2>3. ASSUME NEW i \in DOMAIN workChan, Rebuilds(workChan[i], f)
        PROVE  Received(f)'
    <3>1. CASE i = 1
      BY <1>2, <2>2, <2>3, <3>1, NilAssumption DEF Received
    <3>2. CASE i # 1
      <4>1. i - 1 \in DOMAIN workChan' /\ workChan'[i - 1] = workChan[i]
        BY <2>2, <3>2
      <4> QED BY <1>2, <2>3, <4>1 DEF Received
    <3> QED BY <3>1, <3>2
  <2>4. ASSUME NEW u \in Threads, active[u] # NoJob, Rebuilds(active[u], f)
        PROVE  Received(f)'
    <3>1. active'[u] = active[u]
      BY <2>1, <2>2, <2>4
    <3> QED BY <1>2, <2>4, <3>1 DEF Received
  <2>5. CASE \E r \in forwarded : r.post = f
    BY <2>1, <2>5 DEF Received
  <2> QED BY <2>3, <2>4, <2>5 DEF Received
<1>6. ASSUME NEW t \in Threads, active[t] # NoJob, Release(t),
             forwarded \subseteq forwarded',
             Rebuilds(active[t], f) => \E r \in forwarded' : r.post = f
      PROVE  Received(f)'
  <2>1. workChan' = workChan /\ \A u \in Threads \ {t} : active'[u] = active[u]
    BY <1>1, <1>6 DEF Release
  <2>2. ASSUME NEW u \in Threads, active[u] # NoJob, Rebuilds(active[u], f)
        PROVE  Received(f)'
    <3>1. CASE u = t
      BY <1>6, <2>2, <3>1 DEF Received
    <3>2. CASE u # t
      BY <1>2, <2>1, <2>2, <3>2 DEF Received
    <3> QED BY <3>1, <3>2
  <2>3. CASE \E r \in forwarded : r.post = f
    BY <1>6, <2>3 DEF Received
  <2>4. CASE \E i \in DOMAIN workChan : Rebuilds(workChan[i], f)
    BY <1>2, <2>1, <2>4 DEF Received
  <2> QED BY <2>2, <2>3, <2>4 DEF Received
<1>7. ASSUME NEW t \in Threads, active[t] # NoJob, Rebuilds(active[t], f)
      PROVE  Verdict(active[t]) # "failed" /\ HeaderIntact(f, Image(active[t]))
  BY <1>1, <1>7, WholeVerified
<1>8. ASSUME NEW t \in Threads, Reject(t)
      PROVE  Received(f)'
  BY <1>6, <1>7, <1>8 DEF Reject
<1>9. ASSUME NEW t \in Threads, Discard(t)
      PROVE  Received(f)'
  BY <1>6, <1>7, <1>9 DEF Discard
<1>10. ASSUME NEW t \in Threads, NEW g \in Posts, Attempt(t, g)
       PROVE  Received(f)'
  <2> DEFINE r == [post |-> g, verdict |-> Verdict(active[t]),
                   file |-> Image(active[t])]
  <2>1. /\ forwarded' = forwarded \cup {r} /\ r.post = g
        /\ active[t] # NoJob /\ HeaderIntact(g, Image(active[t]))
    <3>1. Taken(t, g) /\ Sends(t, g)
      BY <1>10 DEF Attempt, Forward, LoseAnswer, SendFails
    <3> QED BY <3>1 DEF Taken, Sends
  <2>0. Release(t) \/ UNCHANGED <<workChan, active>>
    BY <1>10, AttemptDoes
  <2> HIDE DEF r
  <2>2. ASSUME Rebuilds(active[t], f)
        PROVE  f = g
    <3>1. HeaderIntact(f, Image(active[t]))
      BY <1>7, <2>1, <2>2
    <3>2. 0 \in Cell /\ 0 < SentHeaderLen(f)
      BY Lengths DEF Cell
    <3>3. Image(active[t])[0] = <<f, 0>>
      BY <3>1, <3>2 DEF HeaderIntact
    <3> QED BY <2>1, <3>3, HeaderTells
  <2>3. CASE Release(t)
    BY <1>6, <2>1, <2>2, <2>3
  <2>4. CASE UNCHANGED <<workChan, active>>
    BY <1>2, <2>1, <2>4 DEF Received
  <2> QED BY <2>0, <2>3, <2>4
<1>11. CASE UNCHANGED rvars
  BY <1>3, <1>11 DEF rvars
<1> QED BY <1>4, <1>5, <1>8, <1>9, <1>10, <1>11 DEF ReceiverNext, Work

-----------------------------------------------------------------------------
LEMMA StoredCounts ==
  ASSUME NEW j, NEW pkt
  PROVE  /\ Stored(j, pkt).seen = j.seen \cup {Index(pkt)}
         /\ Stored(j, pkt).total = j.total
  BY DEF Stored, Buffered, Overflowed, Unbuffered, Kept

LEMMA JobKnown ==
  ASSUME UniqueUuids, ReceiverKnows, NEW p \in Ports
  PROVE  /\ \A f \in Posts : job[p] # NoJob /\ uuid[p] = Uuid[f]
                               => Rebuilds(job[p], f)
         /\ \A pkt \in Packets : JobFor(p, pkt) # NoJob =>
              /\ JobFor(p, pkt) \in Job
              /\ Rebuilds(JobFor(p, pkt), pkt.post)
         /\ \A pkt \in Packets : IsNews(p, pkt) =>
              /\ Stored(JobFor(p, pkt), pkt) \in Job
              /\ Stored(JobFor(p, pkt), pkt) # NoJob
              /\ Rebuilds(Stored(JobFor(p, pkt), pkt), pkt.post)
<1>1. /\ TypeOK
      /\ job[p] # NoJob => \E f \in Posts : Uuid[f] = uuid[p]
                                            /\ Rebuilds(job[p], f)
  BY DEF ReceiverKnows, JobsRebuild
<1>2. ASSUME NEW pkt \in Packets, JobFor(p, pkt) # NoJob
      PROVE  /\ JobFor(p, pkt) \in Job
             /\ Rebuilds(JobFor(p, pkt), pkt.post)
  BY <1>1, <1>2, JobForTyped, JobForRebuilds
<1>3. ASSUME NEW pkt \in Packets, IsNews(p, pkt)
      PROVE  /\ Stored(JobFor(p, pkt), pkt) \in Job
             /\ Rebuilds(Stored(JobFor(p, pkt), pkt), pkt.post)
  <2>1. /\ JobFor(p, pkt) # NoJob /\ pkt.len # 0
        /\ Index(pkt) \notin JobFor(p, pkt).seen
    BY <1>3 DEF IsNews, IsIdle
  <2> QED BY <1>2, <2>1, StoredTyped, StoredRebuilds
<1> QED BY <1>1, <1>2, <1>3, NilAssumption DEF UniqueUuids

(* A port that is done with a FlowFile handed it on whole, and one that is *)
(* not has a chunk of it to wait for.                                      *)
DoneReceived ==
  \A p \in Ports : done[p] =>
    \A f \in Posts : Uuid[f] = uuid[p] /\ Verified(f) => Received(f)

Unfinished == \A p \in Ports : job[p] # NoJob => ~AllSeen(job[p])

LEMMA HandlerStep ==
  ASSUME UniqueUuids, AllFit, SendMayFail = FALSE, ReceiverKnows,
         DoneReceived, Unfinished, [ReceiverNext]_rvars
  PROVE  DoneReceived' /\ Unfinished'
<1>1. /\ workChan \in Seq(Job) /\ job \in [Ports -> Job \cup {NoJob}]
      /\ uuid \in [Ports -> Uuids] /\ done \in [Ports -> BOOLEAN]
  BY DEF ReceiverKnows, TypeOK
<1>2. /\ \A f \in Posts : Verified(f) /\ Received(f) => Received(f)'
      /\ \A f \in Posts : Verified(f)' = Verified(f)
      /\ \A j : AllSeen(j)' = AllSeen(j)
      /\ \A j, f : Rebuilds(j, f)' = Rebuilds(j, f)
  BY StaysReceived DEF Verified, AllSeen, Rebuilds, SeenIsStored, StoredIsSeen,
    DataInPlace, AttrsAre
<1>3. ASSUME NEW pkt \in Packets
      PROVE  ~AllSeen(NewJob(pkt))
  <2>1. TotalChunks(DeclaredLen(pkt.post)) \in Nat \ {0}
    BY PacketFacts, DataChunks
  <2> QED BY <2>1 DEF NewJob, AllSeen
<1>4. ASSUME NEW p \in Ports, NEW pkt \in Packets, Ignore(p, pkt)
      PROVE  DoneReceived' /\ Unfinished'
  <2>1. /\ uuid'[p] = Uuid[pkt.post] /\ job'[p] = JobFor(p, pkt)
        /\ done'[p] = DoneFor(p, pkt)
        /\ \A q \in Ports \ {p} : /\ uuid'[q] = uuid[q] /\ job'[q] = job[q]
                                  /\ done'[q] = done[q]
    BY <1>1, <1>4 DEF Ignore
  <2>2. done'[p] => done[p] /\ uuid'[p] = uuid[p]
    BY <2>1 DEF DoneFor, Opens
  <2>3. job'[p] # NoJob => ~AllSeen(job'[p])
    BY <1>3, <2>1 DEF JobFor, Unfinished
  <2>4. DoneReceived'
    BY <1>2, <2>1, <2>2 DEF DoneReceived
  <2> QED BY <1>2, <2>1, <2>3, <2>4 DEF Unfinished
<1>5. ASSUME NEW p \in Ports, NEW pkt \in Packets, Fill(p, pkt)
      PROVE  DoneReceived' /\ Unfinished'
  <2>1. /\ done'[p] = FALSE /\ (job'[p] # NoJob => ~AllSeen(job'[p]))
        /\ \A q \in Ports \ {p} : /\ uuid'[q] = uuid[q] /\ job'[q] = job[q]
                                  /\ done'[q] = done[q]
    BY <1>1, <1>5 DEF Fill
  <2>2. DoneReceived'
    BY <1>2, <2>1 DEF DoneReceived
  <2> QED BY <1>2, <2>1, <2>2 DEF Unfinished
<1>6. ASSUME NEW p \in Ports, NEW pkt \in Packets, Complete(p, pkt)
      PROVE  DoneReceived' /\ Unfinished'
  <2> DEFINE j == Stored(JobFor(p, pkt), pkt)
  <2>1. /\ IsNews(p, pkt) /\ workChan' = Append(workChan, j)
        /\ uuid'[p] = Uuid[pkt.post] /\ job'[p] = NoJob
        /\ \A q \in Ports \ {p} : /\ uuid'[q] = uuid[q] /\ job'[q] = job[q]
                                  /\ done'[q] = done[q]
    BY <1>1, <1>6 DEF Complete
  <2>2. j \in Job /\ Rebuilds(j, pkt.post)
    BY <2>1, JobKnown
  <2> HIDE DEF j
  <2>3. \E i \in DOMAIN workChan' : workChan'[i] = j
    <3>1. Len(workChan) + 1 \in DOMAIN workChan'
          /\ workChan'[Len(workChan) + 1] = j
      BY <1>1, <2>1, <2>2
    <3> QED BY <3>1
  <2>4. Received(pkt.post)'
    BY <1>2, <2>2, <2>3 DEF Received
  <2>5. \A f \in Posts : Uuid[f] = uuid'[p] => f = pkt.post
    BY <2>1, PacketFacts DEF UniqueUuids
  <2>6. DoneReceived'
    BY <1>2, <2>1, <2>4, <2>5 DEF DoneReceived
  <2> QED BY <1>2, <2>1, <2>6 DEF Unfinished
<1>7. CASE UNCHANGED <<uuid, job, done>>
  BY <1>2, <1>7 DEF DoneReceived, Unfinished
<1>8. ASSUME NEW t \in Threads, Work(t)
      PROVE  UNCHANGED <<uuid, job, done>>
  BY <1>8, AttemptDoes DEF Work, Dispatch, Reject, Discard, Release
<1> QED BY <1>4, <1>5, <1>6, <1>7, <1>8 DEF ReceiverNext, Handle, NilJob, rvars

-----------------------------------------------------------------------------
(* The job of f on p has the chunk at o.                                   *)
Seen(p, f, o) ==
  job[p] # NoJob /\ uuid[p] = Uuid[f] /\ Index(Chunk(f, o)) \in job[p].seen

(* A chunk that a port reads for a FlowFile it does not have is one it has *)
(* seen from then on.                                                      *)
LEMMA HandleSees ==
  ASSUME UniqueUuids, AllFit, ReceiverKnows, DoneReceived, ~crashed',
         NEW p \in Ports, NEW f \in Posts, Verified(f), ~Received(f),
         ~Received(f)', NEW pkt \in Packets, pkt.post = f, Handle(p, pkt),
         NEW o \in DataOffsets(f), Seen(p, f, o) \/ pkt = Chunk(f, o)
  PROVE  Seen(p, f, o)'
<1> DEFINE k == Index(Chunk(f, o))
<1>1. /\ workChan \in Seq(Job) /\ job \in [Ports -> Job \cup {NoJob}]
      /\ uuid \in [Ports -> Uuids]
  BY DEF ReceiverKnows, TypeOK
<1>2. /\ Seen(p, f, o)' <=> /\ job'[p] # NoJob /\ uuid'[p] = Uuid[f]
                            /\ k \in job'[p].seen
      /\ k < TotalChunks(DeclaredLen(f)) /\ Chunk(f, o).len # 0
      /\ pkt = Chunk(f, o) => Index(pkt) = k
  BY DataChunks DEF Seen, Index, Chunk, EncodedLen, SentHeaderLen, SumAdded
<1>3. Seen(p, f, o) => /\ JobFor(p, pkt) = job[p] /\ job[p] # NoJob
                       /\ k \in JobFor(p, pkt).seen
  BY DEF Seen, JobFor, Opens
<1>4. ~DoneFor(p, pkt)
  BY DEF DoneReceived, DoneFor, Opens
<1> HIDE DEF k
<1>5. CASE Ignore(p, pkt)
  <2>1. uuid'[p] = Uuid[f] /\ job'[p] = JobFor(p, pkt)
    BY <1>1, <1>5 DEF Ignore
  <2>2. CASE Seen(p, f, o)
    BY <1>2, <1>3, <2>1, <2>2
  <2>3. CASE pkt = Chunk(f, o)
    <3>1. JobFor(p, pkt) # NoJob /\ ~IsNews(p, pkt) /\ ~IsIdle(p, pkt)
      BY <1>2, <1>4, <1>5, <2>3 DEF Ignore, IsIdle
    <3>2. JobFor(p, pkt).total = TotalChunks(DeclaredLen(f))
      BY <3>1, JobKnown DEF Rebuilds
    <3>3. k \in JobFor(p, pkt).seen
      BY <1>2, <2>3, <3>1, <3>2 DEF IsNews
    <3> QED BY <1>2, <2>1, <3>1, <3>3
  <2> QED BY <2>2, <2>3
<1>6. CASE NilJob(p, pkt)
  BY <1>6 DEF NilJob
<1>7. CASE Fill(p, pkt)
  <2>1. /\ IsNews(p, pkt) /\ uuid'[p] = Uuid[f]
        /\ job'[p] = Stored(JobFor(p, pkt), pkt)
    BY <1>1, <1>7 DEF Fill
  <2>2. job'[p] # NoJob /\ job'[p].seen = JobFor(p, pkt).seen \cup {Index(pkt)}
    BY <2>1, JobKnown, StoredCounts
  <2> QED BY <1>2, <1>3, <2>1, <2>2
<1>8. CASE Complete(p, pkt)
  <2> DEFINE j == Stored(JobFor(p, pkt), pkt)
  <2>1. IsNews(p, pkt) /\ workChan' = Append(workChan, j)
    BY <1>8 DEF Complete
  <2>2. j \in Job /\ Rebuilds(j, f)
    BY <2>1, JobKnown
  <2> HIDE DEF j
  <2>3. Len(workChan) + 1 \in DOMAIN workChan'
        /\ workChan'[Len(workChan) + 1] = j
    BY <1>1, <2>1, <2>2
  <2>4. \E i \in DOMAIN workChan' : Rebuilds(workChan'[i], f)
    BY <2>2, <2>3
  <2>5. Received(f)'
    BY <2>4 DEF Received, Rebuilds, SeenIsStored, StoredIsSeen, DataInPlace,
      AttrsAre
  <2> QED BY <2>5
<1> QED BY <1>5, <1>6, <1>7, <1>8 DEF Handle

-----------------------------------------------------------------------------
(* Places a .. b of the wire of p, all of f.                               *)
Stretch(p, a, b, f) ==
  /\ a \in Nat \ {0} /\ b \in Nat /\ a <= b + 1 /\ b <= Len(net[p])
  /\ \A i \in a .. b : net[p][i].post = f

(* The chunk at o was lost no more than once, or has a copy there, *)
OneLeft(p, a, b, f, o) ==
  \/ a = 1 /\ Seen(p, f, o)
  \/ <<f, o>> \in lostOnce
  \/ \E i \in a .. b : net[p][i] = Chunk(f, o)

(* or one more. *)
TwoLeft(p, a, b, f, o) ==
  \/ a = 1 /\ Seen(p, f, o)
  \/ <<f, o>> \in lostOnce /\ \E i \in a .. b : net[p][i] = Chunk(f, o)
  \/ \E i, j \in a .. b : i # j /\ net[p][i] = Chunk(f, o)
                                /\ net[p][j] = Chunk(f, o)

(* A stretch that ends at b with the chunks below n, and those below m     *)
(* twice.                                                                  *)
Held(f, p, b, n, m) ==
  \E a : /\ Stretch(p, a, b, f)
         /\ \A o \in DataOffsets(f) : /\ o < n => OneLeft(p, a, b, f, o)
                                      /\ o < m => TwoLeft(p, a, b, f, o)

LEMMA Fixed ==
  ASSUME NEW f
  PROVE  /\ DataOffsets(f)' = DataOffsets(f)
         /\ EncodedLen(f)' = EncodedLen(f)
         /\ \A o : Chunk(f, o)' = Chunk(f, o)
  BY DEF DataOffsets, PassOffsets, Chunk, EncodedLen, SentHeaderLen, SumAdded

(* A stretch stays when its port neither takes a packet nor loses one, *)
LEMMA HeldStays ==
  ASSUME NEW p \in Ports, NEW f, NEW b, NEW n, NEW m, Held(f, p, b, n, m),
         Len(net[p]) \in Nat, Len(net'[p]) \in Nat, Len(net[p]) <= Len(net'[p]),
         \A i \in 1 .. Len(net[p]) : net'[p][i] = net[p][i],
         uuid'[p] = uuid[p], job'[p] = job[p], lostOnce \subseteq lostOnce'
  PROVE  Held(f, p, b, n, m)'
<1>1. PICK a : /\ Stretch(p, a, b, f)
               /\ \A o \in DataOffsets(f) :
                    /\ o < n => OneLeft(p, a, b, f, o)
                    /\ o < m => TwoLeft(p, a, b, f, o)
  BY DEF Held
<1>2. /\ a \in Nat \ {0} /\ b \in Nat /\ a <= b + 1 /\ b <= Len(net[p])
      /\ \A i \in a .. b : net[p][i].post = f
  BY <1>1 DEF Stretch
<1>3. \A i \in a .. b : net'[p][i] = net[p][i]
  BY <1>2
<1>4. Stretch(p, a, b, f)'
  BY <1>2, <1>3 DEF Stretch
<1>5. ASSUME NEW o
      PROVE  /\ OneLeft(p, a, b, f, o) => OneLeft(p, a, b, f, o)'
             /\ TwoLeft(p, a, b, f, o) => TwoLeft(p, a, b, f, o)'
  <2>1. Chunk(f, o)' = Chunk(f, o) /\ Seen(p, f, o)' = Seen(p, f, o)
    BY Fixed DEF Seen, Index, Chunk, EncodedLen, SentHeaderLen, SumAdded
  <2> QED BY <1>3, <2>1 DEF OneLeft, TwoLeft
<1> QED BY <1>1, <1>4, <1>5, Fixed DEF Held

(* and moves up when it does and the packet is not missed.                 *)
Yields(f, p) ==
  net[p][1].post = f =>
    \A o \in DataOffsets(f) :
      /\ Seen(p, f, o) => Seen(p, f, o)'
      /\ net[p][1] = Chunk(f, o) =>
           Seen(p, f, o)' \/ (<<f, o>> \notin lostOnce /\ <<f, o>> \in lostOnce')

LEMMA HeldShifts ==
  ASSUME NEW p \in Ports, Shifts(p), NEW f, NEW b, b # 0, NEW n, NEW m,
         Held(f, p, b, n, m), Yields(f, p), lostOnce \subseteq lostOnce'
  PROVE  Held(f, p, b - 1, n, m)'
<1>1. PICK a : /\ Stretch(p, a, b, f)
               /\ \A o \in DataOffsets(f) :
                    /\ o < n => OneLeft(p, a, b, f, o)
                    /\ o < m => TwoLeft(p, a, b, f, o)
  BY DEF Held
<1> DEFINE l == Len(net[p])
<1>2. /\ a \in Nat \ {0} /\ b \in Nat \ {0} /\ a <= b + 1 /\ b <= l
      /\ \A i \in a .. b : net[p][i].post = f
  BY <1>1 DEF Stretch
<1>3. /\ l \in Nat \ {0} /\ Len(net'[p]) = l - 1
      /\ \A i \in 1 .. l - 1 : net'[p][i] = net[p][i + 1]
  BY DEF Shifts
<1> HIDE DEF l
<1>4. PICK c : c = IF a = 1 THEN 1 ELSE a - 1
  OBVIOUS
<1>5. ASSUME NEW i \in a .. b, i # 1
      PROVE  i - 1 \in c .. b - 1 /\ net'[p][i - 1] = net[p][i]
  <2>1. /\ i \in Int /\ i - 1 \in 1 .. l - 1 /\ (i - 1) + 1 = i
        /\ i - 1 \in c .. b - 1
    BY <1>2, <1>3, <1>4, <1>5
  <2>2. net'[p][i - 1] = net[p][(i - 1) + 1]
    BY <1>3, <2>1
  <2> QED BY <2>1, <2>2
<1>6. Stretch(p, c, b - 1, f)'
  <2>1. ASSUME NEW i \in c .. b - 1
        PROVE  net'[p][i].post = f
    <3>1. i + 1 \in a .. b /\ i \in 1 .. l - 1
      BY <1>2, <1>3, <1>4
    <3> QED BY <1>2, <1>3, <3>1
  <2>2. /\ c \in Nat \ {0} /\ b - 1 \in Nat /\ c <= (b - 1) + 1
        /\ b - 1 <= l - 1
    BY <1>2, <1>3, <1>4
  <2> QED BY <1>3, <2>1, <2>2 DEF Stretch
<1>7. ASSUME NEW o \in DataOffsets(f)
      PROVE  /\ OneLeft(p, a, b, f, o) => OneLeft(p, c, b - 1, f, o)'
             /\ TwoLeft(p, a, b, f, o) => TwoLeft(p, c, b - 1, f, o)'
  <2> DEFINE k == Chunk(f, o)
             copy == <<f, o>>
  <2>1. k' = k
    BY Fixed
  <2>2. /\ OneLeft(p, a, b, f, o) =>
             \/ a = 1 /\ Seen(p, f, o)
             \/ copy \in lostOnce
             \/ \E i \in a .. b : net[p][i] = k
        /\ TwoLeft(p, a, b, f, o) =>
             \/ a = 1 /\ Seen(p, f, o)
             \/ copy \in lostOnce /\ \E i \in a .. b : net[p][i] = k
             \/ \E i, j \in a .. b : i # j /\ net[p][i] = k /\ net[p][j] = k
    BY DEF OneLeft, TwoLeft
  <2>3. /\ \/ c = 1 /\ Seen(p, f, o)'
           \/ copy \in lostOnce'
           \/ \E i \in c .. b - 1 : net'[p][i] = k
           => OneLeft(p, c, b - 1, f, o)'
        /\ \/ c = 1 /\ Seen(p, f, o)'
           \/ copy \in lostOnce' /\ \E i \in c .. b - 1 : net'[p][i] = k
           \/ \E i, j \in c .. b - 1 : i # j /\ net'[p][i] = k /\ net'[p][j] = k
           => TwoLeft(p, c, b - 1, f, o)'
    BY <2>1 DEF OneLeft, TwoLeft
  <2>4. a = 1 => /\ c = 1
                 /\ Seen(p, f, o) => Seen(p, f, o)'
                 /\ net[p][1] = k =>
                      \/ Seen(p, f, o)'
                      \/ copy \notin lostOnce /\ copy \in lostOnce'
    <3>1. a = 1 => 1 \in a .. b
      BY <1>2
    <3> QED BY <1>2, <1>4, <3>1 DEF Yields
  <2>5. \A i \in a .. b : i = 1 => a = 1
    BY <1>2
  <2> HIDE DEF k, copy
  <2>6. ASSUME NEW i \in a .. b, NEW j \in a .. b, i # j,
               net[p][i] = k, net[p][j] = k, i # 1
        PROVE  TwoLeft(p, c, b - 1, f, o)'
    <3>1. i - 1 \in c .. b - 1 /\ net'[p][i - 1] = k
      BY <1>5, <2>6
    <3>2. CASE j = 1
      BY <2>3, <2>4, <2>5, <2>6, <3>1, <3>2
    <3>3. CASE j # 1
      <4>1. j - 1 \in c .. b - 1 /\ net'[p][j - 1] = k /\ i - 1 # j - 1
        BY <1>5, <2>6, <3>3
      <4> QED BY <2>3, <3>1, <4>1
    <3> QED BY <3>2, <3>3
  <2>7. ASSUME NEW i \in a .. b, net[p][i] = k
        PROVE  /\ OneLeft(p, c, b - 1, f, o)'
               /\ copy \in lostOnce => TwoLeft(p, c, b - 1, f, o)'
    <3>1. CASE i = 1
      BY <2>3, <2>4, <2>5, <2>7, <3>1
    <3>2. CASE i # 1
      BY <1>5, <2>3, <2>7, <3>2
    <3> QED BY <3>1, <3>2
  <2>8. ASSUME NEW i \in a .. b, NEW j \in a .. b, i # j,
               net[p][i] = k, net[p][j] = k
        PROVE  TwoLeft(p, c, b - 1, f, o)'
    <3>1. CASE i # 1
      BY <2>6, <2>8, <3>1
    <3>2. CASE j # 1
      BY <2>6, <2>8, <3>2
    <3> QED BY <2>8, <3>1, <3>2
  <2>9. OneLeft(p, a, b, f, o) => OneLeft(p, c, b - 1, f, o)'
    BY <2>2, <2>3, <2>4, <2>7
  <2>10. TwoLeft(p, a, b, f, o) => TwoLeft(p, c, b - 1, f, o)'
    BY <2>2, <2>3, <2>4, <2>7, <2>8
  <2> QED BY <2>9, <2>10
<1> QED BY <1>1, <1>6, <1>7, Fixed DEF Held

(* A chunk that is sent lengthens it.                                      *)
LEMMA HeldGrows ==
  ASSUME NEW p \in Ports, NEW f, NEW q, Adds(p, Chunk(f, q)),
         uuid'[p] = uuid[p], job'[p] = job[p], lostOnce' = lostOnce,
         NEW n, NEW m, Held(f, p, Len(net[p]), n, m), NEW n1, NEW m1,
         \A o \in DataOffsets(f) :
           /\ o < n1 => o < n \/ o = q
           /\ o < m1 => o < m \/ (o = q /\ o < n)
  PROVE  Held(f, p, Len(net[p]), n1, m1)'
<1>0. PICK l : l = Len(net[p])
  OBVIOUS
<1>1. PICK a : /\ Stretch(p, a, l, f)
               /\ \A o \in DataOffsets(f) :
                    /\ o < n => OneLeft(p, a, l, f, o)
                    /\ o < m => TwoLeft(p, a, l, f, o)
  BY <1>0 DEF Held
<1>2. /\ a \in Nat \ {0} /\ l \in Nat /\ a <= l + 1
      /\ \A i \in a .. l : net[p][i].post = f
  BY <1>0, <1>1 DEF Stretch
<1>3. /\ Len(net'[p]) = l + 1 /\ net'[p][l + 1] = Chunk(f, q)
      /\ \A i \in 1 .. l : net'[p][i] = net[p][i]
      /\ Chunk(f, q).post = f
  BY <1>0 DEF Adds, Chunk
<1>4. /\ \A i \in a .. l : i \in a .. l + 1 /\ i # l + 1
                           /\ net'[p][i] = net[p][i]
      /\ \A i \in a .. l + 1 : i \in a .. l \/ i = l + 1
      /\ l + 1 \in a .. l + 1
  BY <1>2, <1>3
<1>5. Stretch(p, a, l + 1, f)'
  <2>1. \A i \in a .. l + 1 : net'[p][i].post = f
    BY <1>2, <1>3, <1>4
  <2> QED BY <1>2, <1>3, <2>1 DEF Stretch
<1>6. ASSUME NEW o
      PROVE  /\ OneLeft(p, a, l, f, o) => OneLeft(p, a, l + 1, f, o)'
             /\ TwoLeft(p, a, l, f, o) => TwoLeft(p, a, l + 1, f, o)'
             /\ o = q => /\ OneLeft(p, a, l + 1, f, o)'
                         /\ OneLeft(p, a, l, f, o) => TwoLeft(p, a, l + 1, f, o)'
  <2>1. Chunk(f, o)' = Chunk(f, o) /\ Seen(p, f, o)' = Seen(p, f, o)
    BY Fixed DEF Seen, Index, Chunk, EncodedLen, SentHeaderLen, SumAdded
  <2>2. OneLeft(p, a, l, f, o) => OneLeft(p, a, l + 1, f, o)'
    BY <1>4, <2>1 DEF OneLeft
  <2>3. TwoLeft(p, a, l, f, o) => TwoLeft(p, a, l + 1, f, o)'
    BY <1>4, <2>1 DEF TwoLeft
  <2>4. o = q => OneLeft(p, a, l + 1, f, o)'
    BY <1>3, <1>4, <2>1 DEF OneLeft
  <2>5. o = q /\ OneLeft(p, a, l, f, o) => TwoLeft(p, a, l + 1, f, o)'
    BY <1>3, <1>4, <2>1 DEF OneLeft, TwoLeft
  <2> QED BY <2>2, <2>3, <2>4, <2>5
<1>7. \A o \in DataOffsets(f) : /\ o < n1 => OneLeft(p, a, l + 1, f, o)'
                                /\ o < m1 => TwoLeft(p, a, l + 1, f, o)'
  BY <1>1, <1>6
<1> QED BY <1>3, <1>5, <1>7, Fixed DEF Held

(* Of a FlowFile that is held twice something is always under way.         *)
LEMMA HeldNotEmpty ==
  ASSUME UniqueUuids, AllFit, ReceiverKnows, Unfinished,
         NEW p \in Ports, NEW f \in Posts
  PROVE  ~Held(f, p, 0, EncodedLen(f), EncodedLen(f))
<1> SUFFICES ASSUME Held(f, p, 0, EncodedLen(f), EncodedLen(f))
             PROVE  FALSE
  OBVIOUS
<1>1. PICK a : /\ Stretch(p, a, 0, f)
               /\ \A o \in DataOffsets(f) :
                    o < EncodedLen(f) => TwoLeft(p, a, 0, f, o)
  BY DEF Held
<1>2. a = 1 /\ a .. 0 = {}
  BY <1>1 DEF Stretch
<1>3. \A o \in DataOffsets(f) : Seen(p, f, o)
  BY <1>1, <1>2 DEF TwoLeft, DataOffsets
<1>4. /\ \A k \in 0 .. TotalChunks(DeclaredLen(f)) - 1 :
           \E o \in DataOffsets(f) : Index(Chunk(f, o)) = k
      /\ TotalChunks(DeclaredLen(f)) \in Nat \ {0}
  BY DataChunks
<1>5. \A k \in 0 .. TotalChunks(DeclaredLen(f)) - 1 :
        job[p] # NoJob /\ uuid[p] = Uuid[f] /\ k \in job[p].seen
  BY <1>3, <1>4 DEF Seen
<1>6. 0 \in 0 .. TotalChunks(DeclaredLen(f)) - 1
  BY <1>4
<1>7. job[p] # NoJob /\ Rebuilds(job[p], f)
  BY <1>5, <1>6, JobKnown
<1>8. job[p].total = TotalChunks(DeclaredLen(f))
  BY <1>7 DEF Rebuilds
<1> QED BY <1>5, <1>7, <1>8 DEF Unfinished, AllSeen

-----------------------------------------------------------------------------
(* While f is sent, the chunks of the pass under way, and afterwards all   *)
(* of them, are held on its port: once in the first pass, twice from then. *)
Tracked(f) ==
  /\ pc[f] = "send1" =>
       Held(f, worker[f], Len(net[worker[f]]), off[f], 0)
  /\ pc[f] = "send2" =>
       Held(f, worker[f], Len(net[worker[f]]), EncodedLen(f), off[f])
  /\ reply[f] = "ok" /\ isOpen[f] =>
       \E p \in Ports : \E b : Held(f, p, b, EncodedLen(f), EncodedLen(f))

Wanted(f) == Verified(f) /\ f \notin lostTwice /\ ~Received(f)

AllTracked == \A f \in Posts : Wanted(f) => Tracked(f)

(* post reports no success for a FlowFile that fails its check.            *)
OkVerified == \A f \in Posts : reply[f] = "ok" => Verified(f)

LEMMA OkStep ==
  ASSUME SenderInv, OkVerified, NEW f \in Posts,
         Request(f) \/ HangUp(f) \/ Post(f)
  PROVE  OkVerified'
<1>1. SenderTypeOK /\ (Sending(f) => Verified(f))
  BY DEF SenderInv, CheckedFirst, Sending
<1>2. ASSUME \A g \in Posts : reply'[g] = "ok" => reply[g] = "ok" \/ Verified(g)
      PROVE  OkVerified'
  BY <1>2 DEF OkVerified, Verified
<1>3. CASE Request(f)
  BY <1>1, <1>2, <1>3 DEF Request, SenderTypeOK
<1>4. CASE HangUp(f)
  BY <1>2, <1>4 DEF HangUp
<1>5. CASE TakeWorker(f) \/ Buffer(f) \/ StartSending(f) \/ SendChunk(f)
           \/ EndFirstPass(f)
  BY <1>2, <1>5 DEF TakeWorker, Buffer, StartSending, SendChunk, EndFirstPass
<1>6. CASE Refuse(f) \/ BreakOff(f) \/ WriteFails(f)
  BY <1>1, <1>2, <1>6 DEF Refuse, BreakOff, WriteFails, Return, SenderTypeOK
<1>7. CASE EndSecondPass(f) \/ Abandon(f)
  BY <1>1, <1>2, <1>7 DEF EndSecondPass, Abandon, Sending, Return, SenderTypeOK
<1> QED BY <1>3, <1>4, <1>5, <1>6, <1>7 DEF Post

(* A packet is read or lost. *)
LEMMA ShiftsTracked ==
  ASSUME UniqueUuids, AllFit, SenderInv, ReceiverKnows, Unfinished,
         NEW p \in Ports, Shifts(p),
         UNCHANGED <<pc, isOpen, worker, off, reply>>,
         \A q \in Ports \ {p} : uuid'[q] = uuid[q] /\ job'[q] = job[q],
         lostOnce \subseteq lostOnce',
         NEW f \in Posts, Yields(f, p), Tracked(f)
  PROVE  Tracked(f)'
<1>1. /\ \A q \in Ports : Len(net[q]) \in Nat
      /\ pc[f] \in {"send1", "send2"} => worker[f] \in Ports
  BY LenProperties DEF SenderInv, SenderTypeOK, HoldersHold, Holding
<1>2. /\ Len(net[p]) # 0 /\ Len(net'[p]) = Len(net[p]) - 1
      /\ \A q \in Ports \ {p} : net'[q] = net[q]
  BY DEF Shifts
<1>3. ASSUME NEW q \in Ports \ {p}, NEW b, NEW n, NEW m, Held(f, q, b, n, m)
      PROVE  Held(f, q, b, n, m)'
  BY <1>1, <1>2, <1>3, HeldStays
<1>4. ASSUME NEW b, b # 0, NEW n, NEW m, Held(f, p, b, n, m)
      PROVE  Held(f, p, b - 1, n, m)'
  BY <1>4, HeldShifts
<1>5. ASSUME NEW q \in Ports, NEW l, l = Len(net[q]), NEW n, NEW m,
             Held(f, q, l, n, m)
      PROVE  \E k : k = Len(net'[q]) /\ Held(f, q, k, n, m)'
  <2>1. CASE q # p
    <3>1. l = Len(net'[q]) /\ Held(f, q, l, n, m)'
      BY <1>2, <1>3, <1>5, <2>1
    <3> QED BY <3>1
  <2>2. CASE q = p
    <3>1. l # 0 /\ l - 1 = Len(net'[q])
      BY <1>2, <1>5, <2>2
    <3>2. Held(f, p, l - 1, n, m)'
      BY <1>4, <1>5, <2>2, <3>1
    <3> QED BY <2>2, <3>1, <3>2
  <2> QED BY <2>1, <2>2
<1>6. ASSUME pc[f] = "send1"
      PROVE  Held(f, worker[f], Len(net[worker[f]]), off[f], 0)'
  <2>0. PICK q \in Ports : q = worker[f]
    BY <1>1, <1>6
  <2>1. PICK l, n : q = worker[f] /\ l = Len(net[q]) /\ n = off[f]
    BY <2>0
  <2>2. Held(f, q, l, n, 0)
    BY <1>6, <2>1 DEF Tracked
  <2>3. PICK k : k = Len(net'[q]) /\ Held(f, q, k, n, 0)'
    BY <1>5, <2>1, <2>2
  <2>4. q = worker'[f] /\ n = off'[f]
    BY <2>1
  <2> QED BY <2>3, <2>4
<1>7. ASSUME pc[f] = "send2"
      PROVE  Held(f, worker[f], Len(net[worker[f]]), EncodedLen(f), off[f])'
  <2>0. PICK q \in Ports : q = worker[f]
    BY <1>1, <1>7
  <2>1. PICK l, n, m :
          /\ q = worker[f] /\ l = Len(net[q]) /\ n = EncodedLen(f) /\ m = off[f]
    BY <2>0
  <2>2. Held(f, q, l, n, m)
    BY <1>7, <2>1 DEF Tracked
  <2>3. PICK k : k = Len(net'[q]) /\ Held(f, q, k, n, m)'
    BY <1>5, <2>1, <2>2
  <2>4. q = worker'[f] /\ n = EncodedLen(f)' /\ m = off'[f]
    BY <2>1, Fixed
  <2> QED BY <2>3, <2>4
<1>8. ASSUME NEW q \in Ports, NEW b, Held(f, q, b, EncodedLen(f), EncodedLen(f))
      PROVE  \E k : Held(f, q, k, EncodedLen(f), EncodedLen(f))'
  <2>1. PICK n : n = EncodedLen(f) /\ n = EncodedLen(f)'
    BY Fixed
  <2>2. \E k : Held(f, q, k, n, n)'
    <3>1. CASE q # p
      BY <1>3, <1>8, <2>1, <3>1
    <3>2. CASE q = p
      <4>1. b # 0
        BY <1>8, <3>2, HeldNotEmpty
      <4>2. Held(f, p, b - 1, n, n)'
        BY <1>4, <1>8, <2>1, <3>2, <4>1
      <4> QED BY <3>2, <4>2
    <3> QED BY <3>1, <3>2
  <2> QED BY <2>1, <2>2
<1>9. ASSUME reply[f] = "ok", isOpen[f]
      PROVE  \E q \in Ports : \E k : Held(f, q, k, EncodedLen(f), EncodedLen(f))'
  <2>1. PICK q \in Ports : \E b : Held(f, q, b, EncodedLen(f), EncodedLen(f))
    BY <1>9 DEF Tracked
  <2> QED BY <1>8, <2>1
<1> QED BY <1>6, <1>7, <1>9 DEF Tracked

(* A step of a post: what is held stays where nothing else is sent, *)
LEMMA PostHolds ==
  ASSUME SenderInv, NEW f \in Posts, Request(f) \/ HangUp(f) \/ Post(f),
         UNCHANGED <<uuid, job, lostOnce>>, NEW p \in Ports, NEW g, NEW b,
         NEW n, NEW m, Held(g, p, b, n, m)
  PROVE  Held(g, p, b, n, m)'
<1>1. /\ Len(net[p]) \in Nat /\ DOMAIN net[p] = 1 .. Len(net[p])
      /\ \A i \in 1 .. Len(net[p]) : net'[p][i] = net[p][i]
  BY StepGrows, LenProperties DEF Grows, SenderInv, SenderTypeOK
<1>2. Len(net'[p]) \in Nat /\ Len(net[p]) <= Len(net'[p])
  <2>1. ASSUME NEW q \in Ports, NEW pkt, Adds(q, pkt)
        PROVE  Len(net'[p]) \in {Len(net[p]), Len(net[p]) + 1}
    BY <2>1 DEF Adds
  <2>2. net' = net \/ \E q \in Ports : \E pkt : Adds(q, pkt)
    BY WireSteps, WireAdds
  <2> QED BY <1>1, <2>1, <2>2
<1> QED BY <1>1, <1>2, HeldStays

(* also at the end of the wire, unless it is of the FlowFile that is sent. *)
LEMMA PostTracksOthers ==
  ASSUME SenderInv, NEW f \in Posts, Request(f) \/ HangUp(f) \/ Post(f),
         UNCHANGED <<uuid, job, lostOnce>>, NEW g \in Posts \ {f}, Tracked(g)
  PROVE  Tracked(g)'
<1>1. /\ pc'[g] = pc[g] /\ worker'[g] = worker[g] /\ off'[g] = off[g]
      /\ reply'[g] = reply[g] /\ isOpen'[g] = isOpen[g]
      /\ EncodedLen(g)' = EncodedLen(g)
  BY WireSteps, Fixed DEF Alone
<1>2. ASSUME pc[g] \in {"send1", "send2"}
      PROVE  worker[g] \in Ports /\ net'[worker[g]] = net[worker[g]]
  <2>1. worker[g] \in Ports /\ worker[g] # NoPort /\ WorkersApart
    BY <1>2 DEF SenderInv, SenderTypeOK, HoldersHold, Holding
  <2>2. CASE net' = net
    BY <2>1, <2>2
  <2>3. CASE WakesUp(f)
    <3>1. Adds(Head(workers), WakeUp(f)) /\ Idle(Head(workers))
      BY <2>3, WireAdds DEF WakesUp, TakesHead, SenderInv, SenderTypeOK, Idle
    <3> QED BY <2>1, <3>1 DEF Adds, WorkersApart
  <2>4. CASE SendsNext(f)
    <3>1. Adds(worker[f], Chunk(f, off[f])) /\ worker[f] # worker[g]
      BY <2>1, <2>4, WireAdds DEF WorkersApart
    <3> QED BY <2>1, <3>1 DEF Adds
  <2> QED BY <2>2, <2>3, <2>4, WireSteps
<1>3. ASSUME pc[g] \in {"send1", "send2"}, NEW n, NEW m,
             Held(g, worker[g], Len(net[worker[g]]), n, m)
      PROVE  \E p, l : /\ p = worker'[g] /\ l = Len(net'[p])
                       /\ Held(g, p, l, n, m)'
  <2>1. PICK p \in Ports : p = worker[g]
    BY <1>2, <1>3
  <2>2. PICK l : l = Len(net[p])
    OBVIOUS
  <2>3. Held(g, p, l, n, m)'
    BY <1>3, <2>1, <2>2, PostHolds
  <2>4. p = worker'[g] /\ l = Len(net'[p])
    BY <1>1, <1>2, <1>3, <2>1, <2>2
  <2> QED BY <2>3, <2>4
<1>4. ASSUME pc[g] = "send1"
      PROVE  Held(g, worker[g], Len(net[worker[g]]), off[g], 0)'
  <2>1. PICK n : n = off[g]
    OBVIOUS
  <2>2. Held(g, worker[g], Len(net[worker[g]]), n, 0)
    BY <1>4, <2>1 DEF Tracked
  <2>3. PICK p, l : /\ p = worker'[g] /\ l = Len(net'[p])
                    /\ Held(g, p, l, n, 0)'
    BY <1>3, <1>4, <2>2
  <2> QED BY <1>1, <2>1, <2>3
<1>5. ASSUME pc[g] = "send2"
      PROVE  Held(g, worker[g], Len(net[worker[g]]), EncodedLen(g), off[g])'
  <2>1. PICK n, m : n = EncodedLen(g) /\ m = off[g]
    OBVIOUS
  <2>2. Held(g, worker[g], Len(net[worker[g]]), n, m)
    BY <1>5, <2>1 DEF Tracked
  <2>3. PICK p, l : /\ p = worker'[g] /\ l = Len(net'[p])
                    /\ Held(g, p, l, n, m)'
    BY <1>3, <1>5, <2>2
  <2> QED BY <1>1, <2>1, <2>3
<1>6. ASSUME reply[g] = "ok", isOpen[g]
      PROVE  \E p \in Ports : \E b : Held(g, p, b, EncodedLen(g), EncodedLen(g))'
  <2>1. PICK n : n = EncodedLen(g)
    OBVIOUS
  <2>2. PICK p \in Ports : \E b : Held(g, p, b, n, n)
    BY <1>6, <2>1 DEF Tracked
  <2>3. \E b : Held(g, p, b, n, n)'
    BY <2>2, PostHolds
  <2> QED BY <1>1, <2>1, <2>3
<1> QED BY <1>1, <1>4, <1>5, <1>6 DEF Tracked

(* A chunk that is sent lengthens what is held of its FlowFile.            *)
LEMMA SendHolds ==
  ASSUME SenderInv, NEW f \in Posts, SendsNext(f),
         UNCHANGED <<uuid, job, lostOnce>>, NEW n, NEW m, NEW n1, NEW m1,
         Held(f, worker[f], Len(net[worker[f]]), n, m),
         \A o \in DataOffsets(f) :
           /\ o < n1 => o < n \/ o = off[f]
           /\ o < m1 => o < m \/ (o = off[f] /\ o < n)
  PROVE  \E p \in Ports : \E l : /\ p = worker[f] /\ l = Len(net'[p])
                                 /\ Held(f, p, l, n1, m1)'
<1>1. PICK p \in Ports : p = worker[f]
  BY WireAdds
<1>2. PICK q : q = off[f]
  OBVIOUS
<1>3. Adds(p, Chunk(f, q))
  BY <1>1, <1>2, WireAdds
<1>4. Held(f, p, Len(net[p]), n1, m1)'
  <2>1. /\ uuid'[p] = uuid[p] /\ job'[p] = job[p] /\ lostOnce' = lostOnce
        /\ Held(f, p, Len(net[p]), n, m)
    BY <1>1
  <2>2. \A o \in DataOffsets(f) : /\ o < n1 => o < n \/ o = q
                                  /\ o < m1 => o < m \/ (o = q /\ o < n)
    BY <1>2
  <2> QED BY <1>3, <2>1, <2>2, HeldGrows
<1>5. PICK l : l = Len(net'[p])
  OBVIOUS
<1> QED BY <1>1, <1>4, <1>5

LEMMA PostTracksOwn ==
  ASSUME SenderInv, NEW f \in Posts, Request(f) \/ HangUp(f) \/ Post(f),
         UNCHANGED <<uuid, job, lostOnce>>, Tracked(f)
  PROVE  Tracked(f)'
<1>1. /\ SenderTypeOK /\ HoldersHold /\ OffsetsOnGrid
      /\ EncodedLen(f)' = EncodedLen(f) /\ DataOffsets(f)' = DataOffsets(f)
  BY Fixed DEF SenderInv
<1>2. /\ \A o \in DataOffsets(f) :
           /\ o \in Nat /\ o < EncodedLen(f)
           /\ o < off[f] + Mtu => o < off[f] \/ o = off[f]
      /\ off[f] \in Nat /\ Mtu \in Nat /\ EncodedLen(f) \in Nat
  BY <1>1, Grid DEF DataOffsets, OffsetsOnGrid
<1>3. reply[f] = "ok" /\ isOpen[f] =>
        \E p \in Ports : \E b : Held(f, p, b, EncodedLen(f), EncodedLen(f))'
  <2> SUFFICES ASSUME reply[f] = "ok", isOpen[f]
               PROVE  \E p \in Ports : \E b :
                        Held(f, p, b, EncodedLen(f), EncodedLen(f))'
    OBVIOUS
  <2>1. PICK n : n = EncodedLen(f)
    OBVIOUS
  <2>2. PICK p \in Ports : \E b : Held(f, p, b, n, n)
    BY <2>1 DEF Tracked
  <2>3. \E b : Held(f, p, b, n, n)'
    BY <2>2, PostHolds
  <2> QED BY <1>1, <2>1, <2>3
<1>4. ASSUME ~(pc'[f] \in {"send1", "send2"}),
             reply'[f] = "ok" /\ isOpen'[f] => reply[f] = "ok" /\ isOpen[f]
      PROVE  Tracked(f)'
  BY <1>3, <1>4 DEF Tracked
<1>5. CASE Request(f) \/ TakeWorker(f) \/ Buffer(f)
  BY <1>1, <1>4, <1>5 DEF Request, TakeWorker, Buffer, SenderTypeOK
<1>6. CASE Refuse(f) \/ WriteFails(f) \/ Abandon(f) \/ BreakOff(f)
  BY <1>1, <1>4, <1>6 DEF Refuse, WriteFails, Abandon, BreakOff, Return,
    SenderTypeOK
<1>7. CASE HangUp(f)
  <2>1. /\ UNCHANGED <<pc, worker, off, net>> /\ ~isOpen'[f]
    BY <1>1, <1>7 DEF HangUp, SenderTypeOK
  <2>2. ASSUME pc[f] \in {"send1", "send2"}, NEW n, NEW m,
               Held(f, worker[f], Len(net[worker[f]]), n, m)
        PROVE  \E p, l : /\ p = worker'[f] /\ l = Len(net'[p])
                         /\ Held(f, p, l, n, m)'
    <3>1. PICK p \in Ports : p = worker[f]
      BY <1>1, <2>2 DEF SenderTypeOK, HoldersHold, Holding
    <3>2. PICK l : l = Len(net[p])
      OBVIOUS
    <3>3. Held(f, p, l, n, m)'
      BY <2>2, <3>1, <3>2, PostHolds
    <3> QED BY <2>1, <3>1, <3>2, <3>3
  <2>3. ASSUME pc[f] = "send1"
        PROVE  Held(f, worker[f], Len(net[worker[f]]), off[f], 0)'
    <3>1. PICK n : n = off[f]
      OBVIOUS
    <3>2. Held(f, worker[f], Len(net[worker[f]]), n, 0)
      BY <2>3, <3>1 DEF Tracked
    <3>3. PICK p, l : /\ p = worker'[f] /\ l = Len(net'[p])
                      /\ Held(f, p, l, n, 0)'
      BY <2>2, <2>3, <3>2
    <3> QED BY <2>1, <3>1, <3>3
  <2>4. ASSUME pc[f] = "send2"
        PROVE  Held(f, worker[f], Len(net[worker[f]]), EncodedLen(f), off[f])'
    <3>1. PICK n, m : n = EncodedLen(f) /\ m = off[f]
      OBVIOUS
    <3>2. Held(f, worker[f], Len(net[worker[f]]), n, m)
      BY <2>4, <3>1 DEF Tracked
    <3>3. PICK p, l : /\ p = worker'[f] /\ l = Len(net'[p])
                      /\ Held(f, p, l, n, m)'
      BY <2>2, <2>4, <3>2
    <3> QED BY <1>1, <2>1, <3>1, <3>3
  <2> QED BY <2>1, <2>3, <2>4 DEF Tracked
<1>8. CASE StartSending(f)
  <2>1. /\ UNCHANGED <<worker, net, reply, isOpen>>
        /\ pc'[f] = "send1" /\ off'[f] = 0
    BY <1>1, <1>8 DEF StartSending, SenderTypeOK
  <2>2. PICK p \in Ports : p = worker[f]
    BY <1>1, <1>8 DEF StartSending, SenderTypeOK, HoldersHold, Holding
  <2>3. PICK l : l = Len(net[p]) /\ l \in Nat
    BY <1>1, LenProperties DEF SenderTypeOK
  <2>4. Stretch(p, l + 1, l, f)'
    <3>1. (l + 1) .. l = {} /\ l + 1 \in Nat \ {0}
      BY <2>3
    <3> QED BY <2>1, <2>3, <3>1 DEF Stretch
  <2>5. \A o \in DataOffsets(f)' : ~(o < 0)
    BY <1>1, <1>2
  <2>6. Held(f, p, l, 0, 0)'
    BY <2>4, <2>5 DEF Held
  <2>7. Held(f, worker[f], Len(net[worker[f]]), off[f], 0)'
    BY <2>1, <2>2, <2>3, <2>6
  <2> QED BY <1>3, <2>1, <2>7 DEF Tracked
<1>9. CASE SendChunk(f)
  <2>1. /\ SendsNext(f) /\ UNCHANGED <<pc, worker, reply, isOpen>>
        /\ off'[f] = off[f] + Mtu
    BY <1>1, <1>9 DEF SendChunk, SendsNext, SenderTypeOK
  <2>2. ASSUME pc[f] = "send1"
        PROVE  Held(f, worker[f], Len(net[worker[f]]), off[f], 0)'
    <3>1. PICK n, n1 : n = off[f] /\ n1 = off[f] + Mtu
      OBVIOUS
    <3>2. Held(f, worker[f], Len(net[worker[f]]), n, 0)
      BY <2>2, <3>1 DEF Tracked
    <3>3. \A o \in DataOffsets(f) :
            /\ o < n1 => o < n \/ o = off[f]
            /\ o < 0 => o < 0 \/ (o = off[f] /\ o < n)
      BY <1>2, <3>1
    <3>4. PICK p \in Ports : \E l : /\ p = worker[f] /\ l = Len(net'[p])
                                    /\ Held(f, p, l, n1, 0)'
      BY <2>1, <3>2, <3>3, SendHolds
    <3>5. PICK l : /\ p = worker[f] /\ l = Len(net'[p])
                   /\ Held(f, p, l, n1, 0)'
      BY <3>4
    <3> QED BY <2>1, <3>1, <3>5
  <2>3. ASSUME pc[f] = "send2"
        PROVE  Held(f, worker[f], Len(net[worker[f]]), EncodedLen(f), off[f])'
    <3>1. PICK n, m, m1 : n = EncodedLen(f) /\ m = off[f] /\ m1 = off[f] + Mtu
      OBVIOUS
    <3>2. Held(f, worker[f], Len(net[worker[f]]), n, m)
      BY <2>3, <3>1 DEF Tracked
    <3>3. \A o \in DataOffsets(f) :
            /\ o < n => o < n \/ o = off[f]
            /\ o < m1 => o < m \/ (o = off[f] /\ o < n)
      BY <1>2, <3>1
    <3>4. PICK p \in Ports : \E l : /\ p = worker[f] /\ l = Len(net'[p])
                                    /\ Held(f, p, l, n, m1)'
      BY <2>1, <3>2, <3>3, SendHolds
    <3>5. PICK l : /\ p = worker[f] /\ l = Len(net'[p])
                   /\ Held(f, p, l, n, m1)'
      BY <3>4
    <3> QED BY <1>1, <2>1, <3>1, <3>5
  <2> QED BY <1>3, <2>1, <2>2, <2>3 DEF Tracked
<1>10. CASE EndFirstPass(f)
  <2>1. /\ SendsNext(f) /\ UNCHANGED <<worker, reply, isOpen>>
        /\ pc[f] = "send1" /\ pc'[f] = "send2" /\ off'[f] = 0
        /\ off[f] + Mtu > EncodedLen(f)
    BY <1>1, <1>10 DEF EndFirstPass, EndsPass, SendsNext, Sending, SenderTypeOK
  <2>2. PICK n, n1 : n = off[f] /\ n1 = EncodedLen(f)
    OBVIOUS
  <2>3. Held(f, worker[f], Len(net[worker[f]]), n, 0)
    BY <2>1, <2>2 DEF Tracked
  <2>4. \A o \in DataOffsets(f) :
          /\ o < n1 => o < n \/ o = off[f]
          /\ o < 0 => o < 0 \/ (o = off[f] /\ o < n)
    BY <1>2, <2>1, <2>2
  <2>5. PICK p \in Ports : \E l : /\ p = worker[f] /\ l = Len(net'[p])
                                  /\ Held(f, p, l, n1, 0)'
    BY <2>1, <2>3, <2>4, SendHolds
  <2>6. PICK l : /\ p = worker[f] /\ l = Len(net'[p])
                 /\ Held(f, p, l, n1, 0)'
    BY <2>5
  <2>7. Held(f, worker[f], Len(net[worker[f]]), EncodedLen(f), off[f])'
    BY <1>1, <2>1, <2>2, <2>6
  <2> QED BY <1>3, <2>1, <2>7 DEF Tracked
<1>11. CASE EndSecondPass(f)
  <2>1. /\ SendsNext(f) /\ pc[f] = "send2" /\ pc'[f] = "idle"
        /\ off[f] + Mtu > EncodedLen(f)
    BY <1>1, <1>11 DEF EndSecondPass, EndsPass, SendsNext, Sending, Return,
      SenderTypeOK
  <2>2. PICK n, m : n = EncodedLen(f) /\ m = off[f]
    OBVIOUS
  <2>3. Held(f, worker[f], Len(net[worker[f]]), n, m)
    BY <2>1, <2>2 DEF Tracked
  <2>4. \A o \in DataOffsets(f) :
          /\ o < n => o < n \/ o = off[f]
          /\ o < n => o < m \/ (o = off[f] /\ o < n)
    BY <1>2, <2>1, <2>2
  <2>5. \E p \in Ports : \E l : /\ p = worker[f] /\ l = Len(net'[p])
                                /\ Held(f, p, l, n, n)'
    BY <2>1, <2>3, <2>4, SendHolds
  <2>6. \E p \in Ports : \E b : Held(f, p, b, EncodedLen(f), EncodedLen(f))'
    BY <1>1, <2>2, <2>5
  <2> QED BY <2>1, <2>6 DEF Tracked
<1> QED BY <1>5, <1>6, <1>7, <1>8, <1>9, <1>10, <1>11 DEF Post

-----------------------------------------------------------------------------
(* Every step keeps what is held of the FlowFiles that still matter.       *)
LEMMA TrackedSame ==
  ASSUME UNCHANGED <<svars, uuid, job, lostOnce>>, NEW f
  PROVE  Tracked(f)' = Tracked(f)
<1>1. UNCHANGED <<pc, isOpen, worker, off, reply, net, uuid, job, lostOnce>>
  BY DEF svars
<1>2. \A p, o : Seen(p, f, o)' = Seen(p, f, o)
  BY <1>1 DEF Seen
<1>3. \A p, a, b : Stretch(p, a, b, f)' = Stretch(p, a, b, f)
  BY <1>1 DEF Stretch
<1>4. \A p, a, b, o : OneLeft(p, a, b, f, o)' = OneLeft(p, a, b, f, o)
  BY <1>1, <1>2 DEF OneLeft
<1>5. \A p, a, b, o : TwoLeft(p, a, b, f, o)' = TwoLeft(p, a, b, f, o)
  BY <1>1, <1>2 DEF TwoLeft
<1>6. \A p, b, n, m : Held(f, p, b, n, m)' = Held(f, p, b, n, m)
  BY <1>3, <1>4, <1>5 DEF Held
<1> QED BY <1>1, <1>6 DEF Tracked

LEMMA TakingYields ==
  ASSUME UniqueUuids, AllFit, SenderInv, ReceiverKnows, DoneReceived, ~crashed',
         NEW p \in Ports, Taking(p), NEW f \in Posts, Verified(f),
         ~Received(f), ~Received(f)'
  PROVE  Yields(f, p)
<1>1. PICK pkt : pkt = net[p][1] /\ pkt \in Packets /\ Handle(p, pkt)
  BY TakeShifts DEF Taking, Shifts
<1>2. ASSUME pkt.post = f, NEW o \in DataOffsets(f), Seen(p, f, o) \/ pkt = Chunk(f, o)
      PROVE  Seen(p, f, o)'
  BY <1>1, <1>2, HandleSees
<1> QED BY <1>1, <1>2 DEF Yields

LEMMA LosingYields ==
  ASSUME AllFit, SenderInv, NEW p \in Ports, Losing(p), NEW f \in Posts,
         f \notin lostTwice'
  PROVE  Yields(f, p) /\ lostOnce \subseteq lostOnce' /\ lostTwice \subseteq lostTwice'
<1>1. PICK pkt : pkt = net[p][1] /\ pkt = Head(net[p])
  <2>1. net[p] # << >> /\ net[p] \in Seq(Packets)
    BY TakeShifts DEF Losing, Lose, Shifts, SenderInv, SenderTypeOK
  <2> QED BY <2>1
<1>2. /\ UNCHANGED <<uuid, job>>
      /\ IF pkt.len = 0 THEN UNCHANGED <<lostOnce, lostTwice>>
         ELSE /\ lostOnce' = lostOnce \cup {<<pkt.post, pkt.off>>}
              /\ lostTwice' = IF <<pkt.post, pkt.off>> \in lostOnce
                              THEN lostTwice \cup {pkt.post} ELSE lostTwice
  BY <1>1 DEF Losing, Lose, rvars
<1>3. ASSUME NEW o \in DataOffsets(f)
      PROVE  /\ Seen(p, f, o)' = Seen(p, f, o)
             /\ pkt = Chunk(f, o) =>
                  <<f, o>> \notin lostOnce /\ <<f, o>> \in lostOnce'
  <2>1. Seen(p, f, o)' = Seen(p, f, o)
    BY <1>2 DEF Seen, Index, Chunk, EncodedLen, SentHeaderLen, SumAdded
  <2>2. pkt = Chunk(f, o) => pkt.post = f /\ pkt.off = o /\ pkt.len # 0
    BY DataChunks
  <2> QED BY <1>2, <2>1, <2>2
<1> QED BY <1>1, <1>2, <1>3 DEF Yields

LEMMA TrackStep ==
  ASSUME UniqueUuids, AllFit, Overtake = 0, SendMayFail = FALSE, BothInv,
         ReceiverKnows, DoneReceived, Unfinished, OkVerified, AllTracked,
         ReceiverKnows', Next
  PROVE  OkVerified' /\ AllTracked'
<1>1. /\ SenderInv /\ [ReceiverNext]_rvars /\ ~crashed'
  BY SidesStep DEF BothInv, ReceiverKnows, NoNilJob
<1>2. OkVerified'
  <2>1. CASE reply' = reply
    BY <2>1 DEF OkVerified, Verified
  <2>2. ASSUME NEW h \in Posts, Posting(h)
        PROVE  OkVerified'
    BY <1>1, <2>2, OkStep DEF Posting
  <2>3. \A p \in Ports : Taking(p) \/ Losing(p) => reply' = reply
    BY <1>1, TakeShifts DEF Taking, Losing, Lose
  <2>4. \A t \in Threads : Working(t) => reply' = reply
    BY DEF Working, WorkerStep, svars
  <2> QED BY <2>1, <2>2, <2>3, <2>4, LinkSteps
<1>3. ASSUME NEW f \in Posts, Wanted(f)'
      PROVE  Tracked(f)'
  <2>1. Verified(f) /\ f \notin lostTwice' /\ ~Received(f) /\ ~Received(f)'
    <3>1. Verified(f)
      BY <1>3 DEF Wanted, Verified
    <3> QED BY <1>1, <1>3, <3>1, StaysReceived DEF Wanted
  <2>2. lostTwice \subseteq lostTwice' => Tracked(f)
    BY <2>1 DEF AllTracked, Wanted
  <2>3. ASSUME NEW h \in Posts, Posting(h)
        PROVE  Tracked(f)'
    <3>1. /\ Request(h) \/ HangUp(h) \/ Post(h)
          /\ UNCHANGED <<uuid, job, lostOnce>> /\ Tracked(f)
      BY <2>2, <2>3 DEF Posting, rvars, history
    <3> QED BY <1>1, <3>1, PostTracksOwn, PostTracksOthers
  <2>4. ASSUME NEW p \in Ports, Taking(p)
        PROVE  Tracked(f)'
    <3>1. /\ Shifts(p) /\ UNCHANGED <<pc, isOpen, worker, off, reply>>
          /\ UNCHANGED <<lostOnce, lostTwice>> /\ net[p][1] \in Packets
      BY <1>1, <2>4, TakeShifts DEF Taking, history, Shifts
    <3>2. \A q \in Ports \ {p} : uuid'[q] = uuid[q] /\ job'[q] = job[q]
      BY <2>4 DEF Taking, Handle, Ignore, NilJob, Fill, Complete,
        ReceiverKnows, TypeOK
    <3>3. Yields(f, p) /\ Tracked(f)
      BY <1>1, <2>1, <2>2, <2>4, <3>1, TakingYields
    <3> QED BY <1>1, <3>1, <3>2, <3>3, ShiftsTracked
  <2>5. ASSUME NEW p \in Ports, Losing(p)
        PROVE  Tracked(f)'
    <3>1. /\ Shifts(p) /\ UNCHANGED <<pc, isOpen, worker, off, reply>>
          /\ UNCHANGED <<uuid, job>>
      BY <1>1, <2>5, TakeShifts DEF Losing, Lose, rvars
    <3>2. Yields(f, p) /\ lostOnce \subseteq lostOnce' /\ Tracked(f)
      BY <1>1, <2>1, <2>2, <2>5, LosingYields
    <3> QED BY <1>1, <3>1, <3>2, ShiftsTracked
  <2>6. ASSUME NEW t \in Threads, Working(t)
        PROVE  Tracked(f)'
    <3>1. UNCHANGED <<svars, uuid, job, lostOnce, lostTwice>>
      BY <2>6, AttemptDoes DEF Working, WorkerStep, Attempt, Dispatch, Reject,
        Discard, Release
    <3> QED BY <2>2, <3>1, TrackedSame
  <2> QED BY <2>3, <2>4, <2>5, <2>6, LinkSteps
<1> QED BY <1>2, <1>3 DEF AllTracked

-----------------------------------------------------------------------------
(* At rest no FlowFile that was sent twice is still owed.                  *)
LEMMA RestMissesNone ==
  ASSUME UniqueUuids, AllFit, ReceiverKnows, Unfinished, OkVerified, AllTracked
  PROVE  NothingMissed
<1> SUFFICES ASSUME AtRest, NEW f \in Posts, Sure(f)
             PROVE  \E r \in forwarded : r.post = f
  BY DEF NothingMissed
<1>1. /\ \A p \in Ports : net[p] = << >> /\ Len(net[p]) = 0
      /\ DOMAIN workChan = {} /\ \A t \in Threads : active[t] = NoJob
  BY DEF AtRest
<1>2. reply[f] = "ok" /\ isOpen[f] /\ f \notin lostTwice /\ Verified(f)
  BY DEF Sure, OkVerified
<1>3. Received(f) => \E r \in forwarded : r.post = f
  BY <1>1 DEF Received
<1>4. ASSUME ~Received(f)
      PROVE  FALSE
  <2>1. PICK p \in Ports : \E b : Held(f, p, b, EncodedLen(f), EncodedLen(f))
    BY <1>2, <1>4 DEF AllTracked, Wanted, Tracked
  <2>2. PICK b : Held(f, p, b, EncodedLen(f), EncodedLen(f))
    BY <2>1
  <2>3. b = 0
    BY <1>1, <2>2 DEF Held, Stretch
  <2> QED BY <2>2, <2>3, HeldNotEmpty
<1> QED BY <1>3, <1>4

(* The receiver of the link is the receiver on its own. *)
LEMMA LinkReceives ==
  ASSUME Overtake = 0
  PROVE  Spec => ReceiverSpec /\ []BothInv
<1>1. Init => ReceiverInit /\ BothInv
  BY InitHolds, TypeInit DEF Init, BothInv
<1>2. BothInv /\ [Next]_vars => BothInv' /\ [ReceiverNext]_rvars
  <2> SUFFICES ASSUME BothInv, [Next]_vars
               PROVE  BothInv' /\ [ReceiverNext]_rvars
    OBVIOUS
  <2>1. CASE Next
    BY <2>1, SidesStep, TypeStep DEF BothInv
  <2>2. CASE UNCHANGED vars
    <3>1. UNCHANGED <<svars, rvars>>
      BY <2>2 DEF vars
    <3>2. SenderInv' /\ TypeOK'
      BY <3>1 DEF BothInv, svars, rvars, TypeOK, SenderInv, SenderTypeOK,
        HoldersHold, WorkersApart, Idle, SlotsHeld, Sending, OffsetsOnGrid,
        CheckedFirst, Verified
    <3> QED BY <3>1, <3>2 DEF BothInv
  <2> QED BY <2>1, <2>2
<1> QED BY <1>1, <1>2, PTL DEF Spec, ReceiverSpec

(* What all of this rests on, beside the invariants of the two sides.      *)
Tracking == DoneReceived /\ Unfinished /\ OkVerified /\ AllTracked

LEMMA TrackingStep ==
  ASSUME UniqueUuids, AllFit, Overtake = 0, SendMayFail = FALSE, BothInv,
         ReceiverKnows, ReceiverKnows', Tracking, [Next]_vars
  PROVE  Tracking'
<1>1. DoneReceived /\ Unfinished /\ OkVerified /\ AllTracked
  BY DEF Tracking
<1>2. CASE Next
  <2>1. [ReceiverNext]_rvars
    BY <1>2, SidesStep
  <2> QED BY <1>1, <1>2, <2>1, HandlerStep, TrackStep DEF Tracking
<1>3. CASE UNCHANGED vars
  <2>1. UNCHANGED rvars /\ UNCHANGED <<svars, uuid, job, lostOnce>>
        /\ UNCHANGED <<reply, lostTwice, forwarded, workChan, active>>
    BY <1>3 DEF vars, svars, rvars, history
  <2>2. DoneReceived' /\ Unfinished'
    BY <1>1, <2>1, HandlerStep
  <2>3. OkVerified'
    BY <1>1, <2>1 DEF OkVerified, Verified
  <2>4. \A f \in Posts : Wanted(f)' => Wanted(f)
    BY <2>1, StaysReceived DEF Wanted, Verified
  <2> QED BY <1>1, <2>1, <2>2, <2>3, <2>4, TrackedSame DEF AllTracked, Tracking
<1> QED BY <1>2, <1>3

(* Sending everything twice is enough: over links that keep the order of   *)
(* their packets, when nothing is under way any more every FlowFile was    *)
(* sent on whose client stayed until post reported success and of which no *)
(* packet lost both copies, whatever was lost besides and however often it *)
(* was posted (the two passes of post, the scan of handle).  It has to fit *)
(* the window, sending on must not fail, and no uuid may be missing: that  *)
(* ends the receiver.                                                      *)
THEOREM OneCopySuffices ==
  ASSUME UniqueUuids, AllFit, Overtake = 0, SendMayFail = FALSE,
         \A f \in Posts : Uuid[f] # NoUuid
  PROVE  Spec => []NothingMissed
<1>1. ReceiverSpec => []ReceiverKnows
  <2>1. TypeOK /\ JobsRebuild /\ NothingUnbuffered /\ NoNilJob => ReceiverKnows
    BY DEF ReceiverKnows
  <2> QED BY <2>1, TypeCorrect, JobsRebuilt, NothingSpills, NilJobNever, PTL
<1>2. Init => Tracking
  <2> SUFFICES ASSUME Init PROVE Tracking
    OBVIOUS
  <2>1. /\ pc = [f \in Posts |-> "idle"] /\ reply = [f \in Posts |-> "none"]
        /\ job = [p \in Ports |-> NoJob] /\ done = [p \in Ports |-> FALSE]
    BY DEF Init, SenderInit, ReceiverInit
  <2> QED BY <2>1 DEF Tracking, DoneReceived, Unfinished, OkVerified,
        AllTracked, Tracked
<1>3. /\ BothInv /\ ReceiverKnows /\ ReceiverKnows' /\ Tracking /\ [Next]_vars
      => Tracking'
  BY TrackingStep
<1>4. ReceiverKnows /\ Tracking => NothingMissed
  BY RestMissesNone DEF Tracking
<1> QED BY <1>1, <1>2, <1>3, <1>4, LinkReceives, PTL DEF Spec
=============================================================================
