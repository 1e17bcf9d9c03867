---------------------------- MODULE SocketProofs ----------------------------
(***************************************************************************)
(* What holds in SocketTunnel for any number of clients, sessions, packets *)
(* and posts at a time: its types, that no number is skipped whatever      *)
(* races, and that a connection whose posts come one at a time is written  *)
(* in order and never left with a packet that could be written.            *)
(***************************************************************************)
EXTENDS SocketTunnel, SequenceTheorems, TLAPS

(* Packets are those that were sent; sessions are found under their end and*)
(* id, and a post has one of the end and id that its packet is for.        *)
WellFormed ==
  /\ \A p \in DOMAIN pc : p[1] \in DOMAIN ses /\ p[2] <= ses[p[1]].tn
  /\ \A e \in Ends, i \in Ids : socketMap[e][i] # 0 =>
       Ours(socketMap[e][i]) = <<e, i>>
  /\ \A p \in Posts : pc[p] # "dial" =>
       at[p] # 0 /\ Ours(at[p]) = <<To(p), Id(p)>>
  /\ \A p \in Posts : pc[p] = "write" => next[p] = p[2] + 1
  /\ \A p \in Posts : pc[p] = "dial" => To(p) = "DST"

(* Posts for one peer that are there together were seen.                   *)
Noted ==
  \A p, q \in Posts : p # q /\ To(p) = To(q) /\ Id(p) = Id(q) =>
    <<To(p), Id(p)>> \in overlap

(* Number n was written to the connection of s or is about to be. *)
Covered(s, n) ==
  \/ \E i \in DOMAIN ses[s].wrote : ses[s].wrote[i][2] = n
  \/ \E p \in Posts : at[p] = s /\ p[2] = n /\ pc[p] = "write"

UpTo(s, k) == ses[s].open => \A n \in 1 .. k : Covered(s, n)

(* Not only what is counted by rn is covered, but all ahead of a packet    *)
(* that was found to be in turn, however old that finding is.              *)
Coverage ==
  /\ \A s \in DOMAIN ses : UpTo(s, ses[s].rn)
  /\ \A p \in Posts :
       /\ pc[p] = "take" => UpTo(at[p], p[2] - 1)
       /\ pc[p] \in {"write", "lock", "play"} => UpTo(at[p], next[p] - 1)

(* A step leaves session s as it is, but for entering and reading.         *)
SameFor(s) ==
  /\ ses'[s].end = ses[s].end /\ ses'[s].id = ses[s].id
  /\ ses'[s].open = ses[s].open /\ ses'[s].rn = ses[s].rn
  /\ ses'[s].buf = ses[s].buf /\ ses'[s].wrote = ses[s].wrote
  /\ ses'[s].tn = ses[s].tn

LEMMA SessionsTyped ==
  ASSUME SocketTypeOK
  PROVE  /\ DOMAIN ses = 1 .. Len(ses) /\ Len(ses) \in Nat
         /\ \A s \in DOMAIN ses : ses[s] \in Session
  BY DEF SocketTypeOK

LEMMA Changed ==
  ASSUME SocketTypeOK, NEW s \in DOMAIN ses, NEW r \in Session,
         ses' = [ses EXCEPT ![s] = r]
  PROVE  /\ ses' \in Seq(Session) /\ Len(ses') = Len(ses)
         /\ DOMAIN ses' = DOMAIN ses
         /\ ses'[s] = r /\ \A t \in DOMAIN ses \ {s} : ses'[t] = ses[t]
  BY ExceptSeq, SessionsTyped DEF SocketTypeOK

LEMMA Grown ==
  ASSUME SocketTypeOK, NEW e \in Ends, NEW i \in Ids, ses' = NewSession(e, i)
  PROVE  /\ ses' \in Seq(Session) /\ Len(ses') = Len(ses) + 1
         /\ DOMAIN ses' = DOMAIN ses \cup {Len(ses) + 1}
         /\ \A t \in DOMAIN ses : ses'[t] = ses[t]
         /\ ses'[Len(ses) + 1].rn = 0 /\ ses'[Len(ses) + 1].wrote = << >>
         /\ ses'[Len(ses) + 1].buf = {} /\ ses'[Len(ses) + 1].tn = 0
         /\ ses'[Len(ses) + 1].end = e /\ ses'[Len(ses) + 1].id = i
         /\ ses'[Len(ses) + 1].entering /\ ses'[Len(ses) + 1].open
  <1> DEFINE r == [end |-> e, id |-> i, entering |-> TRUE, reading |-> TRUE,
               open |-> TRUE, tn |-> 0, rn |-> 0, buf |-> {}, wrote |-> << >>]
  <1>1. r \in Session
    BY DEF Session
  <1>2. ses' = Append(ses, r)
    BY DEF NewSession
  <1> HIDE DEF r
  <1>3. /\ ses' \in Seq(Session) /\ Len(ses') = Len(ses) + 1
        /\ \A t \in DOMAIN ses : ses'[t] = ses[t]
        /\ ses'[Len(ses) + 1] = r
    BY <1>1, <1>2, AppendProperties, SessionsTyped DEF SocketTypeOK
  <1>4. DOMAIN ses' = DOMAIN ses \cup {Len(ses) + 1}
    BY <1>3, SessionsTyped
  <1> QED
    BY <1>3, <1>4 DEF r

LEMMA PacketTyped ==
  ASSUME SocketTypeOK, NEW p \in DOMAIN pc
  PROVE  /\ p \in Packets /\ p[1] \in Nat \ {0} /\ p[2] \in Nat \ {0}
         /\ p = <<p[1], p[2]>>
         /\ at[p] \in 0 .. Len(ses) /\ next[p] \in Nat
  BY SocketAssumption DEF SocketTypeOK, Packets, Sessions

LEMMA WrittenTyped ==
  ASSUME SocketTypeOK, NEW s \in DOMAIN ses, NEW p \in Packets
  PROVE  Written(s, p) \in Session
  <1>1. ses[s] \in Session
    BY SessionsTyped
  <1>2. ses[s].wrote \in Seq(Packets)
    BY <1>1 DEF Session
  <1>3. Append(ses[s].wrote, p) \in Seq(Packets)
    BY <1>2, AppendProperties
  <1>4. (ses[s].open /\ ~Eof(p)) \in BOOLEAN
    OBVIOUS
  <1> QED
    BY <1>1, <1>2, <1>3, <1>4 DEF Session, Written

-----------------------------------------------------------------------------
(* What each action does to packets, posts and sessions. *)
Calm == ses' = ses /\ at' = at /\ next' = next /\ DOMAIN pc' = DOMAIN pc

LEMMA AcceptDoes ==
  ASSUME SocketTypeOK, NEW i \in Ids, Accept(i)
  PROVE  /\ SocketTypeOK'
         /\ ses' = NewSession("SRC", i)
         /\ pc' = pc /\ at' = at /\ next' = next
         /\ socketMap' = socketMap /\ overlap' = overlap
         /\ \A s \in DOMAIN ses : ses[s].end = "SRC" => ses[s].id # i
  <1>1. "SRC" \in Ends
    BY DEF Ends
  <1>2. ses' = NewSession("SRC", i) /\ Len(ses) < MaxSessions
    BY DEF Accept
  <1>3. /\ ses' \in Seq(Session) /\ Len(ses') = Len(ses) + 1
    BY <1>1, <1>2, Grown
  <1>4. 0 .. Len(ses) \subseteq 0 .. Len(ses')
    BY <1>3, SessionsTyped
  <1>5. Len(ses') <= MaxSessions
    BY <1>2, <1>3, SessionsTyped, SocketAssumption
  <1>6. socketMap \in [Ends -> [Ids -> 0 .. Len(ses')]] /\ at \in [DOMAIN pc -> 0 .. Len(ses')]
    BY <1>4 DEF SocketTypeOK
  <1> QED
    BY <1>2, <1>3, <1>5, <1>6 DEF Accept, SocketTypeOK

LEMMA EnterDoes ==
  ASSUME SocketTypeOK, NEW s \in DOMAIN ses, Enter(s)
  PROVE  /\ SocketTypeOK'
         /\ DOMAIN ses' = DOMAIN ses /\ \A t \in DOMAIN ses : SameFor(t)
         /\ \A t \in DOMAIN ses :
              /\ ses'[t].reading = ses[t].reading
              /\ ses'[t].entering = (ses[t].entering /\ t # s)
         /\ ses[s].entering
         /\ pc' = pc /\ at' = at /\ next' = next /\ overlap' = overlap
         /\ socketMap' = [socketMap EXCEPT ![ses[s].end][ses[s].id] = s]
  <1> DEFINE r == [ses[s] EXCEPT !.entering = FALSE]
  <1>1. r \in Session
    BY SessionsTyped DEF Session
  <1>2. ses' = [ses EXCEPT ![s] = r]
    BY DEF Enter
  <1>3. /\ ses' \in Seq(Session) /\ Len(ses') = Len(ses) /\ DOMAIN ses' = DOMAIN ses
        /\ ses'[s] = r /\ \A t \in DOMAIN ses \ {s} : ses'[t] = ses[t]
    BY <1>1, <1>2, Changed
  <1>4. \A t \in DOMAIN ses : SameFor(t)
    <2>1. SameFor(s)
      BY <1>3, SessionsTyped DEF SameFor, Session
    <2>2. \A t \in DOMAIN ses \ {s} : SameFor(t)
      BY <1>3 DEF SameFor
    <2> QED
      BY <2>1, <2>2
  <1>5. socketMap' \in [Ends -> [Ids -> 0 .. Len(ses')]]
    <2>1. s \in 0 .. Len(ses)
      BY SessionsTyped
    <2> QED
      BY <1>3, <2>1 DEF Enter, SocketTypeOK
  <1>6. \A t \in DOMAIN ses :
          /\ ses'[t].reading = ses[t].reading
          /\ ses'[t].entering = (ses[t].entering /\ t # s)
    <2>1. ses'[s].reading = ses[s].reading /\ ses'[s].entering = FALSE
      BY <1>3, SessionsTyped DEF Session
    <2>2. \A t \in DOMAIN ses \ {s} : ses'[t] = ses[t] /\ ses[t].entering \in BOOLEAN
      BY <1>3, SessionsTyped DEF Session
    <2> QED
      BY <2>1, <2>2
  <1> QED
    BY <1>3, <1>4, <1>5, <1>6 DEF Enter, SocketTypeOK

LEMMA ReadDoes ==
  ASSUME SocketTypeOK, NEW s \in DOMAIN ses, Read(s)
  PROVE  LET p == <<s, ses[s].tn + 1>> IN
         /\ SocketTypeOK'
         /\ DOMAIN ses' = DOMAIN ses
         /\ \A t \in DOMAIN ses : 
              /\ ses'[t].end = ses[t].end /\ ses'[t].id = ses[t].id
              /\ ses'[t].open = ses[t].open /\ ses'[t].rn = ses[t].rn
              /\ ses'[t].buf = ses[t].buf /\ ses'[t].wrote = ses[t].wrote
              /\ ses'[t].tn = IF t = s THEN ses[s].tn + 1 ELSE ses[t].tn
         /\ DOMAIN pc' = DOMAIN pc \cup {p} /\ pc'[p] = "net"
         /\ \A q \in DOMAIN pc \ {p} :
              pc'[q] = pc[q] /\ at'[q] = at[q] /\ next'[q] = next[q]
         /\ overlap' = overlap
         /\ \A e \in Ends, i \in Ids : socketMap'[e][i] \in {0, socketMap[e][i]}
  <1> DEFINE n == ses[s].tn + 1
             p == <<s, n>>
             r == [ses[s] EXCEPT !.tn = n]
             z == [ses[s] EXCEPT !.tn = n, !.reading = FALSE]
  <1>1. ses[s] \in Session /\ ses[s].tn \in Nat /\ n \in Nat \ {0}
    BY SessionsTyped DEF Session
  <1>2. r \in Session /\ z \in Session
    BY <1>1 DEF Session
  <1>3. ses' = [ses EXCEPT ![s] = r] \/ ses' = [ses EXCEPT ![s] = z]
    BY DEF Read
  <1>4. /\ ses' \in Seq(Session) /\ Len(ses') = Len(ses) /\ DOMAIN ses' = DOMAIN ses
        /\ ses'[s] \in {r, z} /\ \A t \in DOMAIN ses \ {s} : ses'[t] = ses[t]
    <2>1. CASE ses' = [ses EXCEPT ![s] = r]
      BY <1>2, <2>1, Changed
    <2>2. CASE ses' = [ses EXCEPT ![s] = z]
      BY <1>2, <2>2, Changed
    <2> QED
      BY <1>3, <2>1, <2>2
  <1>5. \A t \in DOMAIN ses : 
              /\ ses'[t].end = ses[t].end /\ ses'[t].id = ses[t].id
              /\ ses'[t].open = ses[t].open /\ ses'[t].rn = ses[t].rn
              /\ ses'[t].buf = ses[t].buf /\ ses'[t].wrote = ses[t].wrote
              /\ ses'[t].tn = IF t = s THEN ses[s].tn + 1 ELSE ses[t].tn
    <2> SUFFICES ASSUME NEW t \in DOMAIN ses
                 PROVE  /\ ses'[t].end = ses[t].end /\ ses'[t].id = ses[t].id
                        /\ ses'[t].open = ses[t].open /\ ses'[t].rn = ses[t].rn
                        /\ ses'[t].buf = ses[t].buf /\ ses'[t].wrote = ses[t].wrote
                        /\ ses'[t].tn = IF t = s THEN ses[s].tn + 1 ELSE ses[t].tn
      OBVIOUS
    <2>1. CASE t = s
      BY <1>4, <2>1, SessionsTyped DEF Session
    <2>2. CASE t # s
      BY <1>4, <2>2
    <2> QED
      BY <2>1, <2>2
  <1>6. p \in Packets
    BY <1>1, SessionsTyped, SocketAssumption DEF Packets, Sessions, SocketTypeOK
  <1>7. /\ pc' = [q \in DOMAIN pc \cup {p} |-> IF q = p THEN "net" ELSE pc[q]]
        /\ at' = [q \in DOMAIN pc \cup {p} |-> IF q = p THEN 0 ELSE at[q]]
        /\ next' = [q \in DOMAIN pc \cup {p} |-> IF q = p THEN 0 ELSE next[q]]
        /\ overlap' = overlap
    BY DEF Read
  <1>8. \/ socketMap' = socketMap
        \/ socketMap' = [socketMap EXCEPT ![ses[s].end][ses[s].id] = 0]
    BY DEF Read
  <1>9. /\ socketMap' \in [Ends -> [Ids -> 0 .. Len(ses')]]
        /\ \A e \in Ends, i \in Ids : socketMap'[e][i] \in {0, socketMap[e][i]}
    <2>1. 0 \in 0 .. Len(ses) /\ ses[s].end \in Ends /\ ses[s].id \in Ids
      BY SessionsTyped DEF Session
    <2>2. socketMap \in [Ends -> [Ids -> 0 .. Len(ses')]]
      BY <1>4 DEF SocketTypeOK
    <2>3. CASE socketMap' = socketMap
      BY <2>2, <2>3
    <2>4. CASE socketMap' = [socketMap EXCEPT ![ses[s].end][ses[s].id] = 0]
      <3>1. 0 \in 0 .. Len(ses')
        BY <1>4, <2>1
      <3> HIDE DEF r, z, p, n
      <3> QED
        BY <2>1, <2>2, <2>4, <3>1
    <2> QED
      BY <1>8, <2>3, <2>4
  <1> HIDE DEF p, r, z
  <1>10. /\ DOMAIN pc' \subseteq Packets
         /\ pc' \in [DOMAIN pc' -> {"net"} \cup Busy \cup Gone]
         /\ at' \in [DOMAIN pc' -> 0 .. Len(ses')]
         /\ next' \in [DOMAIN pc' -> Nat]
    BY <1>4, <1>6, <1>7, SessionsTyped DEF SocketTypeOK
  <1>11. SocketTypeOK'
    BY <1>4, <1>7, <1>9, <1>10 DEF SocketTypeOK
  <1>12. /\ DOMAIN pc' = DOMAIN pc \cup {p} /\ pc'[p] = "net"
         /\ \A q \in DOMAIN pc \ {p} :
              pc'[q] = pc[q] /\ at'[q] = at[q] /\ next'[q] = next[q]
    BY <1>7
  <1> QED
    BY <1>4, <1>5, <1>7, <1>9, <1>11, <1>12 DEF p

(* A round that ends the loop takes what the map has for its peer with it. *)
LEMMA ReadEnds ==
  ASSUME SocketTypeOK, NEW s \in DOMAIN ses, Read(s)
  PROVE  /\ ses[s].reading
         /\ \A t \in DOMAIN ses :
              ses'[t].entering = ses[t].entering
              /\ (t # s => ses'[t].reading = ses[t].reading)
         /\ \/ socketMap' = socketMap
            \/ /\ ~ses'[s].reading
               /\ socketMap' = [socketMap EXCEPT ![ses[s].end][ses[s].id] = 0]
  <1> DEFINE n == ses[s].tn + 1
             r == [ses[s] EXCEPT !.tn = n]
             z == [ses[s] EXCEPT !.tn = n, !.reading = FALSE]
  <1>1. ses[s] \in Session /\ n \in Nat
    BY SessionsTyped DEF Session
  <1>2. /\ r \in Session /\ r.entering = ses[s].entering
        /\ z \in Session /\ z.entering = ses[s].entering /\ ~z.reading
    BY <1>1 DEF Session
  <1>3. \/ ses' = [ses EXCEPT ![s] = r] /\ socketMap' = socketMap
        \/ /\ ses' = [ses EXCEPT ![s] = z]
           /\ socketMap' = [socketMap EXCEPT ![ses[s].end][ses[s].id] = 0]
    BY DEF Read
  <1>4. ses[s].reading
    BY DEF Read
  <1> HIDE DEF r, z
  <1>5. CASE ses' = [ses EXCEPT ![s] = r] /\ socketMap' = socketMap
    <2>1. ses'[s] = r /\ \A t \in DOMAIN ses \ {s} : ses'[t] = ses[t]
      BY <1>2, <1>5, Changed
    <2> QED
      BY <1>2, <1>4, <1>5, <2>1
  <1>6. CASE /\ ses' = [ses EXCEPT ![s] = z]
             /\ socketMap' = [socketMap EXCEPT ![ses[s].end][ses[s].id] = 0]
    <2>1. ses'[s] = z /\ \A t \in DOMAIN ses \ {s} : ses'[t] = ses[t]
      BY <1>2, <1>6, Changed
    <2> QED
      BY <1>2, <1>4, <1>6, <2>1
  <1> QED
    BY <1>3, <1>5, <1>6

(* A step of a post that only moves it on. *)
LEMMA MoveTyped ==
  ASSUME SocketTypeOK, NEW p \in DOMAIN pc, NEW l \in {"net"} \cup Busy \cup Gone,
         pc' = [pc EXCEPT ![p] = l]
  PROVE  /\ DOMAIN pc' = DOMAIN pc /\ DOMAIN pc' \subseteq Packets
         /\ pc' \in [DOMAIN pc' -> {"net"} \cup Busy \cup Gone]
         /\ pc'[p] = l /\ \A q \in DOMAIN pc \ {p} : pc'[q] = pc[q]
  BY DEF SocketTypeOK

(* What a post does to the state of others: nothing. *)
Alone(p) ==
  /\ DOMAIN pc' = DOMAIN pc
  /\ \A q \in DOMAIN pc \ {p} :
       pc'[q] = pc[q] /\ at'[q] = at[q] /\ next'[q] = next[q]

LEMMA LookupDoes ==
  ASSUME SocketTypeOK, WellFormed, NEW p \in DOMAIN pc, Lookup(p)
  PROVE  /\ SocketTypeOK' /\ Alone(p)
         /\ ses' = ses /\ socketMap' = socketMap /\ pc[p] = "net"
         /\ overlap' = IF SamePeer(p) = {} THEN overlap ELSE overlap \cup {<<To(p), Id(p)>>}
         /\ pc'[p] \in {"compare", "dial", "refused"}
         /\ pc'[p] = "compare" => at'[p] = socketMap[To(p)][Id(p)] /\ at'[p] # 0
         /\ pc'[p] = "dial" => To(p) = "DST" /\ socketMap["DST"][Id(p)] = 0
         /\ To(p) \in Ends /\ Id(p) \in Ids
  <1>1. ses[p[1]] \in Session
    BY SessionsTyped DEF WellFormed
  <1>2. To(p) \in Ends /\ Id(p) \in Ids
    BY <1>1 DEF To, Id, Other, Ends, Session
  <1>3. socketMap[To(p)][Id(p)] \in 0 .. Len(ses)
    BY <1>2 DEF SocketTypeOK
  <1> DEFINE l == IF socketMap[To(p)][Id(p)] # 0 THEN "compare"
                  ELSE IF To(p) = "DST" THEN "dial" ELSE "refused"
  <1>4. /\ pc[p] = "net"
        /\ at' = [at EXCEPT ![p] = socketMap[To(p)][Id(p)]]
        /\ pc' = [pc EXCEPT ![p] = l]
        /\ overlap' = IF SamePeer(p) = {} THEN overlap ELSE overlap \cup {<<To(p), Id(p)>>}
        /\ ses' = ses /\ socketMap' = socketMap /\ next' = next
    BY DEF Lookup, Goto
  <1>5. l \in Busy \cup Gone
    BY DEF Busy, Gone
  <1>6. /\ DOMAIN pc' = DOMAIN pc /\ DOMAIN pc' \subseteq Packets
        /\ pc' \in [DOMAIN pc' -> {"net"} \cup Busy \cup Gone]
        /\ pc'[p] = l /\ \A q \in DOMAIN pc \ {p} : pc'[q] = pc[q]
    BY <1>4, <1>5, MoveTyped
  <1>7. at' \in [DOMAIN pc' -> 0 .. Len(ses')] /\ overlap' \subseteq Ends \X Ids
    BY <1>2, <1>3, <1>4, <1>6 DEF SocketTypeOK
  <1>8. SocketTypeOK'
    BY <1>4, <1>6, <1>7 DEF SocketTypeOK
  <1>9. Alone(p) /\ at'[p] = socketMap[To(p)][Id(p)]
    BY <1>4, <1>6 DEF SocketTypeOK, Alone
  <1> QED
    BY <1>2, <1>4, <1>6, <1>8, <1>9

LEMMA DialDoes ==
  ASSUME SocketTypeOK, WellFormed, NEW p \in DOMAIN pc, Dial(p)
  PROVE  /\ SocketTypeOK' /\ Alone(p)
         /\ socketMap' = socketMap /\ overlap' = overlap /\ pc[p] = "dial"
         /\ \/ /\ ses' = NewSession("DST", Id(p)) /\ Id(p) \in Ids
               /\ at'[p] = Len(ses) + 1 /\ pc'[p] = "compare"
            \/ ses' = ses /\ pc'[p] = "refused" /\ at' = at
  <1>1. ses[p[1]] \in Session
    BY SessionsTyped DEF WellFormed
  <1>2. Id(p) \in Ids /\ "DST" \in Ends
    BY <1>1 DEF Id, Ends, Session
  <1>3. pc[p] = "dial" /\ UNCHANGED <<socketMap, next, overlap>>
    BY DEF Dial
  <1>4. CASE /\ Len(ses) < MaxSessions
             /\ ses' = NewSession("DST", Id(p))
             /\ at' = [at EXCEPT ![p] = Len(ses')]
             /\ Goto(p, "compare")
    <2>1. /\ DOMAIN pc' = DOMAIN pc /\ DOMAIN pc' \subseteq Packets
          /\ pc' \in [DOMAIN pc' -> {"net"} \cup Busy \cup Gone]
          /\ pc'[p] = "compare" /\ \A q \in DOMAIN pc \ {p} : pc'[q] = pc[q]
      <3>1. "compare" \in Busy /\ pc' = [pc EXCEPT ![p] = "compare"]
        BY <1>4 DEF Busy, Goto
      <3> QED
        BY <3>1, MoveTyped
    <2>2. ses' \in Seq(Session) /\ Len(ses') = Len(ses) + 1
      BY <1>2, <1>4, Grown
    <2>3. Len(ses') \in Nat /\ 0 .. Len(ses) \subseteq 0 .. Len(ses') /\ Len(ses') <= MaxSessions
      BY <1>4, <2>2, SessionsTyped, SocketAssumption
    <2>4. at' \in [DOMAIN pc' -> 0 .. Len(ses')] /\ at'[p] = Len(ses) + 1
      BY <1>4, <2>1, <2>2, <2>3 DEF SocketTypeOK
    <2>5. socketMap' \in [Ends -> [Ids -> 0 .. Len(ses')]]
      BY <1>3, <2>3 DEF SocketTypeOK
    <2>6. SocketTypeOK'
      BY <1>3, <2>1, <2>2, <2>3, <2>4, <2>5 DEF SocketTypeOK
    <2>7. Alone(p)
      BY <1>3, <1>4, <2>1 DEF Alone, SocketTypeOK
    <2> QED
      BY <1>2, <1>3, <1>4, <2>1, <2>4, <2>6, <2>7
  <1>5. CASE Goto(p, "refused") /\ UNCHANGED <<ses, at>>
    <2>1. "refused" \in Gone /\ pc' = [pc EXCEPT ![p] = "refused"]
      BY <1>5 DEF Gone, Goto
    <2>2. /\ DOMAIN pc' = DOMAIN pc /\ DOMAIN pc' \subseteq Packets
          /\ pc' \in [DOMAIN pc' -> {"net"} \cup Busy \cup Gone]
          /\ pc'[p] = "refused" /\ \A q \in DOMAIN pc \ {p} : pc'[q] = pc[q]
      BY <2>1, MoveTyped
    <2>3. SocketTypeOK'
      BY <1>3, <1>5, <2>2 DEF SocketTypeOK
    <2> QED
      BY <1>3, <1>5, <2>2, <2>3 DEF Alone
  <1> QED
    BY <1>4, <1>5 DEF Dial

(* The other steps of a post, which may change its session and its next. *)
LEMMA StepTyped ==
  ASSUME SocketTypeOK, NEW p \in DOMAIN pc, NEW l \in {"net"} \cup Busy \cup Gone,
         Goto(p, l), NEW r \in Session, NEW s \in DOMAIN ses,
         ses' = [ses EXCEPT ![s] = r] \/ ses' = ses,
         NEW n \in Nat, next' = [next EXCEPT ![p] = n] \/ next' = next,
         at' = at, overlap' = overlap,
         socketMap' = socketMap \/ \E e, i : socketMap' = [socketMap EXCEPT ![e][i] = 0]
  PROVE  /\ SocketTypeOK' /\ Alone(p) /\ pc'[p] = l
         /\ DOMAIN ses' = DOMAIN ses
         /\ \A t \in DOMAIN ses \ {s} : ses'[t] = ses[t]
         /\ \A e \in Ends, i \in Ids : socketMap'[e][i] \in {0, socketMap[e][i]}
  <1>1. /\ DOMAIN pc' = DOMAIN pc /\ DOMAIN pc' \subseteq Packets
        /\ pc' \in [DOMAIN pc' -> {"net"} \cup Busy \cup Gone]
        /\ pc'[p] = l /\ \A q \in DOMAIN pc \ {p} : pc'[q] = pc[q]
    BY MoveTyped DEF Goto
  <1>2. /\ ses' \in Seq(Session) /\ Len(ses') = Len(ses)
        /\ DOMAIN ses' = DOMAIN ses
        /\ \A t \in DOMAIN ses \ {s} : ses'[t] = ses[t]
    <2>1. CASE ses' = [ses EXCEPT ![s] = r]
      BY <2>1, Changed
    <2>2. CASE ses' = ses
      BY <2>2 DEF SocketTypeOK
    <2> QED
      BY <2>1, <2>2
  <1>3. /\ next' \in [DOMAIN pc' -> Nat]
        /\ \A q \in DOMAIN pc \ {p} : next'[q] = next[q]
    BY <1>1 DEF SocketTypeOK
  <1>4. /\ socketMap' \in [Ends -> [Ids -> 0 .. Len(ses')]]
        /\ \A e \in Ends, i \in Ids : socketMap'[e][i] \in {0, socketMap[e][i]}
    <2>1. socketMap \in [Ends -> [Ids -> 0 .. Len(ses')]] /\ 0 \in 0 .. Len(ses')
      BY <1>2, SessionsTyped DEF SocketTypeOK
    <2>2. CASE socketMap' = socketMap
      BY <2>1, <2>2
    <2>3. CASE \E e, i : socketMap' = [socketMap EXCEPT ![e][i] = 0]
      <3>1. PICK e, i : socketMap' = [socketMap EXCEPT ![e][i] = 0]
        BY <2>3
      <3> QED
        BY <2>1, <3>1
    <2> QED
      BY <2>2, <2>3
  <1>5. SocketTypeOK'
    BY <1>1, <1>2, <1>3, <1>4 DEF SocketTypeOK
  <1>6. Alone(p)
    BY <1>1, <1>3 DEF Alone
  <1> QED
    BY <1>1, <1>2, <1>4, <1>5, <1>6

(* What those steps have in common. *)
Touches(p) ==
  /\ SocketTypeOK' /\ Alone(p)
  /\ at' = at /\ overlap' = overlap
  /\ at[p] \in DOMAIN ses /\ DOMAIN ses' = DOMAIN ses
  /\ \A t \in DOMAIN ses \ {at[p]} : ses'[t] = ses[t]
  /\ \A t \in DOMAIN ses :
       /\ ses'[t].end = ses[t].end /\ ses'[t].id = ses[t].id
       /\ ses'[t].tn = ses[t].tn
       /\ ses'[t].reading = ses[t].reading
       /\ ses'[t].entering = ses[t].entering
  /\ \A e \in Ends, i \in Ids : socketMap'[e][i] \in {0, socketMap[e][i]}

LEMMA PostHasSession ==
  ASSUME SocketTypeOK, WellFormed, NEW p \in DOMAIN pc, pc[p] \in Busy, pc[p] # "dial"
  PROVE  /\ p \in Posts /\ at[p] \in DOMAIN ses /\ ses[at[p]] \in Session
         /\ ses[at[p]].rn \in Nat /\ ses[at[p]].wrote \in Seq(Packets)
         /\ ses[at[p]].buf \subseteq Packets
  <1>1. p \in Posts
    BY DEF Posts
  <1>2. at[p] # 0 /\ at[p] \in 0 .. Len(ses)
    BY <1>1 DEF WellFormed, SocketTypeOK
  <1>3. at[p] \in DOMAIN ses
    BY <1>2, SessionsTyped
  <1>4. ses[at[p]] \in Session
    BY <1>3, SessionsTyped
  <1> QED
    BY <1>1, <1>3, <1>4 DEF Session

LEMMA CompareDoes ==
  ASSUME SocketTypeOK, WellFormed, NEW p \in DOMAIN pc, Compare(p)
  PROVE  /\ Touches(p) /\ pc[p] = "compare" /\ ses' = ses /\ next' = next
         /\ socketMap' = socketMap /\ ~ses[at[p]].entering
         /\ \/ pc'[p] = "take" /\ p[2] = ses[at[p]].rn + 1
            \/ pc'[p] = "hold" /\ p[2] # ses[at[p]].rn + 1
  <1>1. pc[p] = "compare" /\ UNCHANGED <<ses, socketMap, at, next, overlap>>
    BY DEF Compare
  <1>2. pc[p] \in Busy
    BY <1>1 DEF Busy
  <1>3. at[p] \in DOMAIN ses /\ ses[at[p]] \in Session
    BY <1>1, <1>2, PostHasSession
  <1> DEFINE l == IF ses[at[p]].rn + 1 = p[2] THEN "take" ELSE "hold"
  <1>4. Goto(p, l) /\ l \in {"net"} \cup Busy \cup Gone
    BY DEF Compare, Busy
  <1> HIDE DEF l
  <1>5. SocketTypeOK' /\ Alone(p) /\ pc'[p] = l
    BY <1>1, <1>3, <1>4, StepTyped, 0 \in Nat
  <1> QED
    BY <1>1, <1>3, <1>5 DEF Touches, Compare, l

LEMMA HoldDoes ==
  ASSUME SocketTypeOK, WellFormed, NEW p \in DOMAIN pc, Hold(p)
  PROVE  /\ Touches(p) /\ pc[p] = "hold" /\ pc'[p] = "done" /\ next' = next
         /\ socketMap' = socketMap
         /\ ses'[at[p]].open = ses[at[p]].open /\ ses'[at[p]].rn = ses[at[p]].rn
         /\ ses'[at[p]].wrote = ses[at[p]].wrote
         /\ ses'[at[p]].buf \subseteq ses[at[p]].buf \cup {p}
  <1>1. pc[p] = "hold" /\ UNCHANGED <<socketMap, at, next, overlap>> /\ Goto(p, "done")
    BY DEF Hold
  <1>2. pc[p] \in Busy /\ "done" \in {"net"} \cup Busy \cup Gone
    BY <1>1 DEF Busy, Gone
  <1>3. at[p] \in DOMAIN ses /\ ses[at[p]] \in Session
    BY <1>1, <1>2, PostHasSession
  <1> DEFINE r == [ses[at[p]] EXCEPT !.buf = {q \in @ : q[2] # p[2]} \cup {p}]
  <1>4. ses' = [ses EXCEPT ![at[p]] = r]
    BY DEF Hold
  <1>5. r \in Session
    BY <1>3, PacketTyped DEF Session
  <1>6. ses'[at[p]] = r
    BY <1>3, <1>4, <1>5, Changed
  <1>7. /\ r.open = ses[at[p]].open /\ r.rn = ses[at[p]].rn /\ r.wrote = ses[at[p]].wrote
        /\ r.end = ses[at[p]].end /\ r.id = ses[at[p]].id /\ r.tn = ses[at[p]].tn
        /\ r.reading = ses[at[p]].reading /\ r.entering = ses[at[p]].entering
        /\ r.buf \subseteq ses[at[p]].buf \cup {p}
    BY <1>3 DEF Session
  <1> HIDE DEF r
  <1>8. /\ SocketTypeOK' /\ Alone(p) /\ pc'[p] = "done" /\ DOMAIN ses' = DOMAIN ses
        /\ \A t \in DOMAIN ses \ {at[p]} : ses'[t] = ses[t]
    BY <1>1, <1>2, <1>3, <1>4, <1>5, StepTyped, 0 \in Nat
  <1> QED
    BY <1>1, <1>3, <1>6, <1>7, <1>8 DEF Touches

LEMMA TakeDoes ==
  ASSUME SocketTypeOK, WellFormed, NEW p \in DOMAIN pc, Take(p)
  PROVE  /\ Touches(p) /\ pc[p] = "take" /\ pc'[p] = "write" /\ next'[p] = p[2] + 1
         /\ socketMap' = socketMap
         /\ ses'[at[p]].open = ses[at[p]].open /\ ses'[at[p]].rn = p[2]
         /\ ses'[at[p]].wrote = ses[at[p]].wrote /\ ses'[at[p]].buf = ses[at[p]].buf
  <1>1. pc[p] = "take" /\ UNCHANGED <<socketMap, at, overlap>> /\ Goto(p, "write")
    BY DEF Take
  <1>2. pc[p] \in Busy /\ "write" \in {"net"} \cup Busy \cup Gone
    BY <1>1 DEF Busy, Gone
  <1>3. at[p] \in DOMAIN ses /\ ses[at[p]] \in Session /\ p[2] \in Nat /\ p[2] + 1 \in Nat
    BY <1>1, <1>2, PostHasSession, PacketTyped
  <1> DEFINE r == [ses[at[p]] EXCEPT !.rn = p[2]]
  <1>4. ses' = [ses EXCEPT ![at[p]] = r] /\ next' = [next EXCEPT ![p] = p[2] + 1]
    BY DEF Take
  <1>5. r \in Session
    BY <1>3 DEF Session
  <1>6. ses'[at[p]] = r
    BY <1>3, <1>4, <1>5, Changed
  <1>7. /\ r.open = ses[at[p]].open /\ r.rn = p[2] /\ r.wrote = ses[at[p]].wrote
        /\ r.end = ses[at[p]].end /\ r.id = ses[at[p]].id /\ r.tn = ses[at[p]].tn
        /\ r.reading = ses[at[p]].reading /\ r.entering = ses[at[p]].entering
        /\ r.buf = ses[at[p]].buf
    BY <1>3 DEF Session
  <1> HIDE DEF r
  <1>8. /\ SocketTypeOK' /\ Alone(p) /\ pc'[p] = "write" /\ DOMAIN ses' = DOMAIN ses
        /\ \A t \in DOMAIN ses \ {at[p]} : ses'[t] = ses[t]
        /\ \A e \in Ends, i \in Ids : socketMap'[e][i] \in {0, socketMap[e][i]}
    <2>1. PICK n \in Nat : n = p[2] + 1
      BY <1>3
    <2>2. PICK s \in DOMAIN ses : s = at[p]
      BY <1>3
    <2>3. PICK d \in Session : d = r
      BY <1>5
    <2>4. /\ ses' = [ses EXCEPT ![s] = d] /\ next' = [next EXCEPT ![p] = n]
      BY <1>4, <2>1, <2>2, <2>3
    <2>5. /\ SocketTypeOK' /\ Alone(p) /\ pc'[p] = "write" /\ DOMAIN ses' = DOMAIN ses
          /\ \A t \in DOMAIN ses \ {s} : ses'[t] = ses[t]
          /\ \A e \in Ends, i \in Ids : socketMap'[e][i] \in {0, socketMap[e][i]}
      BY <1>1, <1>2, <2>4, StepTyped
    <2> QED
      BY <2>2, <2>5
  <1>9. next'[p] = p[2] + 1
    BY <1>4 DEF SocketTypeOK
  <1> QED
    BY <1>1, <1>3, <1>6, <1>7, <1>8, <1>9 DEF Touches

(* Writing: what is open gets the packet, and stays open but for an EOF.   *)
LEMMA WrittenIs ==
  ASSUME SocketTypeOK, NEW s \in DOMAIN ses, NEW p \in Packets
  PROVE  LET r == Written(s, p) IN
         /\ r.end = ses[s].end /\ r.id = ses[s].id /\ r.tn = ses[s].tn
         /\ r.rn = ses[s].rn /\ r.buf = ses[s].buf
         /\ r.reading = ses[s].reading /\ r.entering = ses[s].entering
         /\ r.open = (ses[s].open /\ ~Eof(p))
         /\ r.wrote = IF ses[s].open THEN Append(ses[s].wrote, p) ELSE ses[s].wrote
  <1>1. ses[s] \in Session
    BY SessionsTyped
  <1> QED
    BY <1>1 DEF Session, Written

LEMMA WriteDoes ==
  ASSUME SocketTypeOK, WellFormed, NEW p \in DOMAIN pc, Write(p)
  PROVE  /\ Touches(p) /\ pc[p] = "write" /\ pc'[p] \in {"done", "lock"} /\ next' = next
         /\ socketMap' = socketMap
         /\ ses'[at[p]].open => ses[at[p]].open /\ pc'[p] = "lock"
         /\ ses'[at[p]].open = (ses[at[p]].open /\ ~Eof(p))
         /\ ses'[at[p]].rn = ses[at[p]].rn /\ ses'[at[p]].buf = ses[at[p]].buf
         /\ ses'[at[p]].wrote =
              IF ses[at[p]].open THEN Append(ses[at[p]].wrote, p) ELSE ses[at[p]].wrote
  <1> DEFINE l == IF Eof(p) THEN "done" ELSE "lock"
             r == Written(at[p], p)
  <1>1. pc[p] = "write" /\ UNCHANGED <<socketMap, at, next, overlap>> /\ Goto(p, l)
    BY DEF Write
  <1>2. pc[p] \in Busy /\ l \in {"net"} \cup Busy \cup Gone
    BY <1>1 DEF Busy, Gone
  <1>3. at[p] \in DOMAIN ses /\ p \in Packets
    BY <1>1, <1>2, PostHasSession, PacketTyped
  <1>4. ses' = [ses EXCEPT ![at[p]] = r]
    BY DEF Write
  <1>5. r \in Session
    BY <1>3, WrittenTyped
  <1>6. ses'[at[p]] = r
    BY <1>3, <1>4, <1>5, Changed
  <1>7. /\ r.end = ses[at[p]].end /\ r.id = ses[at[p]].id /\ r.tn = ses[at[p]].tn
        /\ r.reading = ses[at[p]].reading /\ r.entering = ses[at[p]].entering
        /\ r.rn = ses[at[p]].rn /\ r.buf = ses[at[p]].buf
        /\ r.open = (ses[at[p]].open /\ ~Eof(p))
        /\ r.wrote = IF ses[at[p]].open THEN Append(ses[at[p]].wrote, p) ELSE ses[at[p]].wrote
    BY <1>3, WrittenIs
  <1> HIDE DEF r, l
  <1>8. /\ SocketTypeOK' /\ Alone(p) /\ pc'[p] = l /\ DOMAIN ses' = DOMAIN ses
        /\ \A t \in DOMAIN ses \ {at[p]} : ses'[t] = ses[t]
    BY <1>1, <1>2, <1>3, <1>4, <1>5, StepTyped, 0 \in Nat
  <1>9. Touches(p)
    BY <1>1, <1>3, <1>6, <1>7, <1>8 DEF Touches
  <1>10. ses'[at[p]].open => ses[at[p]].open /\ pc'[p] = "lock"
    BY <1>6, <1>7, <1>8 DEF l
  <1> QED
    BY <1>1, <1>6, <1>7, <1>8, <1>9, <1>10 DEF l

LEMMA PlayOutDoes ==
  ASSUME SocketTypeOK, WellFormed, NEW p \in DOMAIN pc, PlayOut(p)
  PROVE  /\ Touches(p) /\ pc[p] \in {"lock", "play"} /\ pc'[p] \in {"done", "play"}
         /\ next'[p] = next[p] + 1
         /\ \E q \in ses[at[p]].buf :
              /\ q[2] = next[p] /\ ses'[at[p]].rn = next[p]
              /\ ses'[at[p]].buf \subseteq ses[at[p]].buf
              /\ ses'[at[p]].wrote =
                   IF ses[at[p]].open THEN Append(ses[at[p]].wrote, q) ELSE ses[at[p]].wrote
              /\ ses'[at[p]].open = (ses[at[p]].open /\ ~Eof(q))
              /\ socketMap' = IF Eof(q) THEN [socketMap EXCEPT ![To(p)][Id(p)] = 0]
                              ELSE socketMap
         /\ ses'[at[p]].open => ses[at[p]].open /\ pc'[p] = "play"
  <1>1. pc[p] \in {"lock", "play"} /\ UNCHANGED <<at, overlap>>
    BY DEF PlayOut, Locked
  <1>2. pc[p] \in Busy
    BY <1>1 DEF Busy
  <1>3. /\ at[p] \in DOMAIN ses /\ p \in Packets /\ ses[at[p]].buf \subseteq Packets
        /\ next[p] \in Nat
    BY <1>1, <1>2, PostHasSession, PacketTyped
  <1>4. PICK q \in Waiting(p) :
       /\ ses' = [ses EXCEPT ![at[p]] =
                    [Written(at[p], q) EXCEPT !.rn = q[2], !.buf = @ \ {q}]]
       /\ next' = [next EXCEPT ![p] = @ + 1]
       /\ Goto(p, IF Eof(q) THEN "done" ELSE "play")
       /\ socketMap' = IF Eof(q) THEN [socketMap EXCEPT ![To(p)][Id(p)] = 0]
                       ELSE socketMap
    BY DEF PlayOut
  <1>5. q \in ses[at[p]].buf /\ q[2] = next[p] /\ q \in Packets
    BY <1>3 DEF Waiting
  <1> DEFINE l == IF Eof(q) THEN "done" ELSE "play"
             w == Written(at[p], q)
             r == [w EXCEPT !.rn = q[2], !.buf = @ \ {q}]
  <1>6. /\ w.end = ses[at[p]].end /\ w.id = ses[at[p]].id /\ w.tn = ses[at[p]].tn
        /\ w.buf = ses[at[p]].buf
        /\ w.reading = ses[at[p]].reading /\ w.entering = ses[at[p]].entering
        /\ w.open = (ses[at[p]].open /\ ~Eof(q))
        /\ w.wrote = IF ses[at[p]].open THEN Append(ses[at[p]].wrote, q) ELSE ses[at[p]].wrote
    BY <1>3, <1>5, WrittenIs
  <1>7. w \in Session
    BY <1>3, <1>5, WrittenTyped
  <1> HIDE DEF w
  <1>8. /\ r \in Session
        /\ r.end = w.end /\ r.id = w.id /\ r.tn = w.tn /\ r.open = w.open
        /\ r.wrote = w.wrote /\ r.rn = q[2] /\ r.buf = w.buf \ {q}
        /\ r.reading = w.reading /\ r.entering = w.entering
    BY <1>3, <1>5, <1>7 DEF Session
  <1>9. ses' = [ses EXCEPT ![at[p]] = r]
    BY <1>4 DEF w
  <1>10. ses'[at[p]] = r
    BY <1>3, <1>8, <1>9, Changed
  <1>11. Goto(p, l) /\ l \in {"net"} \cup Busy \cup Gone
    BY <1>4 DEF Busy, Gone
  <1>12. next[p] + 1 \in Nat /\ next' = [next EXCEPT ![p] = next[p] + 1]
    BY <1>3, <1>4
  <1>13. \/ socketMap' = socketMap
         \/ \E e, i : socketMap' = [socketMap EXCEPT ![e][i] = 0]
    BY <1>4
  <1> HIDE DEF r, l
  <1>14. /\ SocketTypeOK' /\ Alone(p) /\ pc'[p] = l /\ DOMAIN ses' = DOMAIN ses
         /\ \A t \in DOMAIN ses \ {at[p]} : ses'[t] = ses[t]
         /\ \A e \in Ends, i \in Ids : socketMap'[e][i] \in {0, socketMap[e][i]}
    <2>1. PICK n \in Nat : n = next[p] + 1
      BY <1>12
    <2>2. PICK s \in DOMAIN ses : s = at[p]
      BY <1>3
    <2>3. PICK d \in Session : d = r
      BY <1>8
    <2>4. PICK j \in {"net"} \cup Busy \cup Gone : j = l
      BY <1>11
    <2>5. /\ Goto(p, j) /\ ses' = [ses EXCEPT ![s] = d]
          /\ next' = [next EXCEPT ![p] = n]
      BY <1>9, <1>11, <1>12, <2>1, <2>2, <2>3, <2>4
    <2>6. /\ SocketTypeOK' /\ Alone(p) /\ pc'[p] = j /\ DOMAIN ses' = DOMAIN ses
          /\ \A t \in DOMAIN ses \ {s} : ses'[t] = ses[t]
          /\ \A e \in Ends, i \in Ids : socketMap'[e][i] \in {0, socketMap[e][i]}
      BY <1>1, <1>13, <2>5, StepTyped
    <2> QED
      BY <2>2, <2>4, <2>6
  <1>15. Touches(p)
    BY <1>1, <1>3, <1>6, <1>8, <1>10, <1>14 DEF Touches
  <1>16. next'[p] = next[p] + 1
    BY <1>12 DEF SocketTypeOK
  <1>17. ses'[at[p]].open => ses[at[p]].open /\ pc'[p] = "play"
    BY <1>6, <1>8, <1>10, <1>14 DEF l
  <1>18. pc'[p] \in {"done", "play"}
    BY <1>14 DEF l
  <1>19. /\ ses'[at[p]].rn = next[p] /\ ses'[at[p]].buf \subseteq ses[at[p]].buf
         /\ ses'[at[p]].wrote =
              IF ses[at[p]].open THEN Append(ses[at[p]].wrote, q) ELSE ses[at[p]].wrote
         /\ ses'[at[p]].open = (ses[at[p]].open /\ ~Eof(q))
    BY <1>5, <1>6, <1>8, <1>10
  <1> QED
    BY <1>1, <1>4, <1>5, <1>15, <1>16, <1>17, <1>18, <1>19

LEMMA PlayedOutDoes ==
  ASSUME SocketTypeOK, WellFormed, NEW p \in DOMAIN pc, PlayedOut(p)
  PROVE  /\ Touches(p) /\ pc[p] \in {"lock", "play"} /\ pc'[p] = "done"
         /\ ses' = ses /\ next' = next /\ socketMap' = socketMap
         /\ \A q \in ses[at[p]].buf : q[2] # next[p]
  <1>1. /\ pc[p] \in {"lock", "play"} /\ UNCHANGED <<ses, socketMap, at, next, overlap>>
        /\ Goto(p, "done") /\ Waiting(p) = {}
    BY DEF PlayedOut, Locked
  <1>2. pc[p] \in Busy /\ "done" \in {"net"} \cup Busy \cup Gone
    BY <1>1 DEF Busy, Gone
  <1>3. at[p] \in DOMAIN ses /\ ses[at[p]] \in Session
    BY <1>1, <1>2, PostHasSession
  <1>4. SocketTypeOK' /\ Alone(p) /\ pc'[p] = "done"
    BY <1>1, <1>2, <1>3, StepTyped, 0 \in Nat
  <1>5. \A q \in ses[at[p]].buf : q[2] # next[p]
    BY <1>1 DEF Waiting
  <1> QED
    BY <1>1, <1>3, <1>4, <1>5 DEF Touches

-----------------------------------------------------------------------------
(* Sessions and packets belong together. *)
PeersStay ==
  /\ DOMAIN ses \subseteq DOMAIN ses'
  /\ \A t \in DOMAIN ses :
       ses'[t].end = ses[t].end /\ ses'[t].id = ses[t].id

LEMMA PeersSame ==
  ASSUME WellFormed, PeersStay
  PROVE  /\ \A t \in DOMAIN ses : Ours(t)' = Ours(t)
         /\ \A q \in DOMAIN pc : To(q)' = To(q) /\ Id(q)' = Id(q)
  BY DEF WellFormed, PeersStay, Ours, To, Id, Other

LEMMA TouchedWellFormed ==
  ASSUME SocketTypeOK, WellFormed, NEW p \in Posts, pc[p] # "dial", Touches(p),
         pc'[p] # "dial", pc'[p] = "write" => next'[p] = p[2] + 1
  PROVE  WellFormed'
  <1>1. PeersStay
    BY DEF Touches, PeersStay
  <1>2. \A q \in Posts' : q \in Posts /\ (pc'[q] # "dial" => pc[q] # "dial")
    BY DEF Touches, Alone, Posts
  <1>3. \A q \in DOMAIN pc' : q[1] \in DOMAIN ses' /\ q[2] <= ses'[q[1]].tn
    BY DEF WellFormed, Touches, Alone, Ours, PeersStay
  <1>4. \A e \in Ends, i \in Ids : socketMap'[e][i] # 0 =>
          Ours(socketMap[e][i])' = <<e, i>>
    <2> SUFFICES ASSUME NEW e \in Ends, NEW i \in Ids, socketMap'[e][i] # 0
                 PROVE  Ours(socketMap[e][i])' = <<e, i>>
      OBVIOUS
    <2>1. socketMap'[e][i] = socketMap[e][i]
      BY DEF Touches
    <2>2. socketMap[e][i] \in DOMAIN ses
      BY <2>1, SessionsTyped DEF SocketTypeOK
    <2> QED
      BY <1>1, <2>1, <2>2, PeersSame DEF WellFormed, Ours, PeersStay
  <1>5. \A q \in Posts' : pc'[q] # "dial" =>
          at'[q] # 0 /\ Ours(at[q])' = <<To(q)', Id(q)'>>
    <2> SUFFICES ASSUME NEW q \in Posts', pc'[q] # "dial"
                 PROVE  at'[q] # 0 /\ Ours(at[q])' = <<To(q)', Id(q)'>>
      OBVIOUS
    <2>1. q \in DOMAIN pc /\ pc[q] \in Busy /\ pc[q] # "dial"
      BY <1>2 DEF Posts
    <2>2. at[q] \in DOMAIN ses /\ Ours(at[q]) = <<To(q), Id(q)>> /\ at[q] # 0
      BY <2>1, PostHasSession DEF WellFormed, Posts, Ours, PeersStay
    <2> QED
      BY <1>1, <2>1, <2>2, PeersSame DEF Touches, Ours, PeersStay
  <1>6. \A q \in Posts' : pc'[q] = "write" => next'[q] = q[2] + 1
    BY <1>2 DEF WellFormed, Touches, Alone, Posts, Ours, PeersStay
  <1>7. \A q \in Posts' : pc'[q] = "dial" => To(q)' = "DST"
    <2> SUFFICES ASSUME NEW q \in Posts', pc'[q] = "dial"
                 PROVE  To(q)' = "DST"
      OBVIOUS
    <2>1. q \in DOMAIN pc /\ q \in Posts /\ pc[q] = "dial"
      BY <1>2 DEF Touches, Alone, Posts
    <2> QED
      BY <1>1, <2>1, PeersSame DEF WellFormed, Ours, PeersStay
  <1> QED
    BY <1>3, <1>4, <1>5, <1>6, <1>7 DEF WellFormed, Ours, PeersStay

LEMMA ServeTouches ==
  ASSUME SocketTypeOK, WellFormed, NEW p \in DOMAIN pc, Serve(p), pc[p] # "dial"
  PROVE  Touches(p) /\ WellFormed' /\ p \in Posts
  <1>1. pc[p] \in Busy /\ Touches(p) /\ pc'[p] # "dial" /\ (pc'[p] = "write" => next'[p] = p[2] + 1)
    <2>1. CASE Compare(p)
      BY <2>1, CompareDoes DEF Busy
    <2>2. CASE Hold(p)
      BY <2>2, HoldDoes DEF Busy
    <2>3. CASE Take(p)
      BY <2>3, TakeDoes DEF Busy
    <2>4. CASE Write(p)
      BY <2>4, WriteDoes DEF Busy
    <2>5. CASE PlayOut(p)
      BY <2>5, PlayOutDoes DEF Busy
    <2>6. CASE PlayedOut(p)
      BY <2>6, PlayedOutDoes DEF Busy
    <2> QED
      BY <2>1, <2>2, <2>3, <2>4, <2>5, <2>6 DEF Serve, Dial
  <1>2. p \in Posts
    BY <1>1 DEF Posts
  <1> QED
    BY <1>1, <1>2, TouchedWellFormed

LEMMA StepWellFormed ==
  ASSUME SocketTypeOK, WellFormed, [Next]_vars
  PROVE  SocketTypeOK' /\ WellFormed' /\ PeersStay
  <1>1. ASSUME NEW i \in Ids, Accept(i)
        PROVE  SocketTypeOK' /\ WellFormed' /\ PeersStay
    <2>1. /\ SocketTypeOK' /\ ses' = NewSession("SRC", i)
          /\ pc' = pc /\ at' = at /\ next' = next
          /\ socketMap' = socketMap
      BY <1>1, AcceptDoes
    <2>2. "SRC" \in Ends
      BY DEF Ends
    <2>3. /\ DOMAIN ses \subseteq DOMAIN ses' /\ \A t \in DOMAIN ses : ses'[t] = ses[t]
      BY <2>1, <2>2, Grown
    <2>4. PeersStay
      BY <2>3 DEF PeersStay
    <2>5. Posts' = Posts
      BY <2>1 DEF Posts
    <2>6. \A e \in Ends, j \in Ids : socketMap[e][j] # 0 => socketMap[e][j] \in DOMAIN ses
      BY SessionsTyped DEF SocketTypeOK
    <2>7. \A q \in Posts : pc[q] # "dial" => q \in DOMAIN pc /\ at[q] \in DOMAIN ses
      BY PostHasSession DEF Posts
    <2>8. WellFormed'
      BY <2>1, <2>3, <2>4, <2>5, <2>6, <2>7, PeersSame DEF WellFormed, Posts, Ours, PeersStay
    <2> QED
      BY <2>1, <2>4, <2>8
  <1>2. ASSUME NEW s \in DOMAIN ses, Enter(s)
        PROVE  SocketTypeOK' /\ WellFormed' /\ PeersStay
    <2>1. /\ SocketTypeOK' /\ DOMAIN ses' = DOMAIN ses /\ \A t \in DOMAIN ses : SameFor(t)
          /\ pc' = pc /\ at' = at /\ next' = next /\ overlap' = overlap
          /\ socketMap' = [socketMap EXCEPT ![ses[s].end][ses[s].id] = s]
      BY <1>2, EnterDoes
    <2>2. PeersStay
      BY <2>1 DEF PeersStay, SameFor
    <2>3. Posts' = Posts
      BY <2>1 DEF Posts
    <2>4. \A e \in Ends, j \in Ids : socketMap[e][j] # 0 => socketMap[e][j] \in DOMAIN ses
      BY SessionsTyped DEF SocketTypeOK
    <2>5. \A q \in Posts : pc[q] # "dial" => q \in DOMAIN pc /\ at[q] \in DOMAIN ses
      BY PostHasSession DEF Posts
    <2>6. ses[s].end \in Ends /\ ses[s].id \in Ids
      BY SessionsTyped DEF Session
    <2>7. \A e \in Ends, i \in Ids : socketMap'[e][i] # 0 =>
            Ours(socketMap[e][i])' = <<e, i>>
      <3> SUFFICES ASSUME NEW e \in Ends, NEW i \in Ids, socketMap'[e][i] # 0
                   PROVE  Ours(socketMap[e][i])' = <<e, i>>
        OBVIOUS
      <3>1. CASE e = ses[s].end /\ i = ses[s].id
        <4>1. socketMap'[e][i] = s
          BY <2>1, <2>6, <3>1 DEF SocketTypeOK
        <4> QED
          BY <2>1, <3>1, <4>1 DEF Ours, SameFor
      <3>2. CASE ~(e = ses[s].end /\ i = ses[s].id)
        <4>1. socketMap'[e][i] = socketMap[e][i]
          BY <2>1, <2>6, <3>2 DEF SocketTypeOK
        <4> QED
          BY <2>2, <2>4, <4>1, PeersSame DEF WellFormed, Ours, PeersStay
      <3> QED
        BY <3>1, <3>2
    <2>8. \A p \in DOMAIN pc' : p[1] \in DOMAIN ses' /\ p[2] <= ses'[p[1]].tn
      BY <2>1 DEF WellFormed, SameFor
    <2>9. \A p \in Posts' : pc'[p] # "dial" =>
            at'[p] # 0 /\ Ours(at[p])' = <<To(p)', Id(p)'>>
      <3> SUFFICES ASSUME NEW p \in Posts, pc[p] # "dial"
                   PROVE  at[p] # 0 /\ Ours(at[p])' = <<To(p)', Id(p)'>>
        BY <2>1, <2>3
      <3>1. at[p] # 0 /\ Ours(at[p]) = <<To(p), Id(p)>>
        BY DEF WellFormed
      <3>2. To(p)' = To(p) /\ Id(p)' = Id(p)
        BY <2>2, <2>5, PeersSame
      <3>3. Ours(at[p])' = Ours(at[p])
        BY <2>1, <2>5 DEF Ours, SameFor
      <3> QED
        BY <3>1, <3>2, <3>3
    <2>10. \A p \in Posts' : pc'[p] = "write" => next'[p] = p[2] + 1
      BY <2>1, <2>3 DEF WellFormed
    <2>11. \A p \in Posts' : pc'[p] = "dial" => To(p)' = "DST"
      BY <2>1, <2>2, <2>3, PeersSame DEF WellFormed, Posts
    <2>12. WellFormed'
      BY <2>7, <2>8, <2>9, <2>10, <2>11 DEF WellFormed, Ours
    <2> QED
      BY <2>1, <2>2, <2>12
  <1>3. ASSUME NEW s \in DOMAIN ses, Read(s)
        PROVE  SocketTypeOK' /\ WellFormed' /\ PeersStay
    <2> DEFINE p == <<s, ses[s].tn + 1>>
    <2>1. /\ SocketTypeOK' /\ DOMAIN ses' = DOMAIN ses
          /\ \A t \in DOMAIN ses : 
               /\ ses'[t].end = ses[t].end /\ ses'[t].id = ses[t].id
               /\ ses'[t].tn = IF t = s THEN ses[s].tn + 1 ELSE ses[t].tn
          /\ DOMAIN pc' = DOMAIN pc \cup {p} /\ pc'[p] = "net"
          /\ \A q \in DOMAIN pc \ {p} :
               pc'[q] = pc[q] /\ at'[q] = at[q] /\ next'[q] = next[q]
          /\ \A e \in Ends, i \in Ids : socketMap'[e][i] \in {0, socketMap[e][i]}
      BY <1>3, ReadDoes
    <2>2. PeersStay
      BY <2>1 DEF PeersStay
    <2>3. \A q \in Posts' : q \in Posts /\ q # p /\ q \in DOMAIN pc
      BY <2>1 DEF Posts, Busy
    <2>4. \A e \in Ends, j \in Ids : socketMap[e][j] # 0 => socketMap[e][j] \in DOMAIN ses
      BY SessionsTyped DEF SocketTypeOK
    <2>5. \A q \in Posts : pc[q] # "dial" => q \in DOMAIN pc /\ at[q] \in DOMAIN ses
      BY PostHasSession DEF Posts
    <2>6. \A q \in DOMAIN pc' : q[1] \in DOMAIN ses' /\ q[2] <= ses'[q[1]].tn
      <3>1. \A t \in DOMAIN ses : ses[t].tn \in Nat
        BY SessionsTyped DEF Session
      <3>2. \A q \in DOMAIN pc : q[1] \in DOMAIN ses /\ q[2] <= ses[q[1]].tn /\ q[2] \in Nat
        BY PacketTyped DEF WellFormed, Ours, PeersStay
      <3>3. p[1] = s /\ p[2] = ses[s].tn + 1
        OBVIOUS
      <3> HIDE DEF p
      <3>4. p[2] <= ses'[p[1]].tn
        BY <2>1, <3>1, <3>3
      <3>5. \A q \in DOMAIN pc : q[2] <= ses'[q[1]].tn
        BY <2>1, <3>1, <3>2
      <3> QED
        BY <2>1, <3>2, <3>3, <3>4, <3>5
    <2>7. \A e \in Ends, i \in Ids : socketMap'[e][i] # 0 =>
            Ours(socketMap[e][i])' = <<e, i>>
      BY <2>1, <2>2, <2>4, PeersSame DEF WellFormed, Ours, PeersStay
    <2>8. \A q \in Posts' : pc'[q] # "dial" =>
            at'[q] # 0 /\ Ours(at[q])' = <<To(q)', Id(q)'>>
      <3> SUFFICES ASSUME NEW q \in Posts', pc'[q] # "dial"
                   PROVE  at'[q] # 0 /\ Ours(at[q])' = <<To(q)', Id(q)'>>
        OBVIOUS
      <3>1. q \in DOMAIN pc /\ q \in Posts /\ pc[q] # "dial" /\ at'[q] = at[q]
        BY <2>1, <2>3
      <3> QED
        BY <2>2, <2>5, <3>1, PeersSame DEF WellFormed, Ours, PeersStay
    <2>9. \A q \in Posts' : pc'[q] = "write" => next'[q] = q[2] + 1
      BY <2>1, <2>3 DEF WellFormed, Ours, PeersStay
    <2>10. \A q \in Posts' : pc'[q] = "dial" => To(q)' = "DST"
      BY <2>1, <2>2, <2>3, PeersSame DEF WellFormed, Ours, PeersStay
    <2>11. WellFormed'
      BY <2>6, <2>7, <2>8, <2>9, <2>10 DEF WellFormed, Ours, PeersStay
    <2> QED
      BY <2>1, <2>2, <2>11
  <1>4. ASSUME NEW p \in DOMAIN pc, Lookup(p)
        PROVE  SocketTypeOK' /\ WellFormed' /\ PeersStay
    <2>1. /\ SocketTypeOK' /\ Alone(p)
          /\ ses' = ses /\ socketMap' = socketMap
          /\ pc'[p] \in {"compare", "dial", "refused"}
          /\ pc'[p] = "compare" => at'[p] = socketMap[To(p)][Id(p)] /\ at'[p] # 0
          /\ pc'[p] = "dial" => To(p) = "DST"
          /\ To(p) \in Ends /\ Id(p) \in Ids
      BY <1>4, LookupDoes
    <2>2. PeersStay
      BY <2>1 DEF PeersStay
    <2>3. \A q \in Posts' : q \in DOMAIN pc /\ (q # p => q \in Posts)
      BY <2>1 DEF Posts, Alone
    <2>4. \A t : Ours(t)' = Ours(t)
      BY <2>1 DEF Ours
    <2>5. \A q \in DOMAIN pc : To(q)' = To(q) /\ Id(q)' = Id(q)
      BY <2>2, PeersSame DEF Ours, PeersStay
    <2>6. \A q \in Posts' : pc'[q] # "dial" =>
            at'[q] # 0 /\ Ours(at[q])' = <<To(q)', Id(q)'>>
      <3> SUFFICES ASSUME NEW q \in Posts', pc'[q] # "dial"
                   PROVE  at'[q] # 0 /\ Ours(at[q])' = <<To(q)', Id(q)'>>
        OBVIOUS
      <3>1. CASE q = p
        <4>1. pc'[p] = "compare"
          BY <2>1, <3>1 DEF Posts, Busy
        <4> QED
          BY <2>1, <2>3, <2>4, <2>5, <3>1, <4>1 DEF WellFormed, Ours, PeersStay
      <3>2. CASE q # p
        BY <2>1, <2>3, <2>4, <2>5, <3>2 DEF WellFormed, Alone, Ours, PeersStay
      <3> QED
        BY <3>1, <3>2
    <2>7. \A q \in Posts' : pc'[q] = "write" => next'[q] = q[2] + 1
      BY <2>1, <2>3 DEF WellFormed, Alone, Ours, PeersStay
    <2>8. \A q \in Posts' : pc'[q] = "dial" => To(q)' = "DST"
      BY <2>1, <2>3, <2>5 DEF WellFormed, Alone, Ours, PeersStay
    <2>9. WellFormed'
      BY <2>1, <2>4, <2>6, <2>7, <2>8 DEF WellFormed, Alone, Ours, PeersStay
    <2> QED
      BY <2>1, <2>2, <2>9
  <1>5. ASSUME NEW p \in DOMAIN pc, Dial(p)
        PROVE  SocketTypeOK' /\ WellFormed' /\ PeersStay
    <2>1. /\ SocketTypeOK' /\ Alone(p) /\ socketMap' = socketMap /\ pc[p] = "dial"
          /\ \/ /\ ses' = NewSession("DST", Id(p)) /\ Id(p) \in Ids
                /\ at'[p] = Len(ses) + 1 /\ pc'[p] = "compare"
             \/ ses' = ses /\ pc'[p] = "refused" /\ at' = at
      BY <1>5, DialDoes
    <2>2. "DST" \in Ends
      BY DEF Ends
    <2>3. /\ DOMAIN ses \subseteq DOMAIN ses' /\ \A t \in DOMAIN ses : ses'[t] = ses[t]
      BY <2>1, <2>2, Grown
    <2>4. PeersStay
      BY <2>3 DEF PeersStay
    <2>5. \A q \in Posts' : q \in Posts /\ q \in DOMAIN pc
      BY <2>1 DEF Posts, Alone, Busy
    <2>6. \A e \in Ends, j \in Ids : socketMap[e][j] # 0 => socketMap[e][j] \in DOMAIN ses
      BY SessionsTyped DEF SocketTypeOK
    <2>7. \A q \in Posts : pc[q] # "dial" => q \in DOMAIN pc /\ at[q] \in DOMAIN ses
      BY PostHasSession DEF Posts
    <2>8. \A q \in Posts' : pc'[q] # "dial" =>
            at'[q] # 0 /\ Ours(at[q])' = <<To(q)', Id(q)'>>
      <3> SUFFICES ASSUME NEW q \in Posts', pc'[q] # "dial"
                   PROVE  at'[q] # 0 /\ Ours(at[q])' = <<To(q)', Id(q)'>>
        OBVIOUS
      <3>1. CASE q = p
        <4>1. /\ ses' = NewSession("DST", Id(p)) /\ Id(p) \in Ids
              /\ at'[p] = Len(ses) + 1
          BY <2>1, <3>1 DEF Posts, Busy
        <4>2. ses'[Len(ses) + 1].end = "DST" /\ ses'[Len(ses) + 1].id = Id(p)
          BY <2>2, <4>1, Grown
        <4>3. To(p) = "DST"
          BY <2>1, <2>5, <3>1 DEF WellFormed, Ours, PeersStay
        <4>4. Len(ses) + 1 # 0
          BY SessionsTyped
        <4> QED
          BY <2>4, <3>1, <4>1, <4>2, <4>3, <4>4, PeersSame DEF Ours, PeersStay
      <3>2. CASE q # p
        <4>1. pc[q] # "dial" /\ at'[q] = at[q] /\ q \in Posts /\ q \in DOMAIN pc
          BY <2>1, <2>5, <3>2 DEF Alone
        <4> QED
          BY <2>4, <2>7, <4>1, PeersSame DEF WellFormed, Ours, PeersStay
      <3> QED
        BY <3>1, <3>2
    <2>9. \A q \in Posts' : pc'[q] = "write" => next'[q] = q[2] + 1
      BY <2>1, <2>5 DEF WellFormed, Alone, Ours, PeersStay
    <2>10. \A q \in DOMAIN pc' : q[1] \in DOMAIN ses' /\ q[2] <= ses'[q[1]].tn
      BY <2>1, <2>3 DEF WellFormed, Alone, Ours, PeersStay
    <2>11. \A e \in Ends, i \in Ids : socketMap'[e][i] # 0 =>
            Ours(socketMap[e][i])' = <<e, i>>
      BY <2>1, <2>4, <2>6, PeersSame DEF WellFormed, Ours, PeersStay
    <2>12. \A q \in Posts' : pc'[q] = "dial" => To(q)' = "DST"
      BY <2>1, <2>4, <2>5, PeersSame DEF WellFormed, Alone, Ours, PeersStay
    <2>13. WellFormed'
      BY <2>8, <2>9, <2>10, <2>11, <2>12 DEF WellFormed, Ours, PeersStay
    <2> QED
      BY <2>1, <2>4, <2>13
  <1>6. ASSUME NEW p \in DOMAIN pc, Serve(p), pc[p] # "dial"
        PROVE  SocketTypeOK' /\ WellFormed' /\ PeersStay
    BY <1>6, ServeTouches DEF Touches, PeersStay
  <1>7. CASE UNCHANGED vars
    BY <1>7 DEF vars, SocketTypeOK, WellFormed, PeersStay, Posts, Ours, To, Id, Other
  <1> QED
    BY <1>1, <1>2, <1>3, <1>4, <1>5, <1>6, <1>7
       DEF Next, Serve, Compare, Hold, Take, Write, PlayOut, PlayedOut, Locked

-----------------------------------------------------------------------------
(* Whatever races there are, no number is skipped. *)
LEMMA CoverStays ==
  ASSUME NEW s \in DOMAIN ses, NEW n, Covered(s, n),
         \A i \in DOMAIN ses[s].wrote :
           i \in DOMAIN ses'[s].wrote /\ ses'[s].wrote[i] = ses[s].wrote[i],
         \A p \in Posts : pc[p] = "write" /\ at[p] = s =>
           \/ p \in Posts' /\ pc'[p] = "write" /\ at'[p] = s
           \/ \E i \in DOMAIN ses'[s].wrote : ses'[s].wrote[i][2] = p[2]
  PROVE  Covered(s, n)'
  BY DEF Covered

LEMMA QuietCoverage ==
  ASSUME SocketTypeOK, WellFormed, Coverage,
         DOMAIN ses \subseteq DOMAIN ses',
         \A s \in DOMAIN ses :
           /\ ses'[s].open = ses[s].open /\ ses'[s].rn = ses[s].rn
           /\ ses'[s].wrote = ses[s].wrote,
         \A s \in DOMAIN ses' \ DOMAIN ses : ses'[s].rn = 0,
         \A p \in Posts : pc[p] = "write" =>
           p \in Posts' /\ pc'[p] = "write" /\ at'[p] = at[p],
         \A p \in Posts' : pc'[p] \in {"take", "write", "lock", "play"} =>
           \/ p \in Posts /\ pc'[p] = pc[p] /\ at'[p] = at[p] /\ next'[p] = next[p]
           \/ pc'[p] = "take" /\ at'[p] \in DOMAIN ses /\ p[2] - 1 = ses[at'[p]].rn
  PROVE  Coverage'
  <1>1. ASSUME NEW s \in DOMAIN ses, NEW n, Covered(s, n)
        PROVE  Covered(s, n)'
    BY <1>1, CoverStays
  <1>2. ASSUME NEW s \in DOMAIN ses, NEW k, UpTo(s, k)
        PROVE  UpTo(s, k)'
    BY <1>1, <1>2 DEF UpTo
  <1>3. ASSUME NEW s \in DOMAIN ses'
        PROVE  UpTo(s, ses[s].rn)'
    <2>1. CASE s \in DOMAIN ses
      <3>1. PICK k : k = ses[s].rn
        OBVIOUS
      <3>2. UpTo(s, k) /\ k = ses'[s].rn
        BY <2>1, <3>1 DEF Coverage
      <3>3. ses'[s].open => \A n \in 1 .. k : Covered(s, n)'
        BY <1>1, <2>1, <3>2 DEF UpTo
      <3> QED
        BY <3>2, <3>3 DEF UpTo, Covered
    <2>2. CASE s \notin DOMAIN ses
      <3>1. ses'[s].rn = 0 /\ 1 .. 0 = {}
        BY <2>2
      <3> QED
        BY <3>1 DEF UpTo
    <2> QED
      BY <2>1, <2>2
  <1>4. \A p \in Posts : pc[p] # "dial" => at[p] \in DOMAIN ses
    BY PostHasSession DEF Posts
  <1>5. ASSUME NEW p \in Posts', pc'[p] \in {"take", "write", "lock", "play"}
        PROVE  /\ pc'[p] = "take" => UpTo(at[p], p[2] - 1)'
               /\ pc'[p] \in {"write", "lock", "play"} => UpTo(at[p], next[p] - 1)'
    <2>1. CASE p \in Posts /\ pc'[p] = pc[p] /\ at'[p] = at[p] /\ next'[p] = next[p]
      <3>1. PICK s : s = at[p]
        OBVIOUS
      <3>2. PICK k : k = IF pc[p] = "take" THEN p[2] - 1 ELSE next[p] - 1
        OBVIOUS
      <3>3. s \in DOMAIN ses /\ UpTo(s, k)
        BY <1>4, <1>5, <2>1, <3>1, <3>2 DEF Coverage
      <3>4. ses'[s].open => \A n \in 1 .. k : Covered(s, n)'
        BY <1>1, <3>3 DEF UpTo
      <3>5. s = at'[p] /\ k = IF pc'[p] = "take" THEN p[2] - 1 ELSE next'[p] - 1
        BY <2>1, <3>1, <3>2
      <3> QED
        BY <1>5, <3>4, <3>5 DEF UpTo, Covered
    <2>2. CASE pc'[p] = "take" /\ at'[p] \in DOMAIN ses /\ p[2] - 1 = ses[at'[p]].rn
      <3>1. PICK s : s = at'[p]
        OBVIOUS
      <3>2. PICK k : k = p[2] - 1
        OBVIOUS
      <3>3. s \in DOMAIN ses /\ UpTo(s, k)
        BY <2>2, <3>1, <3>2 DEF Coverage
      <3>4. ses'[s].open => \A n \in 1 .. k : Covered(s, n)'
        BY <1>1, <3>3 DEF UpTo
      <3> QED
        BY <2>2, <3>1, <3>2, <3>4 DEF UpTo, Covered
    <2> QED
      BY <1>5, <2>1, <2>2
  <1> QED
    BY <1>3, <1>5 DEF Coverage

(* Steps that add to a connection, or count on. *)
LEMMA TouchedCoverage ==
  ASSUME SocketTypeOK, WellFormed, Coverage, NEW p \in Posts, pc[p] # "dial", Touches(p),
         ses'[at[p]].open => ses[at[p]].open,
         \/ ses'[at[p]].wrote = ses[at[p]].wrote
         \/ ~ses'[at[p]].open
         \/ \E q \in Packets : ses'[at[p]].wrote = Append(ses[at[p]].wrote, q)
              /\ (pc[p] = "write" => q[2] = p[2]),
         pc[p] = "write" =>
           pc'[p] = "write" \/ ses'[at[p]].wrote # ses[at[p]].wrote \/ ~ses'[at[p]].open
  PROVE  /\ \A s \in DOMAIN ses : \A n : Covered(s, n) /\ ses'[s].open => Covered(s, n)'
         /\ \A s \in DOMAIN ses \ {at[p]} : UpTo(s, ses[s].rn)'
         /\ \A q \in Posts' \ {p} :
              /\ pc'[q] = "take" => UpTo(at[q], q[2] - 1)'
              /\ pc'[q] \in {"write", "lock", "play"} => UpTo(at[q], next[q] - 1)'
  <1>1. at[p] \in DOMAIN ses /\ ses[at[p]].wrote \in Seq(Packets)
    BY PostHasSession DEF Posts
  <1>2. ASSUME NEW s \in DOMAIN ses, NEW n, Covered(s, n), ses'[s].open
        PROVE  Covered(s, n)'
    <2>1. \A i \in DOMAIN ses[s].wrote :
           i \in DOMAIN ses'[s].wrote /\ ses'[s].wrote[i] = ses[s].wrote[i]
      <3>1. CASE s = at[p]
        <4>1. CASE ses'[s].wrote = ses[s].wrote
          BY <4>1
        <4>2. ASSUME NEW r \in Packets, ses'[s].wrote = Append(ses[s].wrote, r)
              PROVE  \A i \in DOMAIN ses[s].wrote :
                       i \in DOMAIN ses'[s].wrote /\ ses'[s].wrote[i] = ses[s].wrote[i]
          BY <1>1, <3>1, <4>2, AppendProperties
        <4> QED
          BY <1>2, <3>1, <4>1, <4>2
      <3>2. CASE s # at[p]
        BY <3>2 DEF Touches
      <3> QED
        BY <3>1, <3>2
    <2>2. \A q \in Posts : pc[q] = "write" /\ at[q] = s =>
           \/ q \in Posts' /\ pc'[q] = "write" /\ at'[q] = s
           \/ \E i \in DOMAIN ses'[s].wrote : ses'[s].wrote[i][2] = q[2]
      <3> SUFFICES ASSUME NEW q \in Posts, pc[q] = "write", at[q] = s
                   PROVE  \/ q \in Posts' /\ pc'[q] = "write" /\ at'[q] = s
                          \/ \E i \in DOMAIN ses'[s].wrote : ses'[s].wrote[i][2] = q[2]
        OBVIOUS
      <3>1. CASE q # p \/ pc'[q] = "write"
        BY <3>1 DEF Touches, Alone, Posts
      <3>2. CASE q = p /\ pc'[q] # "write"
        <4>1. PICK r \in Packets : ses'[s].wrote = Append(ses[s].wrote, r) /\ r[2] = q[2]
          BY <1>2, <3>2
        <4>2. /\ Len(ses[s].wrote) + 1 \in DOMAIN ses'[s].wrote
              /\ ses'[s].wrote[Len(ses[s].wrote) + 1] = r
          BY <1>1, <3>2, <4>1, AppendProperties
        <4> QED
          BY <4>1, <4>2
      <3> QED
        BY <3>1, <3>2
    <2> QED
      BY <1>2, <2>1, <2>2, CoverStays
  <1>3. \A s \in DOMAIN ses \ {at[p]} : UpTo(s, ses[s].rn)'
    <2> SUFFICES ASSUME NEW s \in DOMAIN ses \ {at[p]}
                 PROVE  UpTo(s, ses[s].rn)'
      OBVIOUS
    <2>1. ses'[s] = ses[s]
      BY DEF Touches
    <2>2. UpTo(s, ses[s].rn)
      BY DEF Coverage
    <2> QED
      BY <1>2, <2>1, <2>2 DEF UpTo
  <1>4. ASSUME NEW q \in Posts' \ {p}, pc'[q] \in {"take", "write", "lock", "play"}
        PROVE  /\ pc'[q] = "take" => UpTo(at[q], q[2] - 1)'
               /\ pc'[q] \in {"write", "lock", "play"} => UpTo(at[q], next[q] - 1)'
    <2>1. q \in Posts /\ pc'[q] = pc[q] /\ at'[q] = at[q] /\ next'[q] = next[q]
      BY DEF Touches, Alone, Posts
    <2>2. PICK s : s = at[q]
      OBVIOUS
    <2>3. PICK k : k = IF pc[q] = "take" THEN q[2] - 1 ELSE next[q] - 1
      OBVIOUS
    <2>4. s \in DOMAIN ses /\ UpTo(s, k)
      BY <1>4, <2>1, <2>2, <2>3, PostHasSession DEF Coverage, Posts
    <2>5. ses'[s].open => ses[s].open
      BY <2>4 DEF Touches
    <2>6. ses'[s].open => \A n \in 1 .. k : Covered(s, n)'
      BY <1>2, <2>4, <2>5 DEF UpTo
    <2>7. s = at'[q] /\ k = IF pc'[q] = "take" THEN q[2] - 1 ELSE next'[q] - 1
      BY <2>1, <2>2, <2>3
    <2> QED
      BY <1>4, <2>6, <2>7 DEF UpTo, Covered
  <1> QED
    BY <1>2, <1>3, <1>4

LEMMA TouchedWhole ==
  ASSUME NEW p \in Posts, Touches(p), NEW s, s = at[p], NEW m \in Nat,
         \A t \in DOMAIN ses \ {at[p]} : UpTo(t, ses[t].rn)',
         \A q \in Posts' \ {p} :
           /\ pc'[q] = "take" => UpTo(at[q], q[2] - 1)'
           /\ pc'[q] \in {"write", "lock", "play"} => UpTo(at[q], next[q] - 1)',
         ses'[s].open => \A n \in 1 .. m : Covered(s, n)',
         ses'[s].rn \in Nat, ses'[s].open => ses'[s].rn <= m,
         pc'[p] # "take", next'[p] \in Nat,
         ses'[s].open /\ pc'[p] \in {"write", "lock", "play"} => next'[p] - 1 <= m
  PROVE  Coverage'
  <1>1. ASSUME NEW k \in Int, ses'[s].open => k <= m
        PROVE  ses'[s].open => \A n \in 1 .. k : Covered(s, n)'
    BY <1>1
  <1>2. ses'[s].open => \A n \in 1 .. ses'[s].rn : Covered(s, n)'
    <2>1. ses'[s].rn \in Int
      OBVIOUS
    <2> QED
      BY <1>1, <2>1
  <1>3. UpTo(s, ses[s].rn)'
    BY <1>2 DEF UpTo
  <1>4. \A t \in DOMAIN ses' : UpTo(t, ses[t].rn)'
    BY <1>3 DEF Touches
  <1>5. ASSUME pc'[p] \in {"write", "lock", "play"}
        PROVE  UpTo(at[p], next[p] - 1)'
    <2>1. next'[p] - 1 \in Int /\ (ses'[s].open => next'[p] - 1 <= m)
      BY <1>5
    <2>2. ses'[s].open => \A n \in 1 .. next'[p] - 1 : Covered(s, n)'
      BY <1>1, <2>1
    <2>3. at'[p] = s
      BY DEF Touches
    <2> QED
      BY <2>2, <2>3 DEF UpTo, Covered
  <1> QED
    BY <1>4, <1>5 DEF Coverage

LEMMA TakeCoverage ==
  ASSUME SocketTypeOK, WellFormed, Coverage, NEW p \in DOMAIN pc, Take(p)
  PROVE  Coverage'
  <1>1. /\ Touches(p) /\ pc[p] = "take" /\ pc'[p] = "write" /\ next'[p] = p[2] + 1
        /\ ses'[at[p]].open = ses[at[p]].open /\ ses'[at[p]].rn = p[2]
        /\ ses'[at[p]].wrote = ses[at[p]].wrote
    BY TakeDoes
  <1>2. p \in Posts /\ p[2] \in Nat \ {0}
    BY <1>1, PacketTyped DEF Posts, Busy
  <1>3. /\ \A s \in DOMAIN ses : \A n : Covered(s, n) /\ ses'[s].open => Covered(s, n)'
        /\ \A s \in DOMAIN ses \ {at[p]} : UpTo(s, ses[s].rn)'
        /\ \A q \in Posts' \ {p} :
             /\ pc'[q] = "take" => UpTo(at[q], q[2] - 1)'
             /\ pc'[q] \in {"write", "lock", "play"} => UpTo(at[q], next[q] - 1)'
    BY <1>1, <1>2, TouchedCoverage
  <1>4. PICK s \in DOMAIN ses : s = at[p]
    BY <1>1 DEF Touches
  <1>5. UpTo(s, p[2] - 1)
    BY <1>1, <1>2, <1>4 DEF Coverage
  <1>6. Covered(s, p[2])'
    <2>1. p \in Posts' /\ at'[p] = s
      BY <1>1, <1>4 DEF Touches, Alone, Posts, Busy
    <2> QED
      BY <1>1, <2>1 DEF Covered
  <1>7. ASSUME ses'[s].open, NEW n \in 1 .. p[2]
        PROVE  Covered(s, n)'
    <2>1. n \in 1 .. p[2] - 1 \/ n = p[2]
      BY <1>2
    <2>2. ses[s].open
      BY <1>1, <1>4, <1>7
    <2> QED
      BY <1>3, <1>5, <1>6, <1>7, <2>1, <2>2 DEF UpTo
  <1> QED
    BY <1>1, <1>2, <1>3, <1>4, <1>7, TouchedWhole

LEMMA WriteCoverage ==
  ASSUME SocketTypeOK, WellFormed, Coverage, NEW p \in DOMAIN pc, Write(p)
  PROVE  Coverage'
  <1>1. /\ Touches(p) /\ pc[p] = "write" /\ pc'[p] \in {"done", "lock"} /\ next' = next
        /\ ses'[at[p]].open => ses[at[p]].open /\ pc'[p] = "lock"
        /\ ses'[at[p]].rn = ses[at[p]].rn
        /\ ses'[at[p]].wrote =
             IF ses[at[p]].open THEN Append(ses[at[p]].wrote, p) ELSE ses[at[p]].wrote
    BY WriteDoes
  <1>2. p \in Posts /\ p \in Packets /\ p[2] \in Nat \ {0} /\ next[p] \in Nat
    BY <1>1, PacketTyped DEF Posts, Busy
  <1>3. PICK s \in DOMAIN ses : s = at[p]
    BY <1>1 DEF Touches
  <1>4. ses[s].rn \in Nat /\ ses[s].wrote \in Seq(Packets) /\ next[p] = p[2] + 1
    BY <1>1, <1>2, <1>3, PostHasSession DEF WellFormed, Busy
  <1>5. \/ ~ses'[at[p]].open
        \/ ses'[at[p]].wrote = Append(ses[at[p]].wrote, p)
    BY <1>1
  <1>6. /\ \A t \in DOMAIN ses : \A n : Covered(t, n) /\ ses'[t].open => Covered(t, n)'
        /\ \A t \in DOMAIN ses \ {at[p]} : UpTo(t, ses[t].rn)'
        /\ \A q \in Posts' \ {p} :
             /\ pc'[q] = "take" => UpTo(at[q], q[2] - 1)'
             /\ pc'[q] \in {"write", "lock", "play"} => UpTo(at[q], next[q] - 1)'
    <2>1. \/ ~ses'[at[p]].open
          \/ ses'[at[p]].wrote # ses[at[p]].wrote
      <3>1. ASSUME ses'[at[p]].wrote = Append(ses[at[p]].wrote, p)
            PROVE  ses'[at[p]].wrote # ses[at[p]].wrote
        <4>1. Len(Append(ses[s].wrote, p)) = Len(ses[s].wrote) + 1 /\ Len(ses[s].wrote) \in Nat
          BY <1>2, <1>4, AppendProperties
        <4>2. Append(ses[s].wrote, p) # ses[s].wrote
          BY <4>1
        <4> QED
          BY <1>3, <3>1, <4>2
      <3> QED
        BY <1>5, <3>1
    <2> QED
      BY <1>1, <1>2, <1>5, <2>1, TouchedCoverage
  <1>7. UpTo(s, ses[s].rn) /\ UpTo(s, next[p] - 1)
    BY <1>1, <1>2, <1>3 DEF Coverage
  <1>8. PICK m \in Nat : m = IF ses[s].rn > next[p] - 1 THEN ses[s].rn ELSE next[p] - 1
    BY <1>2, <1>4
  <1>9. UpTo(s, m) /\ ses[s].rn <= m /\ next[p] - 1 <= m
    BY <1>2, <1>4, <1>7, <1>8
  <1>10. ses'[s].open => \A n \in 1 .. m : Covered(s, n)'
    BY <1>1, <1>3, <1>6, <1>9 DEF UpTo
  <1> QED
    BY <1>1, <1>2, <1>3, <1>4, <1>6, <1>9, <1>10, TouchedWhole

LEMMA PlayOutCoverage ==
  ASSUME SocketTypeOK, WellFormed, Coverage, NEW p \in DOMAIN pc, PlayOut(p)
  PROVE  Coverage'
  <1>1. /\ Touches(p) /\ pc[p] \in {"lock", "play"} /\ pc'[p] \in {"done", "play"}
        /\ next'[p] = next[p] + 1
        /\ ses'[at[p]].open => ses[at[p]].open /\ pc'[p] = "play"
    BY PlayOutDoes
  <1>2. PICK r \in ses[at[p]].buf :
          /\ r[2] = next[p] /\ ses'[at[p]].rn = next[p]
          /\ ses'[at[p]].wrote =
               IF ses[at[p]].open THEN Append(ses[at[p]].wrote, r) ELSE ses[at[p]].wrote
    BY PlayOutDoes
  <1>3. PICK s \in DOMAIN ses : s = at[p]
    BY <1>1 DEF Touches
  <1>4. p \in Posts /\ next[p] \in Nat /\ pc[p] \in Busy
    BY <1>1, PacketTyped DEF Posts, Busy
  <1>5. r \in Packets /\ ses[s].wrote \in Seq(Packets)
    BY <1>1, <1>2, <1>3, <1>4, PostHasSession
  <1>6. /\ \A t \in DOMAIN ses : \A n : Covered(t, n) /\ ses'[t].open => Covered(t, n)'
        /\ \A t \in DOMAIN ses \ {at[p]} : UpTo(t, ses[t].rn)'
        /\ \A q \in Posts' \ {p} :
             /\ pc'[q] = "take" => UpTo(at[q], q[2] - 1)'
             /\ pc'[q] \in {"write", "lock", "play"} => UpTo(at[q], next[q] - 1)'
    <2>1. ~ses'[at[p]].open \/ ses'[at[p]].wrote = Append(ses[at[p]].wrote, r)
      BY <1>1, <1>2
    <2> QED
      BY <1>1, <1>4, <1>5, <2>1, TouchedCoverage
  <1>7. UpTo(s, next[p] - 1)
    BY <1>1, <1>3, <1>4 DEF Coverage
  <1>8. PICK m \in Nat : m = next[p]
    BY <1>4
  <1>9. ASSUME ses'[s].open
        PROVE  Covered(s, m)'
    <2>1. ses'[s].wrote = Append(ses[s].wrote, r)
      BY <1>1, <1>2, <1>3, <1>9
    <2>2. /\ Len(ses[s].wrote) + 1 \in DOMAIN ses'[s].wrote
          /\ ses'[s].wrote[Len(ses[s].wrote) + 1] = r
      BY <1>5, <2>1, AppendProperties
    <2> QED
      BY <1>2, <1>8, <2>2 DEF Covered
  <1>10. ASSUME ses'[s].open, NEW n \in 1 .. m
         PROVE  Covered(s, n)'
    <2>1. n \in 1 .. next[p] - 1 \/ n = m
      BY <1>8
    <2>2. ses[s].open
      BY <1>1, <1>3, <1>10
    <2> QED
      BY <1>6, <1>7, <1>9, <1>10, <2>1, <2>2 DEF UpTo
  <1> QED
    BY <1>1, <1>2, <1>3, <1>4, <1>6, <1>8, <1>10, TouchedWhole

LEMMA StepCoverage ==
  ASSUME SocketTypeOK, WellFormed, Coverage, [Next]_vars
  PROVE  Coverage'
  <1> USE DEF Posts, Busy
  <1>1. ASSUME NEW i \in Ids, Accept(i)
        PROVE  Coverage'
    <2>1. /\ ses' = NewSession("SRC", i) /\ "SRC" \in Ends
          /\ pc' = pc /\ at' = at /\ next' = next
      BY <1>1, AcceptDoes DEF Ends
    <2>2. /\ DOMAIN ses' = DOMAIN ses \cup {Len(ses) + 1}
          /\ \A t \in DOMAIN ses : ses'[t] = ses[t]
          /\ ses'[Len(ses) + 1].rn = 0
      BY <2>1, Grown
    <2> QED
      BY <2>1, <2>2, QuietCoverage
  <1>2. ASSUME NEW s \in DOMAIN ses, Enter(s)
        PROVE  Coverage'
    <2>1. /\ DOMAIN ses' = DOMAIN ses
          /\ \A t \in DOMAIN ses :
               /\ ses'[t].open = ses[t].open /\ ses'[t].rn = ses[t].rn
               /\ ses'[t].wrote = ses[t].wrote
          /\ pc' = pc /\ at' = at /\ next' = next
      BY <1>2, EnterDoes DEF SameFor
    <2> QED
      BY <2>1, QuietCoverage
  <1>3. ASSUME NEW s \in DOMAIN ses, Read(s)
        PROVE  Coverage'
    <2> DEFINE p == <<s, ses[s].tn + 1>>
    <2>1. /\ DOMAIN ses' = DOMAIN ses
          /\ \A t \in DOMAIN ses :
               /\ ses'[t].open = ses[t].open /\ ses'[t].rn = ses[t].rn
               /\ ses'[t].wrote = ses[t].wrote
          /\ DOMAIN pc' = DOMAIN pc \cup {p} /\ pc'[p] = "net"
          /\ \A q \in DOMAIN pc \ {p} :
               pc'[q] = pc[q] /\ at'[q] = at[q] /\ next'[q] = next[q]
      BY <1>3, ReadDoes
    <2>2. p \notin DOMAIN pc
      BY SessionsTyped DEF WellFormed, Session
    <2> QED
      BY <2>1, <2>2, QuietCoverage
  <1>4. ASSUME NEW p \in DOMAIN pc, Lookup(p)
        PROVE  Coverage'
    <2>1. /\ Alone(p) /\ ses' = ses /\ pc[p] = "net"
          /\ pc'[p] \in {"compare", "dial", "refused"}
      BY <1>4, LookupDoes
    <2> QED
      BY <2>1, QuietCoverage DEF Alone
  <1>5. ASSUME NEW p \in DOMAIN pc, Dial(p)
        PROVE  Coverage'
    <2>1. /\ Alone(p) /\ pc[p] = "dial" /\ pc'[p] \in {"compare", "refused"}
          /\ ses' = ses \/ (ses' = NewSession("DST", Id(p)) /\ Id(p) \in Ids)
      BY <1>5, DialDoes
    <2>2. CASE ses' = ses
      BY <2>1, <2>2, QuietCoverage DEF Alone
    <2>3. CASE ses' = NewSession("DST", Id(p)) /\ Id(p) \in Ids
      <3>1. "DST" \in Ends
        BY DEF Ends
      <3>2. /\ DOMAIN ses' = DOMAIN ses \cup {Len(ses) + 1}
            /\ \A t \in DOMAIN ses : ses'[t] = ses[t]
            /\ ses'[Len(ses) + 1].rn = 0
        BY <2>3, <3>1, Grown
      <3> QED
        BY <2>1, <3>2, QuietCoverage DEF Alone
    <2> QED
      BY <2>1, <2>2, <2>3
  <1>6. ASSUME NEW p \in DOMAIN pc, Compare(p)
        PROVE  Coverage'
    <2>1. /\ Touches(p) /\ pc[p] = "compare" /\ ses' = ses
          /\ \/ pc'[p] = "take" /\ p[2] = ses[at[p]].rn + 1
             \/ pc'[p] = "hold"
      BY <1>6, CompareDoes
    <2>2. at[p] \in DOMAIN ses /\ ses[at[p]].rn \in Nat /\ p[2] \in Nat
      BY <2>1, PostHasSession, PacketTyped
    <2> QED
      BY <2>1, <2>2, QuietCoverage DEF Touches, Alone
  <1>7. ASSUME NEW p \in DOMAIN pc, Hold(p)
        PROVE  Coverage'
    <2>1. /\ Touches(p) /\ pc[p] = "hold" /\ pc'[p] = "done"
          /\ ses'[at[p]].open = ses[at[p]].open /\ ses'[at[p]].rn = ses[at[p]].rn
          /\ ses'[at[p]].wrote = ses[at[p]].wrote
      BY <1>7, HoldDoes
    <2> QED
      BY <2>1, QuietCoverage DEF Touches, Alone
  <1>8. ASSUME NEW p \in DOMAIN pc, PlayedOut(p)
        PROVE  Coverage'
    <2>1. /\ Touches(p) /\ pc[p] \in {"lock", "play"} /\ pc'[p] = "done" /\ ses' = ses
      BY <1>8, PlayedOutDoes
    <2> QED
      BY <2>1, QuietCoverage DEF Touches, Alone
  <1>9. CASE UNCHANGED vars
    BY <1>9, QuietCoverage DEF vars
  <1> QED
    BY <1>1, <1>2, <1>3, <1>4, <1>5, <1>6, <1>7, <1>8, <1>9, TakeCoverage,
       WriteCoverage, PlayOutCoverage DEF Next, Serve

-----------------------------------------------------------------------------
(* Whoever posts beside another one is noted. *)
LEMMA StepNoted ==
  ASSUME SocketTypeOK, WellFormed, Noted, [Next]_vars
  PROVE  Noted' /\ overlap \subseteq overlap'
  <1> USE DEF Posts, Busy
  <1>1. PeersStay /\ \A q \in DOMAIN pc : To(q)' = To(q) /\ Id(q)' = Id(q)
    BY StepWellFormed, PeersSame
  <1>2. ASSUME Posts' \subseteq Posts, overlap \subseteq overlap'
        PROVE  Noted'
    BY <1>1, <1>2 DEF Noted
  <1>3. ASSUME NEW i \in Ids, Accept(i)
        PROVE  Noted' /\ overlap \subseteq overlap'
    BY <1>2, <1>3, AcceptDoes
  <1>4. ASSUME NEW s \in DOMAIN ses, Enter(s)
        PROVE  Noted' /\ overlap \subseteq overlap'
    BY <1>2, <1>4, EnterDoes
  <1>5. ASSUME NEW s \in DOMAIN ses, Read(s)
        PROVE  Noted' /\ overlap \subseteq overlap'
    <2> DEFINE p == <<s, ses[s].tn + 1>>
    <2>1. /\ DOMAIN pc' = DOMAIN pc \cup {p} /\ pc'[p] = "net" /\ overlap' = overlap
          /\ \A q \in DOMAIN pc \ {p} : pc'[q] = pc[q]
      BY <1>5, ReadDoes
    <2> QED
      BY <1>2, <2>1
  <1>6. ASSUME NEW p \in DOMAIN pc, Lookup(p)
        PROVE  Noted' /\ overlap \subseteq overlap'
    <2>1. /\ Alone(p) /\ ses' = ses /\ pc[p] = "net"
          /\ overlap' = IF SamePeer(p) = {} THEN overlap ELSE overlap \cup {<<To(p), Id(p)>>}
      BY <1>6, LookupDoes
    <2>2. \A q \in Posts' : q = p \/ q \in Posts
      BY <2>1 DEF Alone
    <2>3. \A q \in Posts : To(q) = To(p) /\ Id(q) = Id(p) => q \in SamePeer(p)
      BY DEF SamePeer
    <2>4. \A q, r \in Posts' : q # r /\ To(q) = To(r) /\ Id(q) = Id(r) =>
            <<To(q), Id(q)>> \in overlap'
      BY <2>1, <2>2, <2>3 DEF Noted
    <2>5. Posts' \subseteq DOMAIN pc
      BY <2>2
    <2> QED
      BY <1>1, <2>1, <2>4, <2>5 DEF Noted
  <1>7. ASSUME NEW p \in DOMAIN pc, Dial(p)
        PROVE  Noted' /\ overlap \subseteq overlap'
    BY <1>2, <1>7, DialDoes DEF Alone
  <1>8. ASSUME NEW p \in DOMAIN pc, Serve(p), pc[p] # "dial"
        PROVE  Noted' /\ overlap \subseteq overlap'
    BY <1>2, <1>8, ServeTouches DEF Touches, Alone
  <1>9. CASE UNCHANGED vars
    BY <1>2, <1>9 DEF vars
  <1> QED
    BY <1>3, <1>4, <1>5, <1>6, <1>7, <1>8, <1>9
       DEF Next, Serve, Compare, Hold, Take, Write, PlayOut, PlayedOut, Locked

-----------------------------------------------------------------------------
At(s, L) == \E p \in Posts : at[p] = s /\ pc[p] \in L

(* A connection that never had two posts at a time: what was written is in *)
(* order, rn counts it, and a post knows how far it is.                    *)
Stream(s) ==
  /\ \A i \in DOMAIN ses[s].wrote : ses[s].wrote[i][2] = i
  /\ ses[s].open /\ ~At(s, {"write"}) => Len(ses[s].wrote) = ses[s].rn
  /\ \A p \in Posts : at[p] = s =>
       /\ pc[p] = "take" => p[2] = ses[s].rn + 1
       /\ pc[p] = "hold" => p[2] # ses[s].rn + 1
       /\ pc[p] = "write" =>
            p[2] = ses[s].rn /\ (ses[s].open => Len(ses[s].wrote) = ses[s].rn - 1)
       /\ pc[p] \in {"lock", "play"} => next[p] = ses[s].rn + 1
  /\ ses[s].open /\ ~At(s, {"write", "lock", "play"}) =>
       \A q \in ses[s].buf : q[2] # ses[s].rn + 1

Streams == \A s \in DOMAIN ses : Ours(s) \notin overlap => Stream(s)

LEMMA OnePost ==
  ASSUME WellFormed, Noted, NEW p \in Posts, NEW q \in Posts,
         pc[p] # "dial", pc[q] # "dial", at[p] = at[q], Ours(at[p]) \notin overlap
  PROVE  p = q
  <1>1. Ours(at[p]) = <<To(p), Id(p)>> /\ Ours(at[q]) = <<To(q), Id(q)>>
    BY DEF WellFormed
  <1>2. To(p) = To(q) /\ Id(p) = Id(q)
    BY <1>1
  <1> QED
    BY <1>1, <1>2 DEF Noted

(* A session that a step does not concern *)
LEMMA StreamStays ==
  ASSUME NEW s \in DOMAIN ses, Stream(s),
         ses'[s].open = ses[s].open, ses'[s].rn = ses[s].rn,
         ses'[s].wrote = ses[s].wrote, ses'[s].buf = ses[s].buf,
         \A q \in Posts' :
           at'[q] = s /\ pc'[q] \in {"take", "hold", "write", "lock", "play"} =>
           \/ q \in Posts /\ at[q] = s /\ pc'[q] = pc[q] /\ next'[q] = next[q]
           \/ pc'[q] = "take" /\ q[2] = ses[s].rn + 1
           \/ pc'[q] = "hold" /\ q[2] # ses[s].rn + 1,
         \A q \in Posts :
           at[q] = s /\ pc[q] \in {"write", "lock", "play"} =>
           q \in Posts' /\ at'[q] = s /\ pc'[q] = pc[q]
  PROVE  Stream(s)'
  <1>1. /\ At(s, {"write"}) => At(s, {"write"})'
        /\ At(s, {"write", "lock", "play"}) => At(s, {"write", "lock", "play"})'
    BY DEF At
  <1>2. \A q \in Posts' : at'[q] = s =>
          /\ pc'[q] = "take" => q[2] = ses'[s].rn + 1
          /\ pc'[q] = "hold" => q[2] # ses'[s].rn + 1
          /\ pc'[q] = "write" =>
               q[2] = ses'[s].rn /\ (ses'[s].open => Len(ses'[s].wrote) = ses'[s].rn - 1)
          /\ pc'[q] \in {"lock", "play"} => next'[q] = ses'[s].rn + 1
    BY DEF Stream
  <1> QED
    BY <1>1, <1>2 DEF Stream

(* A session that has just been made *)
LEMMA StreamStarts ==
  ASSUME NEW s \in DOMAIN ses', ses'[s].rn = 0, ses'[s].wrote = << >>, ses'[s].buf = {},
         \A q \in Posts' : at'[q] = s => pc'[q] = "compare"
  PROVE  Stream(s)'
  BY DEF Stream, At

(* The session of the only post there is for it *)
AloneAt(p, s) ==
  /\ \A i \in DOMAIN ses[s].wrote : ses[s].wrote[i][2] = i
  /\ ses[s].open /\ pc[p] # "write" => Len(ses[s].wrote) = ses[s].rn
  /\ pc[p] = "take" => p[2] = ses[s].rn + 1
  /\ pc[p] = "hold" => p[2] # ses[s].rn + 1
  /\ pc[p] = "write" =>
       p[2] = ses[s].rn /\ (ses[s].open => Len(ses[s].wrote) = ses[s].rn - 1)
  /\ pc[p] \in {"lock", "play"} => next[p] = ses[s].rn + 1
  /\ ses[s].open /\ pc[p] \notin {"write", "lock", "play"} =>
       \A q \in ses[s].buf : q[2] # ses[s].rn + 1

LEMMA StreamAlone ==
  ASSUME NEW p \in Posts, Touches(p), NEW s \in DOMAIN ses, s = at[p], pc'[p] # "dial",
         \A q \in Posts : at[q] = s /\ pc[q] # "dial" => q = p,
         AloneAt(p, s)'
  PROVE  Stream(s)'
  <1>1. \A q \in Posts' : at'[q] = s /\ pc'[q] # "dial" => q = p
    BY DEF Touches, Alone, Posts
  <1>2. /\ pc'[p] = "write" => At(s, {"write"})'
        /\ pc'[p] \in {"write", "lock", "play"} => At(s, {"write", "lock", "play"})'
    <2>1. pc'[p] \in {"write", "lock", "play"} => p \in Posts' /\ at'[p] = s
      BY DEF Touches, Alone, Posts, Busy
    <2> QED
      BY <2>1 DEF At
  <1>3. \A q \in Posts' : at'[q] = s =>
          /\ pc'[q] = "take" => q[2] = ses'[s].rn + 1
          /\ pc'[q] = "hold" => q[2] # ses'[s].rn + 1
          /\ pc'[q] = "write" =>
               q[2] = ses'[s].rn /\ (ses'[s].open => Len(ses'[s].wrote) = ses'[s].rn - 1)
          /\ pc'[q] \in {"lock", "play"} => next'[q] = ses'[s].rn + 1
    BY <1>1 DEF AloneAt
  <1> QED
    BY <1>2, <1>3 DEF Stream, AloneAt

LEMMA AppendCounts ==
  ASSUME NEW w \in Seq(Packets), NEW r \in Packets, r[2] = Len(w) + 1,
         \A i \in DOMAIN w : w[i][2] = i
  PROVE  /\ \A i \in DOMAIN Append(w, r) : Append(w, r)[i][2] = i
         /\ Len(Append(w, r)) = Len(w) + 1
  BY AppendProperties

(* The steps of that post *)
LEMMA ServeStream ==
  ASSUME SocketTypeOK, WellFormed, NEW p \in DOMAIN pc, Serve(p), pc[p] # "dial",
         NEW s \in DOMAIN ses, s = at[p], Stream(s),
         \A q \in Posts : at[q] = s /\ pc[q] # "dial" => q = p
  PROVE  Stream(s)'
  <1>1. /\ Touches(p) /\ p \in Posts /\ pc[p] \in Busy
        /\ ses[s].rn \in Nat /\ ses[s].wrote \in Seq(Packets)
        /\ p \in Packets /\ p[2] \in Nat \ {0} /\ next[p] \in Nat
    BY ServeTouches, PostHasSession, PacketTyped DEF Posts, Busy
  <1>2. At(s, {"write"}) => pc[p] = "write"
    BY DEF At
  <1>3. At(s, {"write", "lock", "play"}) => pc[p] \in {"write", "lock", "play"}
    BY DEF At
  <1>4. CASE Compare(p)
    <2>1. /\ pc[p] = "compare" /\ ses' = ses
          /\ \/ pc'[p] = "take" /\ p[2] = ses[s].rn + 1
             \/ pc'[p] = "hold" /\ p[2] # ses[s].rn + 1
      BY <1>4, CompareDoes
    <2>2. ses[s].open => /\ Len(ses[s].wrote) = ses[s].rn
                         /\ \A q \in ses[s].buf : q[2] # ses[s].rn + 1
      BY <1>2, <1>3, <2>1 DEF Stream
    <2>3. \A i \in DOMAIN ses'[s].wrote : ses'[s].wrote[i][2] = i
      BY <2>1 DEF Stream
    <2>4. AloneAt(p, s)'
      BY <1>1, <2>1, <2>2, <2>3 DEF AloneAt
    <2> QED
      BY <1>1, <2>1, <2>4, StreamAlone
  <1>5. CASE Hold(p)
    <2>1. /\ pc[p] = "hold" /\ pc'[p] = "done"
          /\ ses'[s].open = ses[s].open /\ ses'[s].rn = ses[s].rn
          /\ ses'[s].wrote = ses[s].wrote
          /\ ses'[s].buf \subseteq ses[s].buf \cup {p}
      BY <1>5, HoldDoes
    <2>2. p[2] # ses[s].rn + 1
      BY <1>1, <2>1 DEF Stream
    <2>3. ses[s].open => /\ Len(ses[s].wrote) = ses[s].rn
                         /\ \A q \in ses[s].buf : q[2] # ses[s].rn + 1
      BY <1>2, <1>3, <2>1 DEF Stream
    <2>4. \A i \in DOMAIN ses'[s].wrote : ses'[s].wrote[i][2] = i
      BY <2>1 DEF Stream
    <2>5. AloneAt(p, s)'
      BY <1>1, <2>1, <2>2, <2>3, <2>4 DEF AloneAt
    <2> QED
      BY <1>1, <2>1, <2>5, StreamAlone
  <1>6. CASE Take(p)
    <2>1. /\ pc[p] = "take" /\ pc'[p] = "write"
          /\ ses'[s].open = ses[s].open /\ ses'[s].rn = p[2]
          /\ ses'[s].wrote = ses[s].wrote
      BY <1>6, TakeDoes
    <2>2. p[2] = ses[s].rn + 1
      BY <1>1, <2>1 DEF Stream
    <2>3. ses[s].open => Len(ses[s].wrote) = ses[s].rn
      BY <1>2, <2>1 DEF Stream
    <2>4. \A i \in DOMAIN ses'[s].wrote : ses'[s].wrote[i][2] = i
      BY <2>1 DEF Stream
    <2>5. AloneAt(p, s)'
      BY <1>1, <2>1, <2>2, <2>3, <2>4 DEF AloneAt
    <2> QED
      BY <1>1, <2>1, <2>5, StreamAlone
  <1>7. CASE Write(p)
    <2>1. /\ pc[p] = "write" /\ pc'[p] \in {"done", "lock"} /\ next' = next
          /\ ses'[s].open => ses[s].open /\ pc'[p] = "lock"
          /\ ses'[s].rn = ses[s].rn
          /\ ses'[s].wrote =
               IF ses[s].open THEN Append(ses[s].wrote, p) ELSE ses[s].wrote
      BY <1>7, WriteDoes
    <2>2. /\ p[2] = ses[s].rn /\ (ses[s].open => Len(ses[s].wrote) = ses[s].rn - 1)
          /\ next[p] = p[2] + 1
      BY <1>1, <2>1 DEF Stream, WellFormed
    <2>3. \A i \in DOMAIN ses[s].wrote : ses[s].wrote[i][2] = i
      BY DEF Stream
    <2>4. /\ \A i \in DOMAIN ses'[s].wrote : ses'[s].wrote[i][2] = i
          /\ ses'[s].open => Len(ses'[s].wrote) = ses'[s].rn
      <3>1. CASE ses[s].open
        <4>1. p[2] = Len(ses[s].wrote) + 1
          BY <1>1, <2>2, <3>1
        <4> QED
          BY <1>1, <2>1, <2>2, <2>3, <3>1, <4>1, AppendCounts
      <3>2. CASE ~ses[s].open
        BY <2>1, <2>3, <3>2
      <3> QED
        BY <3>1, <3>2
    <2>5. AloneAt(p, s)'
      BY <1>1, <2>1, <2>2, <2>4 DEF AloneAt
    <2> QED
      BY <1>1, <2>1, <2>5, StreamAlone
  <1>8. CASE PlayOut(p)
    <2>1. /\ pc[p] \in {"lock", "play"} /\ pc'[p] \in {"done", "play"}
          /\ next'[p] = next[p] + 1
          /\ ses'[s].open => ses[s].open /\ pc'[p] = "play"
      BY <1>8, PlayOutDoes
    <2>2. PICK r \in ses[s].buf :
            /\ r[2] = next[p] /\ ses'[s].rn = next[p]
            /\ ses'[s].wrote =
                 IF ses[s].open THEN Append(ses[s].wrote, r) ELSE ses[s].wrote
      BY <1>8, PlayOutDoes
    <2>3. next[p] = ses[s].rn + 1 /\ (ses[s].open => Len(ses[s].wrote) = ses[s].rn)
      BY <1>1, <1>2, <2>1 DEF Stream
    <2>4. \A i \in DOMAIN ses[s].wrote : ses[s].wrote[i][2] = i
      BY DEF Stream
    <2>5. r \in Packets
      BY <1>1, PostHasSession
    <2>6. /\ \A i \in DOMAIN ses'[s].wrote : ses'[s].wrote[i][2] = i
          /\ ses'[s].open => Len(ses'[s].wrote) = ses'[s].rn
      <3>1. CASE ses[s].open
        <4>1. r[2] = Len(ses[s].wrote) + 1
          BY <2>2, <2>3, <3>1
        <4> QED
          BY <1>1, <2>2, <2>3, <2>4, <2>5, <3>1, <4>1, AppendCounts
      <3>2. CASE ~ses[s].open
        BY <2>1, <2>2, <2>4, <3>2
      <3> QED
        BY <3>1, <3>2
    <2>7. AloneAt(p, s)'
      BY <1>1, <2>1, <2>2, <2>3, <2>6 DEF AloneAt
    <2> QED
      BY <1>1, <2>1, <2>7, StreamAlone
  <1>9. CASE PlayedOut(p)
    <2>1. /\ pc[p] \in {"lock", "play"} /\ pc'[p] = "done" /\ ses' = ses
          /\ \A q \in ses[s].buf : q[2] # next[p]
      BY <1>9, PlayedOutDoes
    <2>2. next[p] = ses[s].rn + 1 /\ (ses[s].open => Len(ses[s].wrote) = ses[s].rn)
      BY <1>1, <1>2, <2>1 DEF Stream
    <2>3. \A i \in DOMAIN ses'[s].wrote : ses'[s].wrote[i][2] = i
      BY <2>1 DEF Stream
    <2>4. AloneAt(p, s)'
      BY <1>1, <2>1, <2>2, <2>3 DEF AloneAt
    <2> QED
      BY <1>1, <2>1, <2>4, StreamAlone
  <1> QED
    BY <1>4, <1>5, <1>6, <1>7, <1>8, <1>9 DEF Serve, Dial

(* ... and the steps that do not concern it *)
LEMMA StepStreams ==
  ASSUME SocketTypeOK, WellFormed, Noted, Streams, [Next]_vars
  PROVE  Streams'
  <1> USE DEF Posts, Busy
  <1>1. /\ overlap \subseteq overlap' /\ PeersStay
        /\ \A t \in DOMAIN ses : Ours(t)' = Ours(t)
    BY StepNoted, StepWellFormed, PeersSame
  <1>2. \A t \in DOMAIN ses : Ours(t)' \notin overlap' => Ours(t) \notin overlap /\ Stream(t)
    BY <1>1 DEF Streams
  <1>3. Len(ses) \in Nat /\ DOMAIN ses = 1 .. Len(ses)
    BY SessionsTyped
  <1>4. PICK n \in Nat : n = Len(ses) + 1
    BY <1>3
  <1>5. n \notin DOMAIN ses /\ \A q \in DOMAIN pc : at[q] # n
    BY <1>3, <1>4, PacketTyped
  <1>6. ASSUME NEW i \in Ids, Accept(i)
        PROVE  Streams'
    <2>1. /\ ses' = NewSession("SRC", i) /\ "SRC" \in Ends
          /\ pc' = pc /\ at' = at /\ next' = next
      BY <1>6, AcceptDoes DEF Ends
    <2>2. /\ DOMAIN ses' = DOMAIN ses \cup {n}
          /\ \A t \in DOMAIN ses : ses'[t] = ses[t]
          /\ ses'[n].rn = 0 /\ ses'[n].wrote = << >> /\ ses'[n].buf = {}
      BY <1>4, <2>1, Grown
    <2>3. Stream(n)'
      BY <1>5, <2>1, <2>2, StreamStarts
    <2>4. \A t \in DOMAIN ses : Ours(t)' \notin overlap' => Stream(t)'
      BY <1>2, <2>1, <2>2, StreamStays
    <2> QED
      BY <2>2, <2>3, <2>4 DEF Streams
  <1>7. ASSUME NEW s \in DOMAIN ses, Enter(s)
        PROVE  Streams'
    <2>1. /\ DOMAIN ses' = DOMAIN ses
          /\ \A t \in DOMAIN ses :
               /\ ses'[t].open = ses[t].open /\ ses'[t].rn = ses[t].rn
               /\ ses'[t].wrote = ses[t].wrote /\ ses'[t].buf = ses[t].buf
          /\ pc' = pc /\ at' = at /\ next' = next
      BY <1>7, EnterDoes DEF SameFor
    <2>2. \A t \in DOMAIN ses : Ours(t)' \notin overlap' => Stream(t)'
      BY <1>2, <2>1, StreamStays
    <2> QED
      BY <2>1, <2>2 DEF Streams
  <1>8. ASSUME NEW s \in DOMAIN ses, Read(s)
        PROVE  Streams'
    <2> DEFINE p == <<s, ses[s].tn + 1>>
    <2>1. /\ DOMAIN ses' = DOMAIN ses
          /\ \A t \in DOMAIN ses :
               /\ ses'[t].open = ses[t].open /\ ses'[t].rn = ses[t].rn
               /\ ses'[t].wrote = ses[t].wrote /\ ses'[t].buf = ses[t].buf
          /\ DOMAIN pc' = DOMAIN pc \cup {p} /\ pc'[p] = "net"
          /\ \A q \in DOMAIN pc \ {p} :
               pc'[q] = pc[q] /\ at'[q] = at[q] /\ next'[q] = next[q]
      BY <1>8, ReadDoes
    <2>2. p \notin DOMAIN pc
      BY SessionsTyped DEF WellFormed, Session
    <2>3. \A t \in DOMAIN ses : Ours(t)' \notin overlap' => Stream(t)'
      BY <1>2, <2>1, <2>2, StreamStays
    <2> QED
      BY <2>1, <2>3 DEF Streams
  <1>9. ASSUME NEW p \in DOMAIN pc, Lookup(p)
        PROVE  Streams'
    <2>1. /\ Alone(p) /\ ses' = ses /\ pc[p] = "net"
          /\ pc'[p] \in {"compare", "dial", "refused"}
      BY <1>9, LookupDoes
    <2>2. \A t \in DOMAIN ses : Ours(t)' \notin overlap' => Stream(t)'
      BY <1>2, <2>1, StreamStays DEF Alone
    <2> QED
      BY <2>1, <2>2 DEF Streams
  <1>10. ASSUME NEW p \in DOMAIN pc, Dial(p)
         PROVE  Streams'
    <2>1. Alone(p) /\ pc[p] = "dial" /\ pc'[p] \in {"compare", "refused"}
      BY <1>10, DialDoes
    <2>2. CASE ses' = ses
      <3>1. \A t \in DOMAIN ses : Ours(t)' \notin overlap' => Stream(t)'
        BY <1>2, <2>1, <2>2, StreamStays DEF Alone
      <3> QED
        BY <2>2, <3>1 DEF Streams
    <2>3. CASE ses' = NewSession("DST", Id(p)) /\ Id(p) \in Ids /\ pc'[p] = "compare"
      <3>1. "DST" \in Ends
        BY DEF Ends
      <3>2. /\ DOMAIN ses' = DOMAIN ses \cup {n}
            /\ \A t \in DOMAIN ses : ses'[t] = ses[t]
            /\ ses'[n].rn = 0 /\ ses'[n].wrote = << >> /\ ses'[n].buf = {}
        BY <1>4, <2>3, <3>1, Grown
      <3>3. \A q \in Posts' : at'[q] = n => pc'[q] = "compare"
        BY <1>5, <2>1, <2>3 DEF Alone
      <3>4. Stream(n)'
        BY <3>2, <3>3, StreamStarts
      <3>5. \A t \in DOMAIN ses : Ours(t)' \notin overlap' => Stream(t)'
        BY <1>2, <2>1, <2>3, <3>2, StreamStays DEF Alone
      <3> QED
        BY <3>2, <3>4, <3>5 DEF Streams
    <2> QED
      BY <1>10, <2>2, <2>3, DialDoes
  <1>11. ASSUME NEW p \in DOMAIN pc, Serve(p), pc[p] # "dial"
         PROVE  Streams'
    <2>1. Touches(p) /\ p \in Posts /\ at[p] \in DOMAIN ses
      BY <1>11, ServeTouches DEF Touches
    <2>2. ASSUME NEW t \in DOMAIN ses, Ours(t)' \notin overlap'
          PROVE  Stream(t)'
      <3>1. Ours(t) \notin overlap /\ Stream(t)
        BY <1>2, <2>2
      <3>2. CASE t = at[p]
        <4>1. \A q \in Posts : at[q] = t /\ pc[q] # "dial" => q = p
          BY <1>11, <2>1, <3>1, <3>2, OnePost
        <4> QED
          BY <1>11, <3>1, <3>2, <4>1, ServeStream
      <3>3. CASE t # at[p]
        BY <2>1, <3>1, <3>3, StreamStays DEF Touches, Alone
      <3> QED
        BY <3>2, <3>3
    <2> QED
      BY <2>1, <2>2 DEF Streams, Touches
  <1>12. CASE UNCHANGED vars
    <2>1. \A t \in DOMAIN ses : Ours(t)' \notin overlap' => Stream(t)'
      BY <1>2, <1>12, StreamStays DEF vars
    <2> QED
      BY <1>12, <2>1 DEF Streams, vars
  <1> QED
    BY <1>6, <1>7, <1>8, <1>9, <1>10, <1>11, <1>12
       DEF Next, Serve, Compare, Hold, Take, Write, PlayOut, PlayedOut, Locked

-----------------------------------------------------------------------------
IInv == SocketTypeOK /\ WellFormed /\ Noted /\ Coverage /\ Streams

LEMMA InvHolds == Spec => []IInv
  <1>1. Init => IInv
    <2> SUFFICES ASSUME Init PROVE IInv
      OBVIOUS
    <2>1. SocketTypeOK
      <3>1. Len(ses) = 0 /\ ses \in Seq(Session) /\ DOMAIN pc = {} /\ 0 \in 0 .. Len(ses)
        BY DEF Init
      <3> QED
        BY <3>1, SocketAssumption DEF Init, SocketTypeOK
    <2>2. DOMAIN ses = {} /\ DOMAIN pc = {}
      BY DEF Init
    <2>3. Posts = {}
      BY <2>2 DEF Posts
    <2> QED
      BY <2>1, <2>2, <2>3 DEF IInv, Init, WellFormed, Noted, Coverage, Streams
  <1>2. IInv /\ [Next]_vars => IInv'
    BY StepWellFormed, StepNoted, StepCoverage, StepStreams DEF IInv
  <1> QED
    BY <1>1, <1>2, PTL DEF Spec

(* Sessions, the map, packets and posts have their types for any number of *)
(* clients, packets and posts (socketId, the buffer and the numbers of     *)
(* ff-socket).                                                             *)
THEOREM TunnelTypes == Spec => []SocketTypeOK
  <1>1. IInv => SocketTypeOK
    BY DEF IInv
  <1> QED
    BY <1>1, InvHolds, PTL

(* However posts for a connection race, between the comparison of the      *)
(* number and the play-out of the buffer, none is counted as received that *)
(* is not written to the connection nor about to be.                       *)
THEOREM NoNumberSkipped == Spec => []NothingSkipped
  <1>1. IInv => NothingSkipped
    BY DEF IInv, Coverage, UpTo, Covered, NothingSkipped
  <1> QED
    BY <1>1, InvHolds, PTL

(* While its posts come one at a time, a connection is written its packets *)
(* from the first on, in order and without a gap, whatever order they      *)
(* arrive in and however many are lost.                                    *)
THEOREM StreamInOrder == Spec => []InOrder
  <1>1. IInv => InOrder
    BY DEF IInv, Streams, Stream, InOrder, Simple
  <1> QED
    BY <1>1, InvHolds, PTL

(* ... and when no post works on it, the packet whose turn it is does not  *)
(* wait in its buffer.                                                     *)
THEOREM NoneStranded == Spec => []NothingStranded
  <1>1. IInv => NothingStranded
    BY DEF IInv, Streams, Stream, NothingStranded, Simple, At
  <1> QED
    BY <1>1, InvHolds, PTL
=============================================================================
