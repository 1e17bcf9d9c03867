-------------------------- MODULE SocketPeersProofs --------------------------
(***************************************************************************)
(* What one end of SocketTunnel may conclude about the other, for any      *)
(* number of clients, sessions, packets and posts at a time: a connection  *)
(* is closed only after all that was sent ahead of the EOF, and a client   *)
(* whose posts come one at a time has one connection to the target.        *)
(***************************************************************************)
EXTENDS SocketProofs, FiniteSetTheorems

(* Whom a packet is for. *)
For(p) == <<To(p), Id(p)>>

(* A client has one session, at "SRC", however often its loop has ended.   *)
OneSource ==
  \A s, t \in DOMAIN ses :
    ses[s].end = "SRC" /\ ses[t].end = "SRC" /\ ses[s].id = ses[t].id => s = t

(* What waits in a buffer was looked up, and is for this session's peer.   *)
BufFits ==
  \A s \in DOMAIN ses : \A q \in ses[s].buf :
    q \in DOMAIN pc /\ pc[q] = "done" /\ For(q) = Ours(s)

(* What closes a connection is the last packet of a loop that has ended.   *)
ClosedByEof ==
  \A s \in DOMAIN ses : Ours(s) \notin overlap /\ ~ses[s].open =>
    \E f \in Senders(s) : ~ses[f].reading /\ Len(ses[s].wrote) = ses[f].tn

(* A session at the target whose posts came one at a time *)
Fresh(s) == ses[s].end = "DST" /\ Ours(s) \notin overlap

(* Of all numbers that it has counted the packet was looked up.            *)
PassedOn ==
  \A s \in DOMAIN ses : Fresh(s) => \A n \in 1 .. ses[s].rn :
    \E p \in DOMAIN pc :
      For(p) = Ours(s) /\ p[2] = n /\ pc[p] \notin {"net", "dial"}

(* Until it is in the map, the post that made it waits.                    *)
Entered ==
  \A s \in DOMAIN ses : Fresh(s) /\ ses[s].entering =>
    \E p \in Posts : at[p] = s /\ pc[p] = "compare"

(* Nothing will be looked up any more for the peer of s.                   *)
Finished(s) ==
  \E f \in Senders(s) :
    /\ ~ses[f].reading
    /\ \A p \in DOMAIN pc : p[1] = f => pc[p] \notin {"net", "dial"}

(* From then on it is found in the map, as long as anybody looks.          *)
InMap ==
  \A s \in DOMAIN ses : Fresh(s) /\ ses[s].reading /\ ~ses[s].entering =>
    socketMap["DST"][ses[s].id] = s \/ Finished(s)

(* A post that makes a session does so when no other reads ...             *)
NoneToDial ==
  \A p \in Posts : pc[p] = "dial" /\ For(p) \notin overlap =>
    \A s \in DOMAIN ses : Ours(s) = For(p) => ~ses[s].reading

(* ... so that a session that reads is alone with its peer.                *)
OneReads ==
  \A s, t \in DOMAIN ses :
    s # t /\ Fresh(s) /\ Ours(s) = Ours(t) /\ ses[t].reading =>
      ~ses[s].reading /\ ~ses[s].entering

-----------------------------------------------------------------------------
(* What no step takes back. *)
Onward ==
  /\ PeersStay /\ overlap \subseteq overlap' /\ DOMAIN pc \subseteq DOMAIN pc'
  /\ \A t \in DOMAIN ses :
       /\ ses'[t].reading => ses[t].reading
       /\ ses'[t].entering => ses[t].entering
       /\ ses'[t].open => ses[t].open
       /\ ~ses[t].reading => ses'[t].tn = ses[t].tn
       /\ ~ses[t].open => ses'[t].wrote = ses[t].wrote
  /\ \A p \in DOMAIN pc :
       /\ pc[p] = "done" => pc'[p] = "done"
       /\ pc'[p] \in {"net", "dial"} => pc[p] \in {"net", "dial"}
  /\ \A p \in DOMAIN pc' \ DOMAIN pc : p[1] \in DOMAIN ses /\ ses[p[1]].reading

LEMMA ServeOnward ==
  ASSUME SocketTypeOK, WellFormed, NEW p \in DOMAIN pc, Serve(p), pc[p] # "dial"
  PROVE  Onward
  <1>1. Touches(p) /\ p \in Posts
    BY ServeTouches
  <1>2. pc[p] # "done" /\ pc'[p] \notin {"net", "dial"}
        /\ (ses'[at[p]].open => ses[at[p]].open)
        /\ (~ses[at[p]].open => ses'[at[p]].wrote = ses[at[p]].wrote)
    <2>1. CASE Compare(p)
      BY <2>1, CompareDoes
    <2>2. CASE Hold(p)
      BY <2>2, HoldDoes
    <2>3. CASE Take(p)
      BY <2>3, TakeDoes
    <2>4. CASE Write(p)
      BY <2>4, WriteDoes
    <2>5. CASE PlayOut(p)
      <3>1. /\ pc[p] \in {"lock", "play"} /\ pc'[p] \in {"done", "play"}
            /\ ses'[at[p]].open => ses[at[p]].open
        BY <2>5, PlayOutDoes
      <3>2. ~ses[at[p]].open => ses'[at[p]].wrote = ses[at[p]].wrote
        BY <2>5, PlayOutDoes
      <3> QED
        BY <3>1, <3>2
    <2>6. CASE PlayedOut(p)
      BY <2>6, PlayedOutDoes
    <2> QED
      BY <2>1, <2>2, <2>3, <2>4, <2>5, <2>6 DEF Serve, Dial
  <1>3. PeersStay /\ overlap \subseteq overlap' /\ DOMAIN pc' = DOMAIN pc
    BY <1>1 DEF Touches, Alone, PeersStay
  <1>4. \A t \in DOMAIN ses :
          /\ ses'[t].reading => ses[t].reading
          /\ ses'[t].entering => ses[t].entering
          /\ ses'[t].open => ses[t].open
          /\ ~ses[t].reading => ses'[t].tn = ses[t].tn
          /\ ~ses[t].open => ses'[t].wrote = ses[t].wrote
    BY <1>1, <1>2 DEF Touches
  <1>5. \A q \in DOMAIN pc :
          /\ pc[q] = "done" => pc'[q] = "done"
          /\ pc'[q] \in {"net", "dial"} => pc[q] \in {"net", "dial"}
    BY <1>1, <1>2 DEF Touches, Alone
  <1> QED
    BY <1>3, <1>4, <1>5 DEF Onward

LEMMA StepOnward ==
  ASSUME SocketTypeOK, WellFormed, Noted, [Next]_vars
  PROVE  Onward
  <1>1. PeersStay /\ overlap \subseteq overlap'
    BY StepWellFormed, StepNoted
  <1>2. ASSUME ses' = ses \/ \E e \in Ends, i \in Ids : ses' = NewSession(e, i),
               DOMAIN pc' = DOMAIN pc,
               \A p \in DOMAIN pc :
                 \/ pc'[p] = pc[p]
                 \/ pc[p] # "done" /\ pc'[p] # "net"
                    /\ (pc'[p] = "dial" => pc[p] = "net")
        PROVE  Onward
    <2>1. \A t \in DOMAIN ses : ses'[t] = ses[t]
      BY <1>2, Grown
    <2> QED
      BY <1>1, <1>2, <2>1 DEF Onward
  <1>3. ASSUME NEW i \in Ids, Accept(i)
        PROVE  Onward
    <2>1. "SRC" \in Ends
      BY DEF Ends
    <2> QED
      BY <1>2, <1>3, <2>1, AcceptDoes
  <1>4. ASSUME NEW s \in DOMAIN ses, Enter(s)
        PROVE  Onward
    <2>1. /\ pc' = pc
          /\ \A t \in DOMAIN ses :
               /\ SameFor(t) /\ ses'[t].reading = ses[t].reading
               /\ ses'[t].entering = (ses[t].entering /\ t # s)
      BY <1>4, EnterDoes
    <2> QED
      BY <1>1, <2>1 DEF Onward, SameFor
  <1>5. ASSUME NEW s \in DOMAIN ses, Read(s)
        PROVE  Onward
    <2> DEFINE p == <<s, ses[s].tn + 1>>
    <2>1. /\ \A t \in DOMAIN ses :
               /\ ses'[t].open = ses[t].open /\ ses'[t].wrote = ses[t].wrote
               /\ t # s => ses'[t].tn = ses[t].tn
          /\ DOMAIN pc' = DOMAIN pc \cup {p} /\ pc'[p] = "net"
          /\ \A q \in DOMAIN pc \ {p} : pc'[q] = pc[q]
      BY <1>5, ReadDoes
    <2>2. /\ ses[s].reading
          /\ \A t \in DOMAIN ses :
               ses'[t].entering = ses[t].entering
               /\ (t # s => ses'[t].reading = ses[t].reading)
      BY <1>5, ReadEnds
    <2>3. p \notin DOMAIN pc /\ p[1] = s
      BY SessionsTyped DEF WellFormed, Session
    <2> HIDE DEF p
    <2> QED
      BY <1>1, <2>1, <2>2, <2>3 DEF Onward
  <1>6. ASSUME NEW p \in DOMAIN pc, Lookup(p)
        PROVE  Onward
    <2>1. /\ Alone(p) /\ ses' = ses /\ pc[p] = "net"
          /\ pc'[p] \in {"compare", "dial", "refused"}
      BY <1>6, LookupDoes
    <2> QED
      BY <1>2, <2>1 DEF Alone
  <1>7. ASSUME NEW p \in DOMAIN pc, Dial(p)
        PROVE  Onward
    <2>1. /\ Alone(p) /\ pc[p] = "dial" /\ pc'[p] \in {"compare", "refused"}
          /\ ses' = ses \/ (ses' = NewSession("DST", Id(p)) /\ Id(p) \in Ids)
      BY <1>7, DialDoes
    <2>2. "DST" \in Ends
      BY DEF Ends
    <2> QED
      BY <1>2, <2>1, <2>2 DEF Alone
  <1>8. ASSUME NEW p \in DOMAIN pc, Serve(p), pc[p] # "dial"
        PROVE  Onward
    BY <1>8, ServeOnward
  <1>9. CASE UNCHANGED vars
    BY <1>2, <1>9 DEF vars
  <1> QED
    BY <1>3, <1>4, <1>5, <1>6, <1>7, <1>8, <1>9
       DEF Next, Serve, Compare, Hold, Take, Write, PlayOut, PlayedOut, Locked

LEMMA Lasting ==
  ASSUME SocketTypeOK, WellFormed, Onward
  PROVE  /\ \A p \in DOMAIN pc : For(p)' = For(p)
         /\ \A s \in DOMAIN ses :
              /\ Ours(s)' = Ours(s) /\ Senders(s) \subseteq Senders(s)'
              /\ Fresh(s)' => Fresh(s)
              /\ Finished(s) => Finished(s)'
  <1>1. PeersStay
    BY DEF Onward
  <1>2. /\ \A p \in DOMAIN pc : To(p)' = To(p) /\ Id(p)' = Id(p)
        /\ \A s \in DOMAIN ses : Ours(s)' = Ours(s)
    BY <1>1, PeersSame
  <1>3. \A s \in DOMAIN ses : Senders(s) \subseteq Senders(s)'
    BY <1>1 DEF PeersStay, Senders
  <1>4. \A s \in DOMAIN ses : Fresh(s)' => Fresh(s)
    BY <1>1, <1>2 DEF PeersStay, Fresh, Onward
  <1>5. ASSUME NEW s \in DOMAIN ses, Finished(s)
        PROVE  Finished(s)'
    <2>1. PICK f \in Senders(s) :
            /\ ~ses[f].reading
            /\ \A p \in DOMAIN pc : p[1] = f => pc[p] \notin {"net", "dial"}
      BY <1>5 DEF Finished
    <2>2. f \in DOMAIN ses /\ f \in Senders(s)'
      BY <1>3 DEF Senders
    <2>3. ~ses'[f].reading
      BY <2>1, <2>2 DEF Onward
    <2>4. \A p \in DOMAIN pc' : p[1] = f => pc'[p] \notin {"net", "dial"}
      BY <2>1, <2>2 DEF Onward
    <2> QED
      BY <2>2, <2>3, <2>4 DEF Finished
  <1> QED
    BY <1>2, <1>3, <1>4, <1>5 DEF For

(* Two packets of one number for one peer at the target are one packet.    *)
LEMMA OnePacket ==
  ASSUME SocketTypeOK, WellFormed, OneSource, NEW p \in DOMAIN pc, NEW q \in DOMAIN pc,
         For(p) = For(q), To(p) = "DST"
  PROVE  p[1] = q[1] /\ (p[2] = q[2] => p = q)
  <1>1. /\ p[1] \in DOMAIN ses /\ q[1] \in DOMAIN ses
        /\ p = <<p[1], p[2]>> /\ q = <<q[1], q[2]>>
    BY PacketTyped DEF WellFormed
  <1>2. ses[p[1]].end \in Ends /\ ses[q[1]].end \in Ends
    BY <1>1, SessionsTyped DEF Session
  <1>3. ses[p[1]].end = "SRC" /\ ses[q[1]].end = "SRC" /\ ses[p[1]].id = ses[q[1]].id
    BY <1>2 DEF For, To, Id, Other, Ends
  <1>4. p[1] = q[1]
    BY <1>1, <1>3 DEF OneSource
  <1> QED
    BY <1>1, <1>4

(* The session that sent a packet is a sender of whom it is for.           *)
LEMMA SenderOf ==
  ASSUME SocketTypeOK, WellFormed, NEW p \in DOMAIN pc, NEW s \in DOMAIN ses,
         For(p) = Ours(s)
  PROVE  p[1] \in Senders(s)
  <1>1. p[1] \in DOMAIN ses
    BY DEF WellFormed
  <1>2. ses[p[1]].end \in Ends
    BY <1>1, SessionsTyped DEF Session
  <1> QED
    BY <1>1, <1>2 DEF For, To, Id, Other, Ends, Ours, Senders

-----------------------------------------------------------------------------
(* The steps that make a session, and the others *)
LEMMA NewOrOld ==
  ASSUME SocketTypeOK, WellFormed, [Next]_vars
  PROVE  \/ DOMAIN ses' = DOMAIN ses
         \/ \E i \in Ids : Accept(i)
         \/ \E p \in DOMAIN pc : Dial(p) /\ ses' = NewSession("DST", Id(p)) /\ Id(p) \in Ids
  <1>1. ASSUME NEW s \in DOMAIN ses, Enter(s)
        PROVE  DOMAIN ses' = DOMAIN ses
    BY <1>1, EnterDoes
  <1>2. ASSUME NEW s \in DOMAIN ses, Read(s)
        PROVE  DOMAIN ses' = DOMAIN ses
    BY <1>2, ReadDoes
  <1>3. ASSUME NEW p \in DOMAIN pc, Lookup(p)
        PROVE  DOMAIN ses' = DOMAIN ses
    BY <1>3, LookupDoes
  <1>4. ASSUME NEW p \in DOMAIN pc, Dial(p)
        PROVE  \/ DOMAIN ses' = DOMAIN ses
               \/ ses' = NewSession("DST", Id(p)) /\ Id(p) \in Ids
    BY <1>4, DialDoes
  <1>5. ASSUME NEW p \in DOMAIN pc, Serve(p), pc[p] # "dial"
        PROVE  DOMAIN ses' = DOMAIN ses
    BY <1>5, ServeTouches DEF Touches
  <1>6. CASE UNCHANGED vars
    BY <1>6 DEF vars
  <1> QED
    BY <1>1, <1>2, <1>3, <1>4, <1>5, <1>6
       DEF Next, Serve, Compare, Hold, Take, Write, PlayOut, PlayedOut, Locked

(* ... and what it is made with *)
LEMMA NewSessionIs ==
  ASSUME SocketTypeOK, WellFormed, [Next]_vars, NEW s \in DOMAIN ses' \ DOMAIN ses
  PROVE  /\ s = Len(ses) + 1 /\ DOMAIN ses' = DOMAIN ses \cup {s}
         /\ ses'[s].rn = 0 /\ ses'[s].buf = {} /\ ses'[s].open /\ ses'[s].entering
         /\ \A t \in DOMAIN ses : ses'[t] = ses[t]
         /\ \/ \E i \in Ids : Accept(i) /\ ses'[s].end = "SRC" /\ ses'[s].id = i
            \/ \E p \in DOMAIN pc : Dial(p) /\ ses'[s].end = "DST" /\ ses'[s].id = Id(p)
                                    /\ ses' = NewSession("DST", Id(p)) /\ Id(p) \in Ids
  <1>1. "SRC" \in Ends /\ "DST" \in Ends
    BY DEF Ends
  <1>2. CASE \E i \in Ids : Accept(i)
    <2>1. PICK i \in Ids : Accept(i)
      BY <1>2
    <2>2. ses' = NewSession("SRC", i)
      BY <2>1, AcceptDoes
    <2>3. /\ DOMAIN ses' = DOMAIN ses \cup {Len(ses) + 1}
          /\ \A t \in DOMAIN ses : ses'[t] = ses[t]
          /\ ses'[Len(ses) + 1].rn = 0 /\ ses'[Len(ses) + 1].buf = {}
          /\ ses'[Len(ses) + 1].open /\ ses'[Len(ses) + 1].entering
          /\ ses'[Len(ses) + 1].end = "SRC" /\ ses'[Len(ses) + 1].id = i
      BY <1>1, <2>2, Grown
    <2>4. s = Len(ses) + 1
      BY <2>3
    <2> QED
      BY <2>1, <2>3, <2>4
  <1>3. ASSUME NEW p \in DOMAIN pc, Dial(p), ses' = NewSession("DST", Id(p)), Id(p) \in Ids
        PROVE  /\ s = Len(ses) + 1 /\ DOMAIN ses' = DOMAIN ses \cup {s}
               /\ ses'[s].rn = 0 /\ ses'[s].buf = {} /\ ses'[s].open /\ ses'[s].entering
               /\ \A t \in DOMAIN ses : ses'[t] = ses[t]
               /\ ses'[s].end = "DST" /\ ses'[s].id = Id(p)
    <2>1. /\ DOMAIN ses' = DOMAIN ses \cup {Len(ses) + 1}
          /\ \A t \in DOMAIN ses : ses'[t] = ses[t]
          /\ ses'[Len(ses) + 1].rn = 0 /\ ses'[Len(ses) + 1].buf = {}
          /\ ses'[Len(ses) + 1].open /\ ses'[Len(ses) + 1].entering
          /\ ses'[Len(ses) + 1].end = "DST" /\ ses'[Len(ses) + 1].id = Id(p)
      BY <1>1, <1>3, Grown
    <2>2. s = Len(ses) + 1
      BY <2>1
    <2> QED
      BY <2>1, <2>2
  <1> QED
    BY <1>2, <1>3, NewOrOld

LEMMA StepOneSource ==
  ASSUME SocketTypeOK, WellFormed, Noted, OneSource, [Next]_vars
  PROVE  OneSource'
  <1>1. PeersStay
    BY StepWellFormed
  <1>2. \A s, t \in DOMAIN ses :
          ses'[s].end = "SRC" /\ ses'[t].end = "SRC" /\ ses'[s].id = ses'[t].id => s = t
    BY <1>1 DEF PeersStay, OneSource
  <1>3. ASSUME NEW s \in DOMAIN ses' \ DOMAIN ses, NEW t \in DOMAIN ses,
               ses'[s].end = "SRC", ses'[t].end = "SRC"
        PROVE  ses'[s].id # ses'[t].id
    <2>1. PICK i \in Ids : Accept(i) /\ ses'[s].id = i
      BY <1>3, NewSessionIs
    <2>2. ses[t].end = "SRC" => ses[t].id # i
      BY <2>1, AcceptDoes
    <2> QED
      BY <1>1, <1>3, <2>1, <2>2 DEF PeersStay
  <1>4. \A s, t \in DOMAIN ses' \ DOMAIN ses : s = t
    BY NewSessionIs
  <1> QED
    BY <1>2, <1>3, <1>4 DEF OneSource

LEMMA StepBufFits ==
  ASSUME SocketTypeOK, WellFormed, Noted, BufFits, [Next]_vars
  PROVE  BufFits'
  <1>1. Onward
    BY StepOnward
  <1>2. \A q \in DOMAIN pc : For(q)' = For(q)
    BY <1>1, Lasting
  <1>3. \A s \in DOMAIN ses : Ours(s)' = Ours(s)
    BY <1>1, Lasting
  <1>4. ASSUME NEW s \in DOMAIN ses, NEW q \in ses'[s].buf, q \in ses[s].buf
        PROVE  q \in DOMAIN pc' /\ pc'[q] = "done" /\ For(q)' = Ours(s)'
    <2>1. q \in DOMAIN pc /\ pc[q] = "done" /\ For(q) = Ours(s)
      BY <1>4 DEF BufFits
    <2> QED
      BY <1>1, <1>2, <1>3, <2>1 DEF Onward
  <1>5. ASSUME \A s \in DOMAIN ses : ses'[s].buf \subseteq ses[s].buf
        PROVE  BufFits'
    <2>1. \A s \in DOMAIN ses' \ DOMAIN ses : ses'[s].buf = {}
      BY NewSessionIs
    <2> QED
      BY <1>4, <1>5, <2>1 DEF BufFits
  <1>6. ASSUME NEW i \in Ids, Accept(i)
        PROVE  BufFits'
    BY <1>5, <1>6, AcceptDoes, Grown DEF Ends
  <1>7. ASSUME NEW s \in DOMAIN ses, Enter(s)
        PROVE  BufFits'
    BY <1>5, <1>7, EnterDoes DEF SameFor
  <1>8. ASSUME NEW s \in DOMAIN ses, Read(s)
        PROVE  BufFits'
    BY <1>5, <1>8, ReadDoes
  <1>9. ASSUME NEW p \in DOMAIN pc, Lookup(p)
        PROVE  BufFits'
    BY <1>5, <1>9, LookupDoes
  <1>10. ASSUME NEW p \in DOMAIN pc, Dial(p)
         PROVE  BufFits'
    BY <1>5, <1>10, DialDoes, Grown DEF Ends
  <1>11. ASSUME NEW p \in DOMAIN pc, Hold(p)
         PROVE  BufFits'
    <2>1. /\ Touches(p) /\ pc[p] = "hold" /\ pc'[p] = "done"
          /\ ses'[at[p]].buf \subseteq ses[at[p]].buf \cup {p}
      BY <1>11, HoldDoes
    <2>2. p \in Posts /\ For(p) = Ours(at[p])
      BY <2>1 DEF WellFormed, Posts, Busy, For
    <2>3. p \in DOMAIN pc' /\ at[p] \in DOMAIN ses /\ DOMAIN ses' = DOMAIN ses
          /\ \A t \in DOMAIN ses \ {at[p]} : ses'[t] = ses[t]
      BY <2>1 DEF Touches, Alone
    <2>4. For(p)' = Ours(at[p])' /\ at' = at
      BY <1>2, <1>3, <2>1, <2>2, <2>3 DEF Touches
    <2>5. ASSUME NEW s \in DOMAIN ses', NEW q \in ses'[s].buf
          PROVE  q \in DOMAIN pc' /\ pc'[q] = "done" /\ For(q)' = Ours(s)'
      <3>1. CASE q \in ses[s].buf
        BY <1>4, <2>3, <2>5, <3>1
      <3>2. CASE q \notin ses[s].buf
        <4>1. q = p /\ s = at[p]
          BY <2>1, <2>3, <2>5, <3>2
        <4> QED
          BY <1>2, <1>3, <2>1, <2>2, <2>3, <4>1
      <3> QED
        BY <3>1, <3>2
    <2> QED
      BY <2>5 DEF BufFits
  <1>12. ASSUME NEW p \in DOMAIN pc, Serve(p), pc[p] # "dial", ~Hold(p)
         PROVE  BufFits'
    <2>1. Touches(p)
      BY <1>12, ServeTouches
    <2>2. ses'[at[p]].buf \subseteq ses[at[p]].buf
      BY <1>12, CompareDoes, TakeDoes, WriteDoes, PlayOutDoes, PlayedOutDoes DEF Serve, Dial
    <2> QED
      BY <1>5, <2>1, <2>2 DEF Touches
  <1>13. CASE UNCHANGED vars
    BY <1>5, <1>13 DEF vars
  <1> QED
    BY <1>6, <1>7, <1>8, <1>9, <1>10, <1>11, <1>12, <1>13
       DEF Next, Serve, Compare, Hold, Take, Write, PlayOut, PlayedOut, Locked

(* The step that closes a connection *)
LEMMA CloseDoes ==
  ASSUME SocketTypeOK, WellFormed, Noted, Streams, BufFits,
         NEW p \in DOMAIN pc, Serve(p), pc[p] # "dial",
         NEW s \in DOMAIN ses, Ours(s) \notin overlap, ses[s].open, ~ses'[s].open
  PROVE  \E f \in Senders(s) : ~ses[f].reading /\ Len(ses'[s].wrote) = ses[f].tn
  <1>1. Touches(p) /\ p \in Posts /\ s = at[p]
    BY ServeTouches DEF Touches
  <1>2. Stream(s) /\ For(p) = Ours(s)
    BY <1>1 DEF Streams, WellFormed, For
  <1>3. \A q \in Posts : at[q] = s /\ pc[q] # "dial" => q = p
    BY <1>1, OnePost
  <1>4. ses[s].rn \in Nat /\ ses[s].wrote \in Seq(Packets) /\ p \in Packets
    BY <1>1, SessionsTyped, PacketTyped DEF Session
  <1>5. CASE Write(p)
    <2>1. /\ pc[p] = "write" /\ Eof(p)
          /\ ses'[s].wrote = Append(ses[s].wrote, p)
      BY <1>1, <1>5, WriteDoes
    <2>2. p[2] = ses[s].rn /\ Len(ses[s].wrote) = ses[s].rn - 1
      BY <1>1, <1>2, <2>1 DEF Stream
    <2>3. Len(ses'[s].wrote) = p[2]
      BY <1>4, <2>1, <2>2, AppendProperties
    <2>4. p[1] \in Senders(s)
      BY <1>2, SenderOf
    <2> QED
      BY <2>1, <2>3, <2>4 DEF Eof
  <1>6. CASE PlayOut(p)
    <2>1. pc[p] \in {"lock", "play"} /\ next[p] \in Nat
      BY <1>6, PlayOutDoes, PacketTyped
    <2>2. PICK q \in ses[s].buf :
            /\ q[2] = next[p] /\ Eof(q)
            /\ ses'[s].wrote = Append(ses[s].wrote, q)
      BY <1>1, <1>6, PlayOutDoes
    <2>3. ~At(s, {"write"})
      BY <1>3, <2>1 DEF At
    <2>4. next[p] = ses[s].rn + 1 /\ Len(ses[s].wrote) = ses[s].rn
      BY <1>1, <1>2, <2>1, <2>3 DEF Stream
    <2>5. q \in DOMAIN pc /\ For(q) = Ours(s)
      BY <2>2 DEF BufFits
    <2>6. q \in Packets /\ q[1] \in Senders(s)
      BY <2>5, PacketTyped, SenderOf
    <2>7. Len(ses'[s].wrote) = q[2]
      BY <1>4, <2>2, <2>4, <2>6, AppendProperties
    <2> QED
      BY <2>2, <2>6, <2>7 DEF Eof
  <1>7. CASE Compare(p) \/ Hold(p) \/ Take(p) \/ PlayedOut(p)
    BY <1>1, <1>7, CompareDoes, HoldDoes, TakeDoes, PlayedOutDoes
  <1> QED
    BY <1>5, <1>6, <1>7 DEF Serve, Dial

LEMMA StepClosedByEof ==
  ASSUME SocketTypeOK, WellFormed, Noted, Streams, BufFits, ClosedByEof, [Next]_vars
  PROVE  ClosedByEof'
  <1>1. Onward
    BY StepOnward
  <1>2. SUFFICES ASSUME NEW s \in DOMAIN ses', Ours(s)' \notin overlap', ~ses'[s].open
                 PROVE  \E f \in Senders(s)' :
                          ~ses'[f].reading /\ Len(ses'[s].wrote) = ses'[f].tn
    BY DEF ClosedByEof
  <1>3. s \in DOMAIN ses
    BY <1>2, NewSessionIs
  <1>4. Ours(s) \notin overlap /\ Senders(s) \subseteq Senders(s)'
    BY <1>1, <1>2, <1>3, Lasting DEF Onward
  <1>5. ASSUME NEW f \in Senders(s), ~ses[f].reading, Len(ses'[s].wrote) = ses[f].tn
        PROVE  \E g \in Senders(s)' :
                 ~ses'[g].reading /\ Len(ses'[s].wrote) = ses'[g].tn
    <2>1. f \in DOMAIN ses
      BY DEF Senders
    <2> QED
      BY <1>1, <1>4, <1>5, <2>1 DEF Onward
  <1>6. CASE ~ses[s].open
    <2>1. ses'[s].wrote = ses[s].wrote
      BY <1>1, <1>3, <1>6 DEF Onward
    <2>2. PICK f \in Senders(s) : ~ses[f].reading /\ Len(ses[s].wrote) = ses[f].tn
      BY <1>3, <1>4, <1>6 DEF ClosedByEof
    <2> QED
      BY <1>5, <2>1, <2>2
  <1>7. CASE ses[s].open
    <2>1. \E p \in DOMAIN pc : Serve(p) /\ pc[p] # "dial"
      <3>1. ASSUME NEW i \in Ids, Accept(i) PROVE FALSE
        BY <1>2, <1>3, <1>7, <3>1, AcceptDoes, Grown DEF Ends
      <3>2. ASSUME NEW t \in DOMAIN ses, Enter(t) PROVE FALSE
        BY <1>2, <1>3, <1>7, <3>2, EnterDoes DEF SameFor
      <3>3. ASSUME NEW t \in DOMAIN ses, Read(t) PROVE FALSE
        BY <1>2, <1>3, <1>7, <3>3, ReadDoes
      <3>4. ASSUME NEW p \in DOMAIN pc, Lookup(p) PROVE FALSE
        BY <1>2, <1>3, <1>7, <3>4, LookupDoes
      <3>5. ASSUME NEW p \in DOMAIN pc, Dial(p) PROVE FALSE
        BY <1>2, <1>3, <1>7, <3>5, DialDoes, Grown DEF Ends
      <3>6. ~UNCHANGED vars
        BY <1>2, <1>7 DEF vars
      <3> QED
        BY <3>1, <3>2, <3>3, <3>4, <3>5, <3>6
           DEF Next, Serve, Compare, Hold, Take, Write, PlayOut, PlayedOut, Locked
    <2>2. PICK f \in Senders(s) : ~ses[f].reading /\ Len(ses'[s].wrote) = ses[f].tn
      BY <1>2, <1>3, <1>4, <1>7, <2>1, CloseDoes
    <2> QED
      BY <1>5, <2>2
  <1> QED
    BY <1>6, <1>7

-----------------------------------------------------------------------------
(* A step that counts a number counts one packet that was looked up.       *)
LEMMA StepPassedOn ==
  ASSUME SocketTypeOK, WellFormed, Noted, Streams, BufFits, PassedOn, [Next]_vars
  PROVE  PassedOn'
  <1>1. Onward
    BY StepOnward
  <1>2. ASSUME NEW s \in DOMAIN ses, NEW n, NEW p \in DOMAIN pc,
               For(p) = Ours(s), p[2] = n, pc'[p] \notin {"net", "dial"}
        PROVE  \E q \in DOMAIN pc' :
                 For(q)' = Ours(s)' /\ q[2] = n /\ pc'[q] \notin {"net", "dial"}
    <2>1. p \in DOMAIN pc' /\ For(p)' = Ours(s)'
      BY <1>1, <1>2, Lasting DEF Onward
    <2> QED
      BY <1>2, <2>1
  <1>3. ASSUME NEW s \in DOMAIN ses, Fresh(s), NEW n \in 1 .. ses[s].rn
        PROVE  \E q \in DOMAIN pc' :
                 For(q)' = Ours(s)' /\ q[2] = n /\ pc'[q] \notin {"net", "dial"}
    <2>1. PICK p \in DOMAIN pc :
            For(p) = Ours(s) /\ p[2] = n /\ pc[p] \notin {"net", "dial"}
      BY <1>3 DEF PassedOn
    <2>2. pc'[p] \notin {"net", "dial"}
      BY <1>1, <2>1 DEF Onward
    <2> QED
      BY <1>2, <2>1, <2>2
  <1>4. ASSUME NEW s \in DOMAIN ses, Fresh(s), ses'[s].rn # ses[s].rn
        PROVE  /\ ses[s].rn \in Nat /\ ses'[s].rn = ses[s].rn + 1
               /\ \E p \in DOMAIN pc : /\ For(p) = Ours(s) /\ p[2] = ses[s].rn + 1
                                       /\ pc'[p] \notin {"net", "dial"}
    <2>1. PICK p \in DOMAIN pc : Take(p) \/ PlayOut(p)
      <3>1. ASSUME NEW i \in Ids, Accept(i) PROVE FALSE
        BY <1>4, <3>1, AcceptDoes, Grown DEF Ends
      <3>2. ASSUME NEW t \in DOMAIN ses, Enter(t) PROVE FALSE
        BY <1>4, <3>2, EnterDoes DEF SameFor
      <3>3. ASSUME NEW t \in DOMAIN ses, Read(t) PROVE FALSE
        BY <1>4, <3>3, ReadDoes
      <3>4. ASSUME NEW p \in DOMAIN pc, Lookup(p) PROVE FALSE
        BY <1>4, <3>4, LookupDoes
      <3>5. ASSUME NEW p \in DOMAIN pc, Dial(p) PROVE FALSE
        BY <1>4, <3>5, DialDoes, Grown DEF Ends
      <3>6. ASSUME NEW p \in DOMAIN pc, Compare(p) PROVE FALSE
        BY <1>4, <3>6, CompareDoes
      <3>7. ASSUME NEW p \in DOMAIN pc, Hold(p) PROVE FALSE
        BY <1>4, <3>7, HoldDoes DEF Touches
      <3>8. ASSUME NEW p \in DOMAIN pc, Write(p) PROVE FALSE
        BY <1>4, <3>8, WriteDoes DEF Touches
      <3>9. ASSUME NEW p \in DOMAIN pc, PlayedOut(p) PROVE FALSE
        BY <1>4, <3>9, PlayedOutDoes
      <3>10. ~UNCHANGED vars
        BY <1>4 DEF vars
      <3> QED
        BY <3>1, <3>2, <3>3, <3>4, <3>5, <3>6, <3>7, <3>8, <3>9, <3>10 DEF Next, Serve
    <2>2. /\ pc[p] \in {"take", "lock", "play"} /\ Touches(p)
          /\ pc'[p] \notin {"net", "dial"}
      BY <2>1, TakeDoes, PlayOutDoes
    <2>3. s = at[p] /\ p \in Posts
      BY <1>4, <2>2 DEF Touches, Posts, Busy
    <2>4. Stream(s) /\ For(p) = Ours(s) /\ ses[s].rn \in Nat
      BY <1>4, <2>2, <2>3, SessionsTyped DEF Streams, Fresh, WellFormed, For, Session
    <2>5. CASE Take(p)
      <3>1. pc[p] = "take" /\ ses'[s].rn = p[2]
        BY <2>3, <2>5, TakeDoes
      <3>2. p[2] = ses[s].rn + 1
        BY <2>3, <2>4, <3>1 DEF Stream
      <3> QED
        BY <2>2, <2>4, <3>1, <3>2
    <2>6. CASE PlayOut(p)
      <3>1. pc[p] \in {"lock", "play"}
        BY <2>6, PlayOutDoes
      <3>2. PICK q \in ses[s].buf : q[2] = next[p] /\ ses'[s].rn = next[p]
        BY <2>3, <2>6, PlayOutDoes
      <3>3. next[p] = ses[s].rn + 1
        BY <2>3, <2>4, <3>1 DEF Stream
      <3>4. q \in DOMAIN pc /\ pc[q] = "done" /\ For(q) = Ours(s)
        BY <3>2 DEF BufFits
      <3>5. pc'[q] = "done"
        BY <1>1, <3>4 DEF Onward
      <3> QED
        BY <2>4, <3>2, <3>3, <3>4, <3>5
    <2> QED
      BY <2>1, <2>5, <2>6
  <1>5. ASSUME NEW s \in DOMAIN ses', Fresh(s)', NEW n \in 1 .. ses'[s].rn
        PROVE  \E q \in DOMAIN pc' :
                 For(q)' = Ours(s)' /\ q[2] = n /\ pc'[q] \notin {"net", "dial"}
    <2>1. CASE s \notin DOMAIN ses
      <3>1. ses'[s].rn = 0
        BY <2>1, NewSessionIs
      <3> QED
        BY <1>5, <3>1
    <2>2. CASE s \in DOMAIN ses
      <3>1. Fresh(s)
        BY <1>1, <1>5, <2>2, Lasting
      <3>2. CASE ses'[s].rn = ses[s].rn
        BY <1>3, <1>5, <2>2, <3>1, <3>2
      <3>3. CASE ses'[s].rn # ses[s].rn
        <4>1. ses[s].rn \in Nat /\ ses'[s].rn = ses[s].rn + 1
          BY <1>4, <2>2, <3>1, <3>3
        <4>2. CASE n = ses[s].rn + 1
          BY <1>2, <1>4, <2>2, <3>1, <3>3, <4>2
        <4>3. CASE n # ses[s].rn + 1
          <5>1. n \in 1 .. ses[s].rn
            BY <1>5, <4>1, <4>3
          <5> QED
            BY <1>3, <2>2, <3>1, <5>1
        <4> QED
          BY <4>2, <4>3
      <3> QED
        BY <3>2, <3>3
    <2> QED
      BY <2>1, <2>2
  <1> QED
    BY <1>5 DEF PassedOn

(* The post that made a session compares only once it is in the map.       *)
LEMMA StepEntered ==
  ASSUME SocketTypeOK, WellFormed, Noted, Entered, [Next]_vars
  PROVE  Entered'
  <1>1. Onward
    BY StepOnward
  <1>2. SUFFICES ASSUME NEW s \in DOMAIN ses', Fresh(s)', ses'[s].entering
                 PROVE  \E p \in Posts' : at'[p] = s /\ pc'[p] = "compare"
    BY DEF Entered
  <1>3. CASE s \notin DOMAIN ses
    <2>1. ses'[s].end = "DST" /\ "SRC" # "DST"
      BY <1>2 DEF Fresh
    <2>2. PICK p \in DOMAIN pc : Dial(p) /\ ses' = NewSession("DST", Id(p)) /\ Id(p) \in Ids
      BY <1>3, <2>1, NewSessionIs
    <2>3. s = Len(ses) + 1 /\ s \in DOMAIN ses'
      BY <1>3, NewSessionIs
    <2>4. Alone(p) /\ (ses' # ses => at'[p] = Len(ses) + 1 /\ pc'[p] = "compare")
      BY <2>2, DialDoes
    <2>5. ses' # ses
      BY <1>3, <2>3
    <2> QED
      BY <2>3, <2>4, <2>5 DEF Alone, Posts, Busy
  <1>4. CASE s \in DOMAIN ses
    <2>1. Fresh(s) /\ ses[s].entering
      BY <1>1, <1>2, <1>4, Lasting DEF Onward
    <2>2. PICK p \in Posts : at[p] = s /\ pc[p] = "compare"
      BY <1>4, <2>1 DEF Entered
    <2>3. p \in DOMAIN pc
      BY DEF Posts
    <2>4. ~Compare(p)
      BY <2>1, <2>2 DEF Compare
    <2>5. at'[p] = at[p] /\ pc'[p] = pc[p]
      <3>1. ASSUME NEW i \in Ids, Accept(i) PROVE at'[p] = at[p] /\ pc'[p] = pc[p]
        BY <3>1, AcceptDoes
      <3>2. ASSUME NEW t \in DOMAIN ses, Enter(t) PROVE at'[p] = at[p] /\ pc'[p] = pc[p]
        BY <3>2, EnterDoes
      <3>3. ASSUME NEW t \in DOMAIN ses, Read(t) PROVE at'[p] = at[p] /\ pc'[p] = pc[p]
        <4>1. p # <<t, ses[t].tn + 1>>
          BY <2>3, SessionsTyped DEF WellFormed, Session
        <4> QED
          BY <2>3, <3>3, <4>1, ReadDoes
      <3>4. ASSUME NEW q \in DOMAIN pc, Lookup(q) PROVE at'[p] = at[p] /\ pc'[p] = pc[p]
        BY <2>2, <2>3, <3>4, LookupDoes DEF Alone
      <3>5. ASSUME NEW q \in DOMAIN pc, Dial(q) PROVE at'[p] = at[p] /\ pc'[p] = pc[p]
        BY <2>2, <2>3, <3>5, DialDoes DEF Alone
      <3>6. ASSUME NEW q \in DOMAIN pc, Serve(q), pc[q] # "dial"
            PROVE  at'[p] = at[p] /\ pc'[p] = pc[p]
        <4>1. Touches(q)
          BY <3>6, ServeTouches
        <4>2. q # p
          BY <2>2, <2>4, <3>6
             DEF Serve, Dial, Hold, Take, Write, PlayOut, PlayedOut, Locked
        <4> QED
          BY <2>3, <4>1, <4>2 DEF Touches, Alone
      <3>7. CASE UNCHANGED vars
        BY <3>7 DEF vars
      <3> QED
        BY <3>1, <3>2, <3>3, <3>4, <3>5, <3>6, <3>7
           DEF Next, Serve, Compare, Hold, Take, Write, PlayOut, PlayedOut, Locked
    <2>6. p \in Posts'
      BY <1>1, <2>2, <2>3, <2>5 DEF Posts, Busy, Onward
    <2> QED
      BY <2>2, <2>5, <2>6
  <1> QED
    BY <1>3, <1>4

(* A post that makes a session is the only one there is for its peer.      *)
LEMMA DialsAlone ==
  ASSUME SocketTypeOK, WellFormed, Noted, Entered,
         NEW p \in Posts, pc[p] = "dial", For(p) \notin overlap
  PROVE  /\ \A q \in Posts : For(q) = For(p) => q = p
         /\ \A s \in DOMAIN ses : Ours(s) = For(p) => ~ses[s].entering
  <1>1. \A q \in Posts : For(q) = For(p) => q = p
    BY DEF Noted, For
  <1>2. ASSUME NEW s \in DOMAIN ses, Ours(s) = For(p), ses[s].entering
        PROVE  FALSE
    <2>1. To(p) = "DST"
      BY DEF WellFormed
    <2>2. Fresh(s)
      BY <1>2, <2>1 DEF Fresh, For, Ours
    <2>3. PICK q \in Posts : at[q] = s /\ pc[q] = "compare"
      BY <1>2, <2>2 DEF Entered
    <2>4. For(q) = Ours(s)
      BY <2>3 DEF WellFormed, For
    <2> QED
      BY <1>1, <1>2, <2>3, <2>4
  <1> QED
    BY <1>1, <1>2

LEMMA StepOneReads ==
  ASSUME SocketTypeOK, WellFormed, Noted, Entered, NoneToDial, OneReads, [Next]_vars
  PROVE  OneReads'
  <1>1. Onward
    BY StepOnward
  <1>2. SUFFICES ASSUME NEW s \in DOMAIN ses', NEW t \in DOMAIN ses', s # t,
                        Fresh(s)', Ours(s)' = Ours(t)', ses'[t].reading
                 PROVE  ~ses'[s].reading /\ ~ses'[s].entering
    BY DEF OneReads
  <1>3. CASE s \in DOMAIN ses /\ t \in DOMAIN ses
    <2>1. Fresh(s) /\ Ours(s) = Ours(t) /\ ses[t].reading
      BY <1>1, <1>2, <1>3, Lasting DEF Onward
    <2>2. ~ses[s].reading /\ ~ses[s].entering
      BY <1>2, <1>3, <2>1 DEF OneReads
    <2> QED
      BY <1>1, <1>3, <2>2 DEF Onward
  <1>4. ASSUME NEW n \in DOMAIN ses' \ DOMAIN ses, NEW u \in DOMAIN ses,
               ses'[n].end = "DST", Ours(n)' = Ours(u)', Ours(n)' \notin overlap'
        PROVE  ~ses'[u].reading /\ ~ses'[u].entering
    <2>1. PICK p \in DOMAIN pc : /\ Dial(p) /\ ses'[n].id = Id(p)
                                 /\ \A v \in DOMAIN ses : ses'[v] = ses[v]
      BY <1>4, NewSessionIs
    <2>2. p \in Posts /\ pc[p] = "dial" /\ To(p) = "DST"
      BY <2>1 DEF Dial, Posts, Busy, WellFormed
    <2>3. Ours(u) = For(p) /\ For(p) \notin overlap
      BY <1>1, <1>4, <2>1, <2>2, Lasting DEF Ours, For, Onward
    <2>4. ~ses[u].reading /\ ~ses[u].entering
      BY <2>2, <2>3, DialsAlone DEF NoneToDial
    <2> QED
      BY <2>1, <2>4
  <1>5. ses'[s].end = "DST" /\ ses'[t].end = "DST" /\ Ours(s)' \notin overlap'
    BY <1>2 DEF Fresh, Ours
  <1>6. CASE s \notin DOMAIN ses
    <2>1. t \in DOMAIN ses
      BY <1>2, <1>6, NewSessionIs
    <2> QED
      BY <1>2, <1>4, <1>5, <1>6, <2>1
  <1>7. CASE t \notin DOMAIN ses
    <2>1. s \in DOMAIN ses
      BY <1>2, <1>7, NewSessionIs
    <2> QED
      BY <1>2, <1>4, <1>5, <1>7, <2>1
  <1> QED
    BY <1>3, <1>6, <1>7

(* A session is made only when the map has none, and the map has the one   *)
(* that reads.                                                             *)
LEMMA StepNoneToDial ==
  ASSUME SocketTypeOK, WellFormed, Noted, OneSource, Entered, InMap, NoneToDial,
         [Next]_vars
  PROVE  NoneToDial'
  <1>1. Onward
    BY StepOnward
  <1>2. SUFFICES ASSUME NEW p \in Posts', pc'[p] = "dial", For(p)' \notin overlap',
                        NEW s \in DOMAIN ses', Ours(s)' = For(p)'
                 PROVE  ~ses'[s].reading
    BY DEF NoneToDial
  <1>3. p \in DOMAIN pc
    <2>1. ASSUME p \notin DOMAIN pc PROVE FALSE
      <3>1. PICK t \in DOMAIN ses : Read(t)
        <4>1. ASSUME NEW i \in Ids, Accept(i) PROVE FALSE
          BY <1>2, <2>1, <4>1, AcceptDoes DEF Posts
        <4>2. ASSUME NEW t \in DOMAIN ses, Enter(t) PROVE FALSE
          BY <1>2, <2>1, <4>2, EnterDoes DEF Posts
        <4>3. ASSUME NEW q \in DOMAIN pc, Lookup(q) PROVE FALSE
          BY <1>2, <2>1, <4>3, LookupDoes DEF Posts, Alone
        <4>4. ASSUME NEW q \in DOMAIN pc, Dial(q) PROVE FALSE
          BY <1>2, <2>1, <4>4, DialDoes DEF Posts, Alone
        <4>5. ASSUME NEW q \in DOMAIN pc, Serve(q), pc[q] # "dial" PROVE FALSE
          BY <1>2, <2>1, <4>5, ServeTouches DEF Posts, Alone, Touches
        <4>6. ~UNCHANGED vars
          BY <1>2, <2>1 DEF vars, Posts
        <4> QED
          BY <4>1, <4>2, <4>3, <4>4, <4>5, <4>6
             DEF Next, Serve, Compare, Hold, Take, Write, PlayOut, PlayedOut, Locked
      <3>2. pc'[p] = "net"
        <4> DEFINE r == <<t, ses[t].tn + 1>>
        <4>1. DOMAIN pc' = DOMAIN pc \cup {r} /\ pc'[r] = "net"
          BY <3>1, ReadDoes
        <4> HIDE DEF r
        <4> QED
          BY <1>2, <2>1, <4>1 DEF Posts
      <3> QED
        BY <1>2, <3>2
    <2> QED
      BY <2>1
  <1>4. For(p)' = For(p) /\ For(p) \notin overlap
    BY <1>1, <1>2, <1>3, Lasting DEF Onward
  <1>5. CASE pc[p] = "dial"
    <2>1. p \in Posts /\ To(p) = "DST"
      BY <1>3, <1>5 DEF Posts, Busy, WellFormed
    <2>2. CASE s \in DOMAIN ses
      <3>1. Ours(s) = For(p)
        BY <1>1, <1>2, <1>4, <2>2, Lasting
      <3>2. ~ses[s].reading
        BY <1>4, <1>5, <2>1, <2>2, <3>1 DEF NoneToDial
      <3> QED
        BY <1>1, <2>2, <3>2 DEF Onward
    <2>3. CASE s \notin DOMAIN ses
      <3>1. ses'[s].end = "DST"
        BY <1>2, <1>4, <2>1 DEF Ours, For
      <3>2. PICK q \in DOMAIN pc : Dial(q) /\ ses'[s].id = Id(q)
                                  /\ ses' = NewSession("DST", Id(q))
        BY <1>2, <2>3, <3>1, NewSessionIs
      <3>3. q \in Posts /\ To(q) = "DST" /\ pc[q] = "dial"
        BY <3>2 DEF Dial, Posts, Busy, WellFormed
      <3>4. For(q) = For(p)
        BY <1>2, <1>4, <3>1, <3>2, <3>3 DEF Ours, For
      <3>5. q = p
        BY <1>4, <1>5, <2>1, <3>3, <3>4, DialsAlone
      <3>6. pc'[q] # "dial"
        BY <3>2, DialDoes
      <3> QED
        BY <1>2, <3>5, <3>6
    <2> QED
      BY <2>2, <2>3
  <1>6. CASE pc[p] # "dial"
    <2>1. Lookup(p)
      <3>1. ASSUME NEW i \in Ids, Accept(i) PROVE FALSE
        BY <1>2, <1>6, <3>1, AcceptDoes
      <3>2. ASSUME NEW t \in DOMAIN ses, Enter(t) PROVE FALSE
        BY <1>2, <1>6, <3>2, EnterDoes
      <3>3. ASSUME NEW t \in DOMAIN ses, Read(t) PROVE FALSE
        BY <1>2, <1>3, <1>6, <3>3, ReadDoes
      <3>4. ASSUME NEW q \in DOMAIN pc, Lookup(q), q # p PROVE FALSE
        BY <1>2, <1>3, <1>6, <3>4, LookupDoes DEF Alone
      <3>5. ASSUME NEW q \in DOMAIN pc, Dial(q) PROVE FALSE
        BY <1>2, <1>3, <1>6, <3>5, DialDoes DEF Alone
      <3>6. ASSUME NEW q \in DOMAIN pc, Serve(q), pc[q] # "dial" PROVE FALSE
        <4>1. Touches(q) /\ pc'[q] # "dial"
          BY <3>6, ServeTouches, CompareDoes, HoldDoes, TakeDoes, WriteDoes,
             PlayOutDoes, PlayedOutDoes DEF Serve, Dial
        <4> QED
          BY <1>2, <1>3, <1>6, <4>1 DEF Touches, Alone
      <3>7. ~UNCHANGED vars
        BY <1>2, <1>6 DEF vars
      <3> QED
        BY <3>1, <3>2, <3>3, <3>4, <3>5, <3>6, <3>7
           DEF Next, Serve, Compare, Hold, Take, Write, PlayOut, PlayedOut, Locked
    <2>2. /\ ses' = ses /\ To(p) = "DST" /\ socketMap["DST"][Id(p)] = 0 /\ pc[p] = "net"
          /\ overlap' = IF SamePeer(p) = {} THEN overlap ELSE overlap \cup {For(p)}
      BY <1>2, <1>3, <2>1, LookupDoes DEF For
    <2>3. SamePeer(p) = {}
      BY <1>2, <1>4, <2>2
    <2>4. s \in DOMAIN ses /\ Ours(s) = For(p)
      BY <1>1, <1>2, <1>4, <2>2, Lasting
    <2>5. Fresh(s) /\ ses[s].id = Id(p)
      BY <1>4, <2>2, <2>4 DEF Fresh, For, Ours
    <2>6. ASSUME ses[s].reading, ses[s].entering PROVE FALSE
      <3>1. PICK q \in Posts : at[q] = s /\ pc[q] = "compare"
        BY <2>4, <2>5, <2>6 DEF Entered
      <3>2. For(q) = Ours(s)
        BY <3>1 DEF WellFormed, For
      <3> QED
        BY <2>3, <2>4, <3>1, <3>2 DEF SamePeer, For
    <2>7. ASSUME ses[s].reading, ~ses[s].entering PROVE FALSE
      <3>1. s # 0
        BY <2>4, SessionsTyped
      <3>2. Finished(s)
        BY <2>2, <2>4, <2>5, <2>7, <3>1 DEF InMap
      <3>3. PICK f \in Senders(s) :
              \A q \in DOMAIN pc : q[1] = f => pc[q] \notin {"net", "dial"}
        BY <3>2 DEF Finished
      <3>4. p[1] \in Senders(s)
        BY <1>3, <2>4, SenderOf
      <3>5. \A g \in Senders(s) : g \in DOMAIN ses /\ ses[g].end = "SRC" /\ ses[g].id = ses[s].id
        BY <2>5, SessionsTyped DEF Senders, Session, Ends, Fresh
      <3>6. p[1] = f
        BY <3>3, <3>4, <3>5 DEF OneSource
      <3> QED
        BY <1>3, <2>2, <3>3, <3>6
    <2> QED
      BY <2>2, <2>6, <2>7
  <1> QED
    BY <1>5, <1>6

(* An EOF whose turn has come is the last that anybody looks up.           *)
LEMMA EofFinishes ==
  ASSUME SocketTypeOK, WellFormed, OneSource, BufFits, PassedOn,
         NEW s \in DOMAIN ses, Fresh(s),
         NEW t \in DOMAIN ses, NEW q \in ses[t].buf,
         Ours(t) = Ours(s), q[2] = ses[t].rn + 1, Eof(q)
  PROVE  Finished(s)
  <1>1. q \in DOMAIN pc /\ pc[q] = "done" /\ For(q) = Ours(s)
    BY DEF BufFits
  <1>2. /\ q[1] \in Senders(s) /\ ~ses[q[1]].reading /\ q[2] = ses[q[1]].tn
        /\ To(q) = "DST" /\ ses[t].rn \in Nat /\ Fresh(t)
    BY <1>1, SenderOf, SessionsTyped DEF Eof, Fresh, For, Ours, Session
  <1>3. ASSUME NEW p \in DOMAIN pc, p[1] = q[1]
        PROVE  pc[p] \notin {"net", "dial"}
    <2>1. For(p) = For(q) /\ To(p) = "DST"
      BY <1>2, <1>3 DEF For, To, Id
    <2>2. p[2] \in Nat \ {0} /\ p[2] <= ses[t].rn + 1
      BY <1>2, <1>3, PacketTyped DEF WellFormed
    <2>3. CASE p[2] = ses[t].rn + 1
      <3>1. p = q
        BY <1>1, <2>1, <2>3, OnePacket
      <3> QED
        BY <1>1, <3>1
    <2>4. CASE p[2] # ses[t].rn + 1
      <3>1. p[2] \in 1 .. ses[t].rn
        BY <1>2, <2>2, <2>4
      <3>2. PICK r \in DOMAIN pc :
              For(r) = Ours(t) /\ r[2] = p[2] /\ pc[r] \notin {"net", "dial"}
        BY <1>2, <3>1 DEF PassedOn
      <3>3. For(r) = For(p)
        BY <1>1, <2>1, <3>2
      <3>4. p = r
        BY <2>1, <3>2, <3>3, OnePacket
      <3> QED
        BY <3>2, <3>4
    <2> QED
      BY <2>3, <2>4
  <1> QED
    BY <1>2, <1>3 DEF Finished

LEMMA StepInMap ==
  ASSUME SocketTypeOK, WellFormed, Noted, Streams, OneSource, BufFits, PassedOn,
         InMap, OneReads, [Next]_vars
  PROVE  InMap'
  <1>1. Onward
    BY StepOnward
  <1>2. SUFFICES ASSUME NEW s \in DOMAIN ses', Fresh(s)',
                        ses'[s].reading, ~ses'[s].entering
                 PROVE  socketMap'["DST"][ses'[s].id] = s \/ Finished(s)'
    BY DEF InMap
  <1>3. s \in DOMAIN ses
    BY <1>2, NewSessionIs
  <1>4. /\ Fresh(s) /\ ses[s].reading /\ ses[s] \in Session
        /\ ses'[s].id = ses[s].id /\ ses[s].id \in Ids /\ ses[s].end = "DST"
    BY <1>1, <1>2, <1>3, Lasting, SessionsTyped
       DEF Onward, PeersStay, Session, Fresh
  <1>5. "DST" \in Ends /\ socketMap \in [Ends -> [Ids -> 0 .. Len(ses)]]
    BY DEF Ends, SocketTypeOK
  <1>6. ASSUME ~ses[s].entering, socketMap'["DST"][ses[s].id] = socketMap["DST"][ses[s].id]
        PROVE  socketMap'["DST"][ses'[s].id] = s \/ Finished(s)'
    BY <1>1, <1>3, <1>4, <1>6, Lasting DEF InMap
  <1>7. ASSUME NEW i \in Ids, Accept(i)
        PROVE  socketMap'["DST"][ses'[s].id] = s \/ Finished(s)'
    BY <1>2, <1>3, <1>6, <1>7, AcceptDoes, Grown DEF Ends
  <1>8. ASSUME NEW t \in DOMAIN ses, Enter(t)
        PROVE  socketMap'["DST"][ses'[s].id] = s \/ Finished(s)'
    <2>1. /\ socketMap' = [socketMap EXCEPT ![ses[t].end][ses[t].id] = t]
          /\ ses[t].entering /\ ses'[s].entering = (ses[s].entering /\ s # t)
      BY <1>3, <1>8, EnterDoes
    <2>2. CASE t = s
      BY <1>4, <1>5, <2>1, <2>2
    <2>3. CASE t # s
      <3>1. ~ses[s].entering
        BY <1>2, <2>1, <2>3
      <3>2. Ours(t) # Ours(s)
        <4>1. ASSUME Ours(t) = Ours(s) PROVE FALSE
          <5>1. Fresh(t)
            BY <1>4, <4>1 DEF Fresh, Ours
          <5> QED
            BY <1>3, <1>4, <2>1, <2>3, <4>1, <5>1 DEF OneReads
        <4> QED
          BY <4>1
      <3>3. socketMap'["DST"][ses[s].id] = socketMap["DST"][ses[s].id]
        BY <1>4, <1>5, <2>1, <3>2 DEF Ours
      <3> QED
        BY <1>6, <3>1, <3>3
    <2> QED
      BY <2>2, <2>3
  <1>9. ASSUME NEW t \in DOMAIN ses, Read(t)
        PROVE  socketMap'["DST"][ses'[s].id] = s \/ Finished(s)'
    <2>1. /\ ses[t].reading /\ ses'[s].entering = ses[s].entering
          /\ \/ socketMap' = socketMap
             \/ /\ ~ses'[t].reading
                /\ socketMap' = [socketMap EXCEPT ![ses[t].end][ses[t].id] = 0]
      BY <1>3, <1>9, ReadEnds
    <2>2. CASE socketMap' = socketMap
      BY <1>2, <1>6, <2>1, <2>2
    <2>3. CASE /\ ~ses'[t].reading
               /\ socketMap' = [socketMap EXCEPT ![ses[t].end][ses[t].id] = 0]
      <3>1. t # s
        BY <1>2, <2>3
      <3>2. Ours(t) # Ours(s)
        BY <1>3, <1>4, <2>1, <3>1 DEF OneReads
      <3>3. socketMap'["DST"][ses[s].id] = socketMap["DST"][ses[s].id]
        BY <1>4, <1>5, <2>3, <3>2 DEF Ours
      <3> QED
        BY <1>2, <1>6, <2>1, <3>3
    <2> QED
      BY <2>1, <2>2, <2>3
  <1>10. ASSUME NEW p \in DOMAIN pc, Lookup(p)
         PROVE  socketMap'["DST"][ses'[s].id] = s \/ Finished(s)'
    BY <1>2, <1>6, <1>10, LookupDoes
  <1>11. ASSUME NEW p \in DOMAIN pc, Dial(p)
         PROVE  socketMap'["DST"][ses'[s].id] = s \/ Finished(s)'
    <2>1. socketMap' = socketMap /\ ses'[s] = ses[s]
      BY <1>3, <1>5, <1>11, DialDoes, Grown
    <2> QED
      BY <1>2, <1>6, <2>1
  <1>12. ASSUME NEW p \in DOMAIN pc, PlayOut(p)
         PROVE  socketMap'["DST"][ses'[s].id] = s \/ Finished(s)'
    <2>1. Touches(p) /\ pc[p] \in {"lock", "play"}
      BY <1>12, PlayOutDoes
    <2>2. ~ses[s].entering /\ at[p] \in DOMAIN ses /\ p \in Posts
      BY <1>2, <1>3, <2>1 DEF Touches, Posts, Busy
    <2>3. PICK q \in ses[at[p]].buf :
            /\ q[2] = next[p]
            /\ socketMap' = IF Eof(q) THEN [socketMap EXCEPT ![To(p)][Id(p)] = 0]
                            ELSE socketMap
      BY <1>12, PlayOutDoes
    <2>4. Ours(at[p]) = For(p)
      BY <2>1, <2>2 DEF WellFormed, For
    <2>5. CASE Eof(q) /\ For(p) = Ours(s)
      <3>1. Stream(at[p])
        BY <1>4, <2>2, <2>4, <2>5 DEF Streams, Fresh
      <3>2. q[2] = ses[at[p]].rn + 1
        BY <2>1, <2>2, <2>3, <3>1 DEF Stream
      <3>3. Finished(s)
        BY <1>3, <1>4, <2>2, <2>4, <2>5, <3>2, EofFinishes
      <3> QED
        BY <1>1, <1>3, <3>3, Lasting
    <2>6. CASE ~(Eof(q) /\ For(p) = Ours(s))
      <3>1. socketMap'["DST"][ses[s].id] = socketMap["DST"][ses[s].id]
        BY <1>4, <1>5, <2>3, <2>6 DEF Ours, For
      <3> QED
        BY <1>6, <2>2, <3>1
    <2> QED
      BY <2>5, <2>6
  <1>13. ASSUME NEW p \in DOMAIN pc, Serve(p), pc[p] # "dial", ~PlayOut(p)
         PROVE  socketMap'["DST"][ses'[s].id] = s \/ Finished(s)'
    <2>1. Touches(p)
      BY <1>13, ServeTouches
    <2>2. socketMap' = socketMap
      BY <1>13, CompareDoes, HoldDoes, TakeDoes, WriteDoes, PlayedOutDoes DEF Serve, Dial
    <2> QED
      BY <1>2, <1>3, <1>6, <2>1, <2>2 DEF Touches
  <1>14. CASE UNCHANGED vars
    BY <1>2, <1>6, <1>14 DEF vars
  <1> QED
    BY <1>7, <1>8, <1>9, <1>10, <1>11, <1>12, <1>13, <1>14
       DEF Next, Serve, Compare, Hold, Take, Write, PlayOut, PlayedOut, Locked

-----------------------------------------------------------------------------
PeersInv ==
  OneSource /\ BufFits /\ ClosedByEof /\ PassedOn /\ Entered /\ InMap
    /\ NoneToDial /\ OneReads

LEMMA PeersHold == Spec => [](IInv /\ PeersInv)
  <1>1. Init => PeersInv
    <2> SUFFICES ASSUME Init PROVE PeersInv
      OBVIOUS
    <2>1. DOMAIN ses = {} /\ DOMAIN pc = {}
      BY DEF Init
    <2>2. Posts = {}
      BY <2>1 DEF Posts
    <2> QED
      BY <2>1, <2>2 DEF PeersInv, OneSource, BufFits, ClosedByEof, PassedOn, Entered,
         InMap, NoneToDial, OneReads
  <1>2. IInv /\ PeersInv /\ [Next]_vars => PeersInv'
    BY StepOneSource, StepBufFits, StepClosedByEof, StepPassedOn, StepEntered,
       StepInMap, StepNoneToDial, StepOneReads DEF IInv, PeersInv
  <1> QED
    BY <1>1, <1>2, InvHolds, PTL DEF Spec

(* A connection whose posts come one at a time is closed for the other end *)
(* only when that has sent its last packet, and all that it has sent was   *)
(* written, in whatever order it arrived (post and its EOF).               *)
THEOREM ClosedAfterLast == Spec => []ClosedAfterAll
  <1>1. ASSUME SocketTypeOK, ClosedByEof PROVE ClosedAfterAll
    <2>1. SUFFICES ASSUME NEW s \in DOMAIN ses, Simple(s), ~ses[s].open,
                          NEW f \in Senders(s)
                   PROVE  Len(ses[s].wrote) = ses[f].tn /\ ~ses[f].reading
      BY DEF ClosedAfterAll
    <2>2. PICK g \in Senders(s) : ~ses[g].reading /\ Len(ses[s].wrote) = ses[g].tn
      BY <1>1, <2>1 DEF ClosedByEof, Simple
    <2>3. IsFiniteSet(Senders(s))
      <3>1. IsFiniteSet(1 .. Len(ses)) /\ Senders(s) \subseteq 1 .. Len(ses)
        BY <1>1, SessionsTyped, FS_Interval DEF Senders
      <3> QED
        BY <3>1, FS_Subset
    <2>4. f = g
      <3>1. Cardinality(Senders(s)) \in Nat /\ Cardinality(Senders(s)) <= 1
        BY <2>1, <2>3, FS_CardinalityType DEF Simple
      <3>2. /\ IsFiniteSet(Senders(s) \ {f})
            /\ Cardinality(Senders(s) \ {f}) = Cardinality(Senders(s)) - 1
        BY <2>3, FS_RemoveElement
      <3>3. Cardinality(Senders(s) \ {f}) \in Nat
        BY <3>2, FS_CardinalityType
      <3>4. Cardinality(Senders(s) \ {f}) = 0
        BY <3>1, <3>2, <3>3
      <3>5. Senders(s) \ {f} = {}
        BY <3>2, <3>4, FS_EmptySet
      <3> QED
        BY <2>2, <3>5
    <2> QED
      BY <2>2, <2>4
  <1>2. IInv /\ PeersInv => ClosedAfterAll
    BY <1>1 DEF IInv, PeersInv
  <1> QED
    BY <1>2, PeersHold, PTL

(* A client whose posts come one at a time has one connection that is read *)
(* at either end, whatever order its packets arrive in and however many    *)
(* are lost: no packet makes a second one (post, newSession, socketMap).   *)
THEOREM OneConnectionEach == Spec => []OneConnection
  <1>1. ASSUME SocketTypeOK, OneSource, OneReads PROVE OneConnection
    <2>1. SUFFICES ASSUME NEW s \in DOMAIN ses, Ours(s) \notin overlap,
                          NEW t \in Twins(s), t # s
                   PROVE  ~ses[t].reading \/ ~ses[s].reading
      BY DEF OneConnection
    <2>2. t \in DOMAIN ses /\ Ours(t) = Ours(s)
      BY DEF Twins
    <2>3. ses[s].end = "SRC" \/ ses[s].end = "DST"
      BY <1>1, SessionsTyped DEF Session, Ends
    <2>4. ses[t].end = ses[s].end /\ ses[t].id = ses[s].id
      BY <2>2 DEF Ours
    <2>5. ses[s].end # "SRC"
      BY <1>1, <2>1, <2>2, <2>4 DEF OneSource
    <2>6. Fresh(s)
      BY <2>1, <2>3, <2>5 DEF Fresh
    <2> QED
      BY <1>1, <2>1, <2>2, <2>6 DEF OneReads
  <1>2. IInv /\ PeersInv => OneConnection
    BY <1>1 DEF IInv, PeersInv
  <1> QED
    BY <1>2, PeersHold, PTL
=============================================================================
