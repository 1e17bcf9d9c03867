----------------------------- MODULE SocketTunnel -----------------------------
(***************************************************************************)
(* ff-socket at both ends of a tunnel.  "SRC" accepts the connections of   *)
(* clients (incoming-at), "DST" makes one to the target for every socketId *)
(* it hears of (forward-to).  Either end cuts what it reads from TCP into  *)
(* numbered FlowFiles and posts them to the other end, through links that  *)
(* may lose and reorder them and that may answer before they are through.  *)
(* Session s sends packets <<s, 1>>, <<s, 2>>, ...                         *)
(***************************************************************************)
EXTENDS Integers, Sequences, FiniteSets

CONSTANTS
  Ids,          \* values of socketId, one per client
  MaxSessions,  \* bound: sessions of both ends together
  MaxPackets,   \* bound: MaxPackets[e] packets per session of end e
  MaxPosts      \* bound: posts in progress at a time

Ends == {"SRC", "DST"}
Sessions == 1 .. MaxSessions

ASSUME SocketAssumption ==
  /\ MaxSessions \in Nat /\ MaxPosts \in Nat
  /\ MaxPackets \in [Ends -> Nat]

Packets == Sessions \X (Nat \ {0})
Busy == {"dial", "compare", "take", "hold", "write", "lock", "play"}
Gone == {"refused", "done"}

VARIABLES
  ses,        \* the sessions that were made, in that order
  socketMap,  \* socketMap[e][id]: the session that is looked up, or 0
  pc,         \* pc[p]: where packet p is, for every packet that was sent
  at,         \* at[p]: the session that post has p for, or 0
  next,       \* next[p]: the variable of post
  overlap     \* history: the connections that had two posts at a time

vars == <<ses, socketMap, pc, at, next, overlap>>

Session == [
  end : Ends, id : Ids,
  entering : BOOLEAN,       \* not in the map yet
  reading : BOOLEAN,        \* its read loop runs
  open : BOOLEAN,           \* rw was not closed
  tn : Nat,                 \* last number sent
  rn : Nat,                 \* last number received in turn
  buf : SUBSET Packets,     \* packets that wait for their turn
  wrote : Seq(Packets)]     \* what was written to rw

SocketTypeOK ==
  /\ ses \in Seq(Session) /\ Len(ses) <= MaxSessions
  /\ socketMap \in [Ends -> [Ids -> 0 .. Len(ses)]]
  /\ DOMAIN pc \subseteq Packets
  /\ pc \in [DOMAIN pc -> {"net"} \cup Busy \cup Gone]
  /\ at \in [DOMAIN pc -> 0 .. Len(ses)]
  /\ next \in [DOMAIN pc -> Nat]
  /\ overlap \subseteq Ends \X Ids

Init ==
  /\ ses = << >>
  /\ socketMap = [e \in Ends |-> [i \in Ids |-> 0]]
  /\ pc = << >> /\ at = << >> /\ next = << >>
  /\ overlap = {}

-----------------------------------------------------------------------------
Other(e) == IF e = "SRC" THEN "DST" ELSE "SRC"
To(p) == Other(ses[p[1]].end)
Id(p) == ses[p[1]].id
Eof(p) == p[2] = ses[p[1]].tn /\ ~ses[p[1]].reading

NewSession(e, i) ==
  Append(ses, [end |-> e, id |-> i, entering |-> TRUE, reading |-> TRUE,
               open |-> TRUE, tn |-> 0, rn |-> 0, buf |-> {}, wrote |-> << >>])

(* Write p to the connection of s, which is closed after an EOF. *)
Written(s, p) ==
  [ses[s] EXCEPT !.wrote = IF ses[s].open THEN Append(@, p) ELSE @,
                 !.open = @ /\ ~Eof(p)]

Goto(p, l) == pc' = [pc EXCEPT ![p] = l]

(* A client connects; the read loop is started ahead of the map's entry. *)
Accept(i) ==
  /\ Len(ses) < MaxSessions
  /\ \A s \in DOMAIN ses : ses[s].end = "SRC" => ses[s].id # i /\ ~ses[s].entering
  /\ ses' = NewSession("SRC", i)
  /\ UNCHANGED <<socketMap, pc, at, next, overlap>>

(* Mutant: only sessions of clients are entered. *)
Enter_Clients(s) ==
  /\ ses[s].entering
  /\ ses' = [ses EXCEPT ![s].entering = FALSE]
  /\ socketMap' = IF ses[s].end = "DST" THEN socketMap
                  ELSE [socketMap EXCEPT !["SRC"][ses[s].id] = s]
  /\ UNCHANGED <<pc, at, next, overlap>>

Enter(s) ==
  /\ ses[s].entering
  /\ ses' = [ses EXCEPT ![s].entering = FALSE]
  /\ socketMap' = [socketMap EXCEPT ![ses[s].end][ses[s].id] = s]
  /\ UNCHANGED <<pc, at, next, overlap>>

(* One round of a read loop: data, or the error that ends it and takes the *)
(* session out of the map, is sent on under the next number.  A connection *)
(* that post has closed gives an error.                                    *)
Read(s) ==
  /\ ses[s].reading
  /\ LET n == ses[s].tn + 1
         p == <<s, n>>
     IN  /\ n <= MaxPackets[ses[s].end]
         /\ \/ /\ ses[s].open /\ n < MaxPackets[ses[s].end]
               /\ ses' = [ses EXCEPT ![s].tn = n]
               /\ UNCHANGED socketMap
            \/ /\ ses' = [ses EXCEPT ![s].tn = n, ![s].reading = FALSE]
               /\ socketMap' = [socketMap EXCEPT ![ses[s].end][ses[s].id] = 0]
         /\ pc' = [q \in DOMAIN pc \cup {p} |-> IF q = p THEN "net" ELSE pc[q]]
         /\ at' = [q \in DOMAIN pc \cup {p} |-> IF q = p THEN 0 ELSE at[q]]
         /\ next' = [q \in DOMAIN pc \cup {p} |-> IF q = p THEN 0 ELSE next[q]]
  /\ UNCHANGED overlap

-----------------------------------------------------------------------------
Posts == {p \in DOMAIN pc : pc[p] \in Busy}
SamePeer(p) == {q \in Posts : To(q) = To(p) /\ Id(q) = Id(p)}

(* post looks the session up.  A FlowFile that gets lost, hs.Send trying it *)
(* once and nobody looking at its error, stays where it is for good.       *)
Lookup(p) ==
  /\ pc[p] = "net"
  /\ Cardinality(Posts) < MaxPosts
  /\ LET s == socketMap[To(p)][Id(p)]
     IN  /\ at' = [at EXCEPT ![p] = s]
         /\ Goto(p, IF s # 0 THEN "compare"
                    ELSE IF To(p) = "DST" THEN "dial" ELSE "refused")
  /\ overlap' = IF SamePeer(p) = {} THEN overlap
                ELSE overlap \cup {<<To(p), Id(p)>>}
  /\ UNCHANGED <<ses, socketMap, next>>

(* Mutant: the session is taken to be there when it could not be made. *)
Dial_Unchecked(p) ==
  /\ pc[p] = "dial"
  /\ \/ Len(ses) < MaxSessions /\ ses' = NewSession("DST", Id(p))
     \/ UNCHANGED ses
  /\ at' = [at EXCEPT ![p] = Len(ses) + 1]
  /\ Goto(p, "compare")
  /\ UNCHANGED <<socketMap, next, overlap>>

(* newSession, which may not get a connection *)
Dial(p) ==
  /\ pc[p] = "dial"
  /\ \/ /\ Len(ses) < MaxSessions
        /\ ses' = NewSession("DST", Id(p))
        /\ at' = [at EXCEPT ![p] = Len(ses')]
        /\ Goto(p, "compare")
     \/ Goto(p, "refused") /\ UNCHANGED <<ses, at>>
  /\ UNCHANGED <<socketMap, next, overlap>>

(* Mutant: a packet counts as being in turn if no later one was written. *)
Compare_Late(p) ==
  /\ pc[p] = "compare" /\ ~ses[at[p]].entering
  /\ Goto(p, IF p[2] > ses[at[p]].rn THEN "take" ELSE "hold")
  /\ UNCHANGED <<ses, socketMap, at, next, overlap>>

(* Is it the packet whose turn it is?  No lock is held here. *)
Compare(p) ==
  /\ pc[p] = "compare" /\ ~ses[at[p]].entering
  /\ Goto(p, IF ses[at[p]].rn + 1 = p[2] THEN "take" ELSE "hold")
  /\ UNCHANGED <<ses, socketMap, at, next, overlap>>

Unlocked(s) == \A q \in Posts : ~(pc[q] = "play" /\ at[q] = s)

(* Mutant: it is not kept. *)
Hold_Drops(p) ==
  /\ pc[p] = "hold" /\ Unlocked(at[p])
  /\ Goto(p, "done")
  /\ UNCHANGED <<ses, socketMap, at, next, overlap>>

(* Mutant: an EOF closes the connection as soon as it is there. *)
Hold_Closes(p) ==
  /\ pc[p] = "hold" /\ Unlocked(at[p])
  /\ ses' = [ses EXCEPT ![at[p]].buf = {q \in @ : q[2] # p[2]} \cup {p},
                         ![at[p]].open = @ /\ ~Eof(p)]
  /\ Goto(p, "done")
  /\ UNCHANGED <<socketMap, at, next, overlap>>

(* It is not: it is kept until it is, in place of one of the same number. *)
Hold(p) ==
  /\ pc[p] = "hold" /\ Unlocked(at[p])
  /\ ses' = [ses EXCEPT ![at[p]].buf = {q \in @ : q[2] # p[2]} \cup {p}]
  /\ Goto(p, "done")
  /\ UNCHANGED <<socketMap, at, next, overlap>>

Take(p) ==
  /\ pc[p] = "take"
  /\ ses' = [ses EXCEPT ![at[p]].rn = p[2]]
  /\ next' = [next EXCEPT ![p] = p[2] + 1]
  /\ Goto(p, "write")
  /\ UNCHANGED <<socketMap, at, overlap>>

Write(p) ==
  /\ pc[p] = "write"
  /\ ses' = [ses EXCEPT ![at[p]] = Written(at[p], p)]
  /\ Goto(p, IF Eof(p) THEN "done" ELSE "lock")
  /\ UNCHANGED <<socketMap, at, next, overlap>>

Locked(p) == pc[p] = "play" \/ (pc[p] = "lock" /\ Unlocked(at[p]))

(* Mutant: whatever comes later is written. *)
Waiting_Later(p) == {q \in ses[at[p]].buf : q[2] >= next[p]}

Waiting(p) == {q \in ses[at[p]].buf : q[2] = next[p]}

(* Mutant: only one of them. *)
PlayOut_Once(p) ==
  /\ Locked(p)
  /\ \E q \in Waiting(p) :
       /\ ses' = [ses EXCEPT ![at[p]] =
                    [Written(at[p], q) EXCEPT !.rn = q[2], !.buf = @ \ {q}]]
       /\ next' = [next EXCEPT ![p] = @ + 1]
       /\ Goto(p, "done")
       /\ socketMap' = IF Eof(q) THEN [socketMap EXCEPT ![To(p)][Id(p)] = 0]
                       ELSE socketMap
  /\ UNCHANGED <<at, overlap>>

(* Under the lock, packets that were kept and follow are written. *)
PlayOut(p) ==
  /\ Locked(p)
  /\ \E q \in Waiting(p) :
       /\ ses' = [ses EXCEPT ![at[p]] =
                    [Written(at[p], q) EXCEPT !.rn = q[2], !.buf = @ \ {q}]]
       /\ next' = [next EXCEPT ![p] = @ + 1]
       /\ Goto(p, IF Eof(q) THEN "done" ELSE "play")
       /\ socketMap' = IF Eof(q) THEN [socketMap EXCEPT ![To(p)][Id(p)] = 0]
                       ELSE socketMap
  /\ UNCHANGED <<at, overlap>>

PlayedOut(p) ==
  /\ Locked(p)
  /\ Waiting(p) = {}
  /\ Goto(p, "done")
  /\ UNCHANGED <<ses, socketMap, at, next, overlap>>

Serve(p) ==
  \/ Dial(p) \/ Compare(p) \/ Hold(p) \/ Take(p) \/ Write(p)
  \/ PlayOut(p) \/ PlayedOut(p)

Next ==
  \/ \E i \in Ids : Accept(i)
  \/ \E s \in DOMAIN ses : Enter(s) \/ Read(s)
  \/ \E p \in DOMAIN pc : Lookup(p) \/ Serve(p)

(* Posts keep running, and the entries are made; clients and targets need  *)
(* not send anything, and what is sent need not arrive.                    *)
Spec ==
  /\ Init /\ [][Next]_vars
  /\ \A s \in Sessions : WF_vars(s \in DOMAIN ses /\ Enter(s))
  /\ \A s \in Sessions, n \in 1 .. MaxPackets["SRC"] + MaxPackets["DST"] :
       WF_vars(<<s, n>> \in DOMAIN pc /\ Serve(<<s, n>>))

-----------------------------------------------------------------------------
Ours(s) == <<ses[s].end, ses[s].id>>
Senders(s) == {f \in DOMAIN ses : ses[f].end # ses[s].end /\ ses[f].id = ses[s].id}
Twins(s) == {t \in DOMAIN ses : Ours(t) = Ours(s)}

(* What the comment in post says, "Play out anything up to this point":    *)
(* even if posts run side by side.                                         *)
PlayedUpToHere ==
  \A s \in DOMAIN ses :
    ses[s].open /\ (\A p \in Posts : at[p] # s) =>
      \A q \in ses[s].buf : q[2] # ses[s].rn + 1

(* One session at either end, and never two posts at a time for this one. *)
Simple(s) ==
  /\ Cardinality(Twins(s)) = 1 /\ Cardinality(Senders(s)) <= 1
  /\ Ours(s) \notin overlap

(* Everything up to rn was written to the connection, if only by a post    *)
(* that is just about to: whatever posts race, a number is never skipped   *)
(* (the comparison in post, the play-out).                                 *)
NothingSkipped ==
  \A s \in DOMAIN ses : ses[s].open =>
    \A n \in 1 .. ses[s].rn :
      \/ \E i \in DOMAIN ses[s].wrote : ses[s].wrote[i][2] = n
      \/ \E p \in Posts : at[p] = s /\ p[2] = n /\ pc[p] = "write"

(* Packets that arrive in any order, some not at all, but never two at a   *)
(* time leave the tunnel in the order in which they entered it, from the   *)
(* first on and without a gap.                                             *)
InOrder ==
  \A s \in DOMAIN ses : Simple(s) =>
    \A i \in DOMAIN ses[s].wrote : ses[s].wrote[i][2] = i

(* Then too, none that could be written stays behind in the buffer.        *)
NothingStranded ==
  \A s \in DOMAIN ses :
    Simple(s) /\ ses[s].open /\ (\A p \in Posts : at[p] # s) =>
      \A q \in ses[s].buf : q[2] # ses[s].rn + 1

(* A connection is closed for an EOF from the other end only after all     *)
(* that was sent ahead of it.                                              *)
ClosedAfterAll ==
  \A s \in DOMAIN ses : Simple(s) /\ ~ses[s].open =>
    \A f \in Senders(s) : Len(ses[s].wrote) = ses[f].tn /\ ~ses[f].reading

(* The target sees one connection per client, unless it closes its own     *)
(* before the client is done or first packets are handled side by side.    *)
OneConnection ==
  \A s \in DOMAIN ses : Ours(s) \notin overlap =>
    \A t \in Twins(s) : t # s => ~ses[t].reading \/ ~ses[s].reading

(* When nothing is lost or refused, all that a session has sent is written *)
(* at the other end.                                                       *)
Smooth(f) ==
  \A p \in DOMAIN pc : p[1] = f =>
    pc[p] \notin {"net", "refused"} /\ (at[p] # 0 => Simple(at[p]))

AllWritten(f) ==
  \A n \in 1 .. ses[f].tn : \E s \in DOMAIN ses :
    \E i \in DOMAIN ses[s].wrote : ses[s].wrote[i] = <<f, n>>

EveryPacketArrives ==
  \A f \in Sessions :
    <>[](f \in DOMAIN ses /\ Smooth(f)) => <>[](f \in DOMAIN ses /\ AllWritten(f))
=============================================================================
