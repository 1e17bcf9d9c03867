----------------------------- MODULE UdpReceiver -----------------------------
(***************************************************************************)
(* ff-udp-to-http: one handler per UDP port rebuilds a FlowFile in a       *)
(* temporary file, queues it once every packet was seen, and worker        *)
(* threads verify queued files and forward them.  Here the packets a port  *)
(* reads are any packets a sender may send, in any order and any number of *)
(* times; UdpLink restricts them to what was sent.                         *)
(***************************************************************************)
EXTENDS UdpWire, OrderingBuffer, Sequences, FiniteSets

CONSTANTS
  Threads,      \* bound on the jobs being verified at a time
  QueueCap,     \* capacity of workChan
  ZeroLed,      \* the FlowFiles whose payload begins with eight zero bytes
  RetryCount,   \* how often hs.Send tries again
  SendMayFail,  \* whether the HTTP endpoint may refuse a file
  Unanswered,   \* the FlowFiles it may take without its answer arriving
  NoJob,        \* a nil *workUnit
  NoPost        \* attributes that were not parsed

ASSUME ReceiverAssumption ==
  /\ QueueCap \in Nat \ {0}
  /\ ZeroLed \subseteq Posts
  /\ RetryCount \in Nat
  /\ SendMayFail \in BOOLEAN /\ Unanswered \subseteq Posts
  /\ NoPost \notin Posts
  /\ Hole \notin Posts \X Cell /\ Junk \notin Posts \X Cell
  /\ \A f \in Posts : EncodedLen(f) <= MaxCell

VARIABLES
  uuid,       \* uuid[p]: UUID of the last FlowFile opened on p
  job,        \* job[p]: the file being rebuilt on p, or NoJob
  done,       \* done[p]: the current UUID was queued already
  workChan,   \* complete jobs that wait for a thread
  active,     \* active[t]: the job thread t works on, or NoJob
  tries,      \* tries[t]: attempts to send thread t's file that failed
  tmpFiles,   \* temporary files that exist
  crashed,    \* a nil pointer was followed: the process is gone
  forwarded,  \* history: what was sent to the HTTP endpoint
  rejected    \* history: files that failed verification

rvars == <<uuid, job, done, workChan, active, tries, tmpFiles, crashed,
           forwarded, rejected>>

-----------------------------------------------------------------------------
Content == (Posts \X Cell) \cup {Hole, Junk}

Buffers == [base : 0 .. MaxCell, mem : [Cell -> Content],
           file : [Cell -> Content]]

Job == [size : Nat, total : Nat, seen : SUBSET Nat, noBuf : BOOLEAN,
        attrs : Posts \cup {NoPost}, buf : Buffers]

ASSUME NilAssumption == NoJob \notin Job

TypeOK ==
  /\ uuid \in [Ports -> Uuids]
  /\ job \in [Ports -> Job \cup {NoJob}]
  /\ done \in [Ports -> BOOLEAN]
  /\ workChan \in Seq(Job) /\ Len(workChan) <= QueueCap
  /\ active \in [Threads -> Job \cup {NoJob}]
  /\ tries \in [Threads -> 0 .. RetryCount]
  /\ tmpFiles \in Int
  /\ crashed \in BOOLEAN
  /\ forwarded \subseteq
       [post : Posts, verdict : {"passed", "skipped"}, file : [Cell -> Content]]
  /\ rejected \subseteq [Cell -> Content]

ReceiverInit ==
  /\ uuid = [p \in Ports |-> NoUuid]
  /\ job = [p \in Ports |-> NoJob]
  /\ done = [p \in Ports |-> FALSE]
  /\ workChan = << >>
  /\ active = [t \in Threads |-> NoJob]
  /\ tries = [t \in Threads |-> 0]
  /\ tmpFiles = 0
  /\ crashed = FALSE
  /\ forwarded = {}
  /\ rejected = {}

-----------------------------------------------------------------------------
(* A packet of a FlowFile other than the last one opens a new job and      *)
(* throws away what was rebuilt of the last one.                           *)
NewJob(pkt) ==
  [size  |-> DeclaredLen(pkt.post),
   total |-> TotalChunks(DeclaredLen(pkt.post)),
   seen  |-> {}, noBuf |-> FALSE, attrs |-> NoPost, buf |-> NewBuffer]

(* Mutant: a finished file is opened again by its own late packets. *)
Opens_AfterDone(p, pkt) == Uuid[pkt.post] # uuid[p] \/ done[p]

(* Mutant: a job that was begun is kept until it is complete. *)
Opens_KeepsOpen(p, pkt) == Uuid[pkt.post] # uuid[p] /\ job[p] = NoJob

Opens(p, pkt) == Uuid[pkt.post] # uuid[p]
JobFor(p, pkt) == IF Opens(p, pkt) THEN NewJob(pkt) ELSE job[p]
DoneFor(p, pkt) == ~Opens(p, pkt) /\ done[p]

(* Mutant: the file of a job that is thrown away stays on disk. *)
TmpFor_KeepsOld(p, pkt) == IF Opens(p, pkt) THEN tmpFiles + 1 ELSE tmpFiles

(* The new temporary file, less the one of a job that is thrown away. *)
TmpFor(p, pkt) ==
  IF ~Opens(p, pkt) THEN tmpFiles
  ELSE IF job[p] = NoJob THEN tmpFiles + 1 ELSE tmpFiles

Index(pkt) == (pkt.off + 1) \div Mtu

(* Mutant: the short circuit for files that are done is missing. *)
IsIdle_NoDone(p, pkt) == pkt.len = 0

(* The packet needs no job: its file is done, or it is a bare header. *)
IsIdle(p, pkt) == DoneFor(p, pkt) \/ pkt.len = 0

(* The packet holds a chunk that its job expects and does not have. *)
IsNews(p, pkt) ==
  /\ ~IsIdle(p, pkt)
  /\ JobFor(p, pkt) # NoJob
  /\ Index(pkt) < JobFor(p, pkt).total
  /\ Index(pkt) \notin JobFor(p, pkt).seen

-----------------------------------------------------------------------------
(* StreamFunc has seen the whole header and the eight bytes after it: it   *)
(* takes the attributes, and those eight bytes as the payload size.        *)
HeaderIntact(f, file) ==
  \A c \in Cell : c < SentHeaderLen(f) => file[c] = <<f, c>>

Parsed(b) ==
  LET fs == {f \in Posts : /\ SentHeaderLen(f) + 1 <= b.base
                           /\ HeaderIntact(f, b.file)}
  IN  IF fs = {} THEN NoPost ELSE CHOOSE f \in fs : TRUE

Data(pkt) == [c \in Cell |-> <<pkt.post, c>>]

(* The packet's cells written straight to the file. *)
Direct(file, pkt) ==
  [c \in Cell |-> IF c >= pkt.off /\ c < pkt.off + pkt.len
                  THEN <<pkt.post, c>> ELSE file[c]]

(* The job once the packet's data is put away. *)
Kept(j, pkt, noBuf, attrs, buf) ==
  [size |-> j.size, total |-> j.total, seen |-> j.seen \cup {Index(pkt)},
   noBuf |-> noBuf, attrs |-> attrs, buf |-> buf]

Buffered(j, pkt) ==
  LET b == WriteAt(j.buf, pkt.off, Data(pkt), pkt.len)
  IN  Kept(j, pkt, FALSE, IF j.attrs = NoPost THEN Parsed(b) ELSE j.attrs, b)

(* The window was missed: what it holds is written out and every packet    *)
(* from this one on goes straight to the file.                             *)
Overflowed(j, pkt) ==
  LET b == FlushAll(WithFile(j.buf, Truncated(j.buf.file, j.size)))
  IN  Kept(j, pkt, TRUE, j.attrs,
           WithFile(b, Direct(Truncated(b.file, j.size), pkt)))

Unbuffered(j, pkt) ==
  Kept(j, pkt, TRUE, j.attrs, WithFile(j.buf, Direct(j.buf.file, pkt)))

Stored(j, pkt) ==
  IF j.noBuf THEN Unbuffered(j, pkt)
  ELSE IF Misses(j.buf, pkt.off, pkt.len) THEN Overflowed(j, pkt)
  ELSE Buffered(j, pkt)

(* Mutant: the last chunk is not looked for. *)
AllSeen_ButLast(j) == \A k \in 0 .. j.total - 2 : k \in j.seen

AllSeen(j) == \A k \in 0 .. j.total - 1 : k \in j.seen

-----------------------------------------------------------------------------
(* handle, one packet: it may open a job, and is then ignored ... *)
Ignore(p, pkt) ==
  /\ ~crashed
  /\ IsIdle(p, pkt) \/ (JobFor(p, pkt) # NoJob /\ ~IsNews(p, pkt))
  /\ uuid' = [uuid EXCEPT ![p] = Uuid[pkt.post]]
  /\ job' = [job EXCEPT ![p] = JobFor(p, pkt)]
  /\ done' = [done EXCEPT ![p] = DoneFor(p, pkt)]
  /\ tmpFiles' = TmpFor(p, pkt)
  /\ UNCHANGED <<workChan, active, tries, crashed, forwarded, rejected>>

(* ... or finds no job to belong to, and job.total follows a nil pointer;  *)
NilJob(p, pkt) ==
  /\ ~crashed
  /\ ~IsIdle(p, pkt)
  /\ JobFor(p, pkt) = NoJob
  /\ crashed' = TRUE
  /\ UNCHANGED <<uuid, job, done, workChan, active, tries, tmpFiles,
                 forwarded, rejected>>

(* ... or fills a gap of its job; *)
Fill(p, pkt) ==
  /\ ~crashed
  /\ IsNews(p, pkt)
  /\ LET j == Stored(JobFor(p, pkt), pkt) IN
       /\ ~AllSeen(j)
       /\ job' = [job EXCEPT ![p] = j]
  /\ uuid' = [uuid EXCEPT ![p] = Uuid[pkt.post]]
  /\ done' = [done EXCEPT ![p] = FALSE]
  /\ tmpFiles' = TmpFor(p, pkt)
  /\ UNCHANGED <<workChan, active, tries, crashed, forwarded, rejected>>

(* Mutant: the channel never holds the handler up. *)
Complete_NoWait(p, pkt) ==
  /\ ~crashed
  /\ IsNews(p, pkt)
  /\ LET j == Stored(JobFor(p, pkt), pkt) IN
       /\ AllSeen(j)
       /\ workChan' = Append(workChan, j)
  /\ job' = [job EXCEPT ![p] = NoJob]
  /\ uuid' = [uuid EXCEPT ![p] = Uuid[pkt.post]]
  /\ done' = [done EXCEPT ![p] = TRUE]
  /\ tmpFiles' = TmpFor(p, pkt)
  /\ UNCHANGED <<active, tries, crashed, forwarded, rejected>>

(* ... or fills its last gap, and the job goes to the workers.  A full     *)
(* channel holds the handler up until there is room.                       *)
Complete(p, pkt) ==
  /\ ~crashed
  /\ Len(workChan) < QueueCap
  /\ IsNews(p, pkt)
  /\ LET j == Stored(JobFor(p, pkt), pkt) IN
       /\ AllSeen(j)
       /\ workChan' = Append(workChan, j)
  /\ job' = [job EXCEPT ![p] = NoJob]
  /\ uuid' = [uuid EXCEPT ![p] = Uuid[pkt.post]]
  /\ done' = [done EXCEPT ![p] = TRUE]
  /\ tmpFiles' = TmpFor(p, pkt)
  /\ UNCHANGED <<active, tries, crashed, forwarded, rejected>>

Handle(p, pkt) ==
  Ignore(p, pkt) \/ NilJob(p, pkt) \/ Fill(p, pkt) \/ Complete(p, pkt)

-----------------------------------------------------------------------------
(* doWork takes a job off the channel and starts a goroutine for it. *)
Dispatch(t) ==
  /\ ~crashed
  /\ active[t] = NoJob
  /\ workChan # << >>
  /\ active' = [active EXCEPT ![t] = Head(workChan)]
  /\ workChan' = Tail(workChan)
  /\ UNCHANGED <<uuid, job, done, tries, tmpFiles, crashed, forwarded,
                 rejected>>

(* job.size > 0: the eight bytes after the header were read as a size. *)
SizeKnown(j) == j.attrs # NoPost /\ j.attrs \notin ZeroLed

(* Mutant: the hash is expected to cover as many cells as the payload has, *)
(* header included.                                                        *)
HashMatches_FromStart(j) ==
  LET f == j.attrs
  IN  Sum[f] # "bad" /\ RunEnd(j.buf) = PayloadLen[f]

(* The running hash matches: what was streamed after the header is the     *)
(* payload, all of it, and its checksum is the one of the header.          *)
HashMatches(j) ==
  LET f == j.attrs
      file == Flushed(j.buf).file
  IN  /\ Sum[f] # "bad"
      /\ RunEnd(j.buf) = EncodedLen(f)
      /\ \A c \in Cell : c >= SentHeaderLen(f) /\ c < EncodedLen(f)
                           => file[c] = <<f, c>>

(* Mutant: an abandoned buffer is trusted. *)
Verdict_TrustsDisk(j) ==
  IF ~SizeKnown(j) THEN "skipped"
  ELSE IF j.noBuf \/ (~FlushFails(j.buf) /\ SumPresent(j.attrs)
                      /\ HashMatches(j))
  THEN "passed" ELSE "failed"

(* Once the buffer was abandoned the hash is taken over the file from its  *)
(* first byte, header included, and a checksum of the payload never        *)
(* matches it.                                                             *)
Verdict(j) ==
  IF ~SizeKnown(j) THEN "skipped"
  ELSE IF /\ ~j.noBuf
          /\ ~FlushFails(j.buf)
          /\ SumPresent(j.attrs)
          /\ HashMatches(j)
  THEN "passed" ELSE "failed"

(* The temporary file when it is read back. *)
Image(j) == IF SizeKnown(j) /\ j.noBuf THEN j.buf.file
            ELSE Flushed(j.buf).file

(* The worker's end: the temporary file is removed whatever happened. *)
Release(t) ==
  /\ active' = [active EXCEPT ![t] = NoJob]
  /\ tries' = [tries EXCEPT ![t] = 0]
  /\ tmpFiles' = tmpFiles - 1
  /\ UNCHANGED <<uuid, job, done, workChan, crashed>>

Reject(t) ==
  /\ ~crashed
  /\ active[t] # NoJob
  /\ Verdict(active[t]) = "failed"
  /\ rejected' = rejected \cup {Image(active[t])}
  /\ Release(t)
  /\ UNCHANGED forwarded

(* The file ends before the payload its header announces. *)
EndsEarly(j, f) ==
  /\ j.noBuf => j.size < EncodedLen(f)
  /\ \A c \in Cell : c >= EncodedLen(f) - 1 => Image(j)[c] = Hole

(* Sending such a file with a checksum never ends: File.Read replaces the  *)
(* end of file by the error of the running checksum, nil.                  *)
Endless(j) ==
  \E f \in Posts : /\ HeaderIntact(f, Image(j)) /\ EndsEarly(j, f)
                   /\ PayloadLen[f] > 0 /\ SumPresent(f)

(* The scanner reads f off the temporary file, and hs.Send has begun.      *)
Sends(t, f) ==
  /\ ~crashed
  /\ active[t] # NoJob
  /\ Verdict(active[t]) # "failed"
  /\ HeaderIntact(f, Image(active[t])) /\ ~Endless(active[t])

(* The endpoint takes what one attempt sends it. *)
Taken(t, f) ==
  forwarded' = forwarded \cup
    {[post |-> f, verdict |-> Verdict(active[t]), file |-> Image(active[t])]}

(* An attempt failed: the file is sent again after a while, but for the    *)
(* last time, when the error is dropped and nobody is told.                *)
TriesAgain(t) ==
  \/ /\ tries[t] < RetryCount
     /\ tries' = [tries EXCEPT ![t] = @ + 1]
     /\ UNCHANGED <<uuid, job, done, workChan, active, tmpFiles, crashed>>
  \/ tries[t] = RetryCount /\ Release(t)

(* One attempt: the endpoint takes the file and says so, ... *)
Forward(t, f) ==
  /\ Sends(t, f)
  /\ Taken(t, f)
  /\ Release(t)
  /\ UNCHANGED rejected

(* ... takes it and its answer does not arrive, ... *)
LoseAnswer(t, f) ==
  /\ f \in Unanswered
  /\ Sends(t, f)
  /\ Taken(t, f)
  /\ TriesAgain(t)
  /\ UNCHANGED rejected

(* ... or does not take it. *)
SendFails(t, f) ==
  /\ SendMayFail
  /\ Sends(t, f)
  /\ TriesAgain(t)
  /\ UNCHANGED <<forwarded, rejected>>

(* No FlowFile can be scanned: nobody is told. *)
Discard(t) ==
  /\ ~crashed
  /\ active[t] # NoJob
  /\ Verdict(active[t]) # "failed"
  /\ \A f \in Posts : ~HeaderIntact(f, Image(active[t]))
  /\ Release(t)
  /\ UNCHANGED <<forwarded, rejected>>

Attempt(t, f) == Forward(t, f) \/ LoseAnswer(t, f) \/ SendFails(t, f)

Work(t) == Dispatch(t) \/ Reject(t) \/ (\E f \in Posts : Attempt(t, f))
             \/ Discard(t)

ReceiverNext ==
  \/ \E p \in Ports, pkt \in Packets : Handle(p, pkt)
  \/ \E t \in Threads : Work(t)

ReceiverSpec == ReceiverInit /\ [][ReceiverNext]_rvars

-----------------------------------------------------------------------------
Intact(f, file) == \A c \in Cell : c < EncodedLen(f) => file[c] = <<f, c>>

(* A FlowFile is queued for the workers only when it has no gap: what      *)
(* packets were lost, repeated or overtaken, every chunk was counted, and  *)
(* unless the window was overrun every cell of the declared size is in the *)
(* file or in the window (handle and its seenChunks scan).                 *)
NoGap(j) ==
  /\ 0 .. j.total - 1 \subseteq j.seen
  /\ ~j.noBuf => \A c \in Cell :
       c < j.size => c < j.buf.base \/ j.buf.mem[c] # Hole

QueuedIsComplete ==
  /\ \A i \in DOMAIN workChan : NoGap(workChan[i])
  /\ \A t \in Threads : active[t] # NoJob => NoGap(active[t])

(* Every FlowFile sent on is, cell for cell, one that was posted: packets  *)
(* of several files, repeated and out of order, never mix, and shifting    *)
(* the window never misplaces data (handle and WriterAtBuf together).      *)
ForwardedIntact == \A r \in forwarded : Intact(r.post, r.file)

(* A file that passed the checksum has the payload that was posted, even   *)
(* when the window was overrun (doWork).                                   *)
PassedIsIntact ==
  \A r \in forwarded : r.verdict = "passed" => Intact(r.post, r.file)

(* Verification throws away no FlowFile that was rebuilt correctly.        *)
IntactNotRejected ==
  \A file \in rejected : \A f \in Posts : ~Intact(f, file)

(* A handler that has no job stores no chunk: after a file was queued its  *)
(* late packets are recognised by done, never by job.                      *)
NoNilJob == ~crashed

(* The temporary files are exactly those of the jobs being rebuilt, queued *)
(* or verified: a job thrown away for another file, rejected or sent       *)
(* leaves none behind.                                                     *)
NoStrayTmpFile ==
  tmpFiles = Cardinality({p \in Ports : job[p] # NoJob}) + Len(workChan)
               + Cardinality({t \in Threads : active[t] # NoJob})
=============================================================================
