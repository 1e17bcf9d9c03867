# flowfile-utils in TLA+

flowfile-utils is a set of small Go programs that move *FlowFiles* (attributes, an
optional checksum, a payload) from one place to another: over HTTP, over one-way UDP
links, over KCP, through a directory, through a diode.  This directory models the
programs in TLA+, alone and together with the program at their other end, checks small
instances with TLC and proves the main safety results for every instance with TLAPS.

Paths are relative to the root of the repository, which is kept under `src/` here:
`ff-*.go` and `lib-*.go` stand for `src/src/ff-*.go` and so on, the library
`go-flowfile` for `src/src/vendor/github.com/pschou/go-flowfile`, and `go-memdiskbuf`
for `src/src/vendor/github.com/pschou/go-memdiskbuf` (both are by the author of the
programs and hold half of their logic).

- [1. The system](#1-the-system)
- [2. The modules](#2-the-modules)
- [3. The runs](#3-the-runs)
- [4. What is proved](#4-what-is-proved)
- [5. What the models show about the code](#5-what-the-models-show-about-the-code)
- [6. Limits](#6-limits)
- [7. What is left](#7-what-is-left)

## 1. The system

| Component | State | Operations | What is hard |
|---|---|---|---|
| **UDP sender** `ff-http-to-udp.go`, `lib-udp.go` | channel of idle workers (a source port paired with a destination port), sized wait group `swg` of files being sent, per post the open/closed state of its connection | `post`: take a worker, wake the far end, buffer and verify the payload, wait for `swg`, send every packet, send every packet again, put the worker back | concurrent posts share ports; a worker is held while `swg` is waited for; the client may hang up at any point and is watched by another goroutine; each error path must give everything back |
| **UDP receiver** `ff-udp-to-http.go` | per port the UUID of the current file, its job (ring buffer, seen chunks, temporary file), `done`; the channel `workChan`; jobs being verified or sent on | `handle`: one packet; `doWork`: verify, send on with retries, remove the temporary file | packets lost, repeated, overtaken, of another file; the window missed; a full channel; verification by a hash that was computed while streaming; an endpoint whose answer is lost |
| **Ordering buffer** `go-memdiskbuf/writeatbuf.go` (`WriterAtBuf`) | start of the window, ring, list of filled intervals, file | `WriteAt`, `shift`, `Flush`, `FlushAll` | pieces behind, across and beyond the window |
| **Stager** `ff-stager.go` | per POST a `.dat`, an `.inprogress`, later a `.json` | `post` with its deferred rename | crash between two file operations; a rename that fails unnoticed; a POST with several files of which one fails; `-rm-partial` |
| **Unstager** `ff-unstager.go` | listing, entry in hand, tries | replay loop, retries, removal of `.json` and `.dat` | crash between answer and removal; removals that fail unnoticed; lost answers; refusals; giving up |
| **Socket tunnel** `ff-socket.go` (both ends) | `socketMap`, per session the TCP connection, `rn`, `tn` and the map of early packets | accept, `newSession`, a read loop per session, `post` | packets overtake each other and posts of one session run concurrently; the number is compared outside the lock; an EOF is a packet like any other |
| **KCP link** `ff-http-to-kcp.go`, `ff-kcp-to-http.go` | channels `connBuf` and `worker`; per connection a request/answer protocol (`OKAY`, `FAIL`, end mark as ping) | `post` on both sides, `ping`, the refill loop | connections are used again after a block; a bounded channel filled by posts and by the refill loop, which looks at two lengths that change in between; closing is not noticed at the other end |
| **File sender** `ff-sender.go`, `segmenter.go` | files left, threads, one `err` for all of them | deduplication, segmenting, `Send` with retries | an attempt whose answer is lost goes on beside the next one; the shared error |
| **Receiver to disk** `ff-receiver.go`, `save.go`, `checksum.go` | the files, symbolic links, a `.progress` per file | `post`, `Save`, `updateIndexFile`, `VerifyParent` | segments of one file arrive concurrently, again, or after those of an earlier file of that name; the last two race for the verification; a restart between creating and sizing a file, or between creating and writing its `.progress` |
| **HTTP library** `sender.go`, `reciever.go`, `maxLatencyWriter.go` | post writer, connection counter | `doSend`, `Send`, post writers, `ServeHTTP` | retry after a lost answer; closing a writer nothing was written to; an unlocked counter |
| **Diode** `ff-diode.go` | one post writer per POST | pipe a POST through | a refusal passed back |
| **Append-then-read buffer** `go-memdiskbuf/memdiskbuf.go` (`Buffer`) | memory part, disk part, offset | write, read back, reset | the boundary between memory and disk |
| **Tools and set-up** `ff-sink.go`, `ff-flood.go`, `lib-*.go` | counters, flags | – | – |

**How they interact.**  A sender posts to `ff-http-to-udp` over HTTP; that program shares
nothing with `ff-udp-to-http` but the packets of the one-way link, each of which carries
the UUID, the declared size of the file and an offset; `ff-udp-to-http` posts to the next
HTTP endpoint.  `ff-stager` and `ff-unstager` share nothing but a directory.  Two `ff-socket`
post FlowFiles to each other, one per chunk of a TCP stream, over whatever links are in between.
`ff-http-to-kcp` and `ff-kcp-to-http` share pooled KCP connections; `ff-sender` posts to
`ff-receiver` and learns of the outcome by the HTTP status only.  Inside the
programs, goroutines share Go channels (workers, `workChan`, `connBuf`), a wait group and
a few maps.  Everything is in memory but the directories of stager and receiver and the
temporary files, which the programs remove when they are interrupted (`lib-cleanup.go`).

**What makes each correct.**

- *UDP sender*: no worker or send slot is lost, whatever way a post ends; files do not mix
  on a port; nothing unverified is sent; no error means both passes were sent; every
  post returns.
- *UDP receiver with its buffer*: what is queued is complete, what is forwarded is what was
  posted, what is intact is not rejected, temporary files are removed.
- *The link*: no file is rebuilt more often than it was posted, and each is delivered at most `RetryCount + 1` times;
  one copy of every packet is enough, although two are sent.
- *Staging*: a `.json` vouches for its `.dat`; what a client was told was taken is at the
  endpoint or still in the directory; everything taken and renamed is replayed in the end.
- *Socket tunnel*: bytes come out in the order they went in; no number is skipped; nothing that could be
  written is left behind; a connection is closed after all that was sent ahead of the EOF; the target
  sees one connection per client.
- *KCP link*: an answer is for the block it is taken for; blocks do not run into each other on a connection
  that is used again; the pool holds only clean, open connections; no worker is lost; every POST is answered, but for one that waits at a full pool.
- *Sender and receiver of files*: when the sender is done everything it was given is stored, and verified
  as a whole unless a restart left a short `.progress`; the `.progress` never says more than the file holds; a run ends.

The hazards, each at its line, are in `PROJECT.json`.

## 2. The modules

```
UdpWire ──┬─ UdpSender ───┐                      StagingDir ─┬─ Stager ───┐
          └─ UdpReceiver ─┴─ UdpLink                         └─ Unstager ─┴─ Staging
OrderingBuffer ─┘             └ Delivery

KcpConn ─┬─ KcpClient ─┐                         FileData ─┬─ FileSender ───┐
         └─ KcpServer ─┴─ KcpTunnel                        └─ FileReceiver ─┴─ FileTransfer

SocketTunnel

Proofs, each extending the module it is about:
UdpReceiverProofs ─┬─ UdpLinkProofs          StagingProofs
UdpSenderProofs ───┘                         KcpProofs
SocketProofs ── SocketPeersProofs            FileTransferProofs
```

| Module | Models |
|---|---|
| `UdpWire` | the FlowFiles, the layout of their encoding, the packets |
| `OrderingBuffer` | `WriterAtBuf` as operators on a record (base, memory, file) |
| `UdpReceiver` | `handle` and `doWork` of `ff-udp-to-http` |
| `UdpSender` | `post` of `ff-http-to-udp` and its clients |
| `UdpLink` | both over a network that loses and reorders |
| `Delivery` | the abstract promise of a transfer: nothing comes out that was not posted, every post at most once, and each at most `Copies` times |
| `StagingDir` | the directory |
| `Stager`, `Unstager` | the two programs |
| `Staging` | both, each killed and restarted at any point |
| `SocketTunnel` | `ff-socket` at both ends, and links between them that lose and reorder |
| `KcpConn` | the connections between the two KCP programs |
| `KcpClient`, `KcpServer` | `ff-http-to-kcp` and `ff-kcp-to-http` |
| `KcpTunnel` | both; which connection a new one is, which deadlines can pass |
| `FileData` | names and contents of files |
| `FileSender`, `FileReceiver` | `ff-sender` with `Send`, `ff-receiver` with `Save` |
| `FileTransfer` | both, over HTTP connections that break, and with restarts of the receiver |
| `MCUdpReceiver`, `MCUdpSender`, `MCUdpLink`, `MCStaging`, `MCSocketTunnel`, `MCKcpTunnel`, `MCFileTransfer` | values for TLC |
| `UdpReceiverProofs`, `UdpSenderProofs`, `UdpLinkProofs`, `StagingProofs`, `SocketProofs`, `SocketPeersProofs`, `KcpProofs`, `FileTransferProofs` | lemmas, theorems and proofs |

Definitions named `X_Something` next to a definition `X` are mutated forms of it: the
way a plausible bug would read.  They are used by no specification; `PROJECT.json` names
the property each of them breaks.

### Data

**Cells.**  The UDP modules count lengths and offsets in *cells*.  Cell `i` of the encoding of
file `f` is the value `<<f, i>>`, so any misplacement, mix-up or gap is visible in the
content, and a checksum "matches" exactly if every cell of the payload is the one posted.
A cell stands for at least eight bytes, because the one place where the code looks at
bytes inside the payload region is `job.size`, read from eight bytes
(`ff-udp-to-http.go:300-306`).  The set `ZeroLed` names the files whose first eight
payload bytes are zero; in `recv_any` and `link_ordered` that is one of the two, so that one file is verified
and the other forwarded without, and corruption could show.  Unwritten memory is `Hole`; bytes of another offset that the
straddling branch of `WriteAt` leaves in the window are `Junk`.

**Sizes.**  `DeclaredLen` is the size in every packet, computed before a checksum is added
(`ff-http-to-udp.go:178`), `EncodedLen` what is really sent.

**FlowFiles in the staging modules** are model values with a verdict (`Sum`) and a flag
for an empty payload (`Empty`); a `.dat` is a sequence of them.

### UDP receiver ↔ code

| Module | Code |
|---|---|
| `uuid`, `job`, `done` | `lastUUID`, `job`, `done` of `handle` (`ff-udp-to-http.go:215-222`) |
| `workChan`, `active` | the channel, and the goroutines `doWork` starts |
| `Opens`, `JobFor` | a packet with another UUID discards the current job (`:247-277`) |
| `Ignore`, `NilJob`, `Fill`, `Complete` | the four outcomes of one packet; `Complete` waits while the channel is full |
| `Parsed` | the attributes the streaming function picks up (`:284-323`) |
| `Stored` | `WriteAt`, or, once the window was missed, `FlushAll` and direct writes (`:343-361`) |
| `Verdict`, `Reject`, `Discard` | `doWork` throws a file away: a checksum that fails, or nothing to be scanned |
| `Forward`, `LoseAnswer`, `SendFails`, `tries` | one attempt of `hs.Send` each (`sender.go:276-316`): taken and answered, taken and not answered, not taken; after the last one that fails the error is dropped (`ff-udp-to-http.go:194`) |
| `Release` | the temporary file is removed, whatever happened |
| `crashed` | a nil `job` was followed |

In `ReceiverSpec` a port reads *any* packet of any file at any time, which covers every loss,
duplication and reordering.  One packet is one action: a port has a single handler and
the job is its own until it is sent on the channel.

### UDP sender ↔ code

`pc[f]` goes through `queued` (waiting for a worker), `buffer` (reading the upload),
`thread` (waiting for `swg` with a worker in hand), `send1`, `send2`; `stuck` is a read
that never ends.  `Return` is the deferred return of worker and slot.  `HangUp` is the
goroutine that polls the connection table (`ff-http-to-udp.go:140-154`): it may notice
at any moment, so `isOpen` may change between any two packets.  `Leavers` are the files
whose clients may already go away during the upload.

### Staging ↔ code

Each file operation is an action, so a crash (`StagerCrash`, `UnstagerCrash`) falls
between any two: `Open` creates the files, `Stage` writes one FlowFile and verifies it,
`Refuse`, `WriteFails`, `BreakOff` are the error returns, `Publish` is the deferred rename, whose failure the client is not told of.
On the other side `List`, `Pick`, `Accepted`/`Refused`/`NoAnswer`, `Retry`, `GiveUp`,
`RemoveJson`, `RemoveDat` follow the loop; the answer, the first and the second removal are
separate steps, and either removal may fail with its error dropped; `left` remembers the `.json`s that could not be removed.  `Scanned` says which FlowFiles of a `.dat` the scanner finds (section 5).
A POST's attributes file has no content of its own: it lists what is in `.dat`.

### Socket tunnel ↔ code

One packet is `<<s, n>>`, number `n` of session `s`; the data in it is not needed to tell whether it came out
in its place.  `ses` holds the sessions of both ends (`SRC` accepts clients, `DST` dials the target); `socketMap[e]` is
the map of either program.  `Accept` and `Dial` start the read loop of a session; the entry in `socketMap` and the unlock that
`post` waits for are a step of their own (`Enter`, `ff-socket.go:201-203`).  `Read` is one round of a read loop,
the last of which sends the EOF and deletes the entry.  A packet is on its way (`net`) until a post looks it
up or for good; `pc[p]` then goes through `dial` (`newSession`), `compare` (`:294`, without
the lock), `hold` (kept in the map under the lock), or `take`, `write` (`rn` is set, then the connection
written to, still without the lock), `lock` and `play` (the loop over the map).  `overlap` is a history variable: the
connections two posts were ever at work for at the same time.

### KCP link ↔ code

`up[c]` and `down[c]` are what is under way on connection `c`, in order, as KCP promises.  In `KcpClient` a post takes the
next connection of the pool and pings it with an end mark (`conn`, `ping`), takes a worker (`worker`), sends its
FlowFiles and the end mark (`send`), reads the answer (`reply`), and then either puts its worker back (`give`), looks at the length of the pool (`look`) and puts the connection
back (`put`) or closes it, or fails
and closes it (`fail`), which is what its deferred function does.  The refill loop reads the length of one channel (`Look`, into `seen`), then that of the other
and dials (`Refill`), waits for room (`Refilled`) and sleeps (`Sleep`).  `checks` holds the ends that verify (`-no-checksums` unset there), and is chosen at the start.  In `KcpServer` a loop per connection appends to `request[c]`, the body of the HTTP POST it has open, and ends it at the end mark.
Since the server does not notice that a connection was closed, `Unused` lets a new one take the name of one
that was closed only when nothing of the earlier one is left to be read.  `GivesUp` is any of the deadlines; it passes where nothing will
come any more (`Silent`), and for the POSTs in `Failing` at any time.

### Files ↔ code

A file is a sequence of contents, one per segment; item `<<j, i>>` is segment `i` of file `j`, `<<j, 0>>` the whole of
a short one, or a link for a file whose content was met before.  `FileSender` has the goroutines of a run with their attempts and the
shared `err`, and further runs after it.  In `FileReceiver` a post goes through `save`, then for a segment `fill` (the one that has created the file gives it its
size, in any number of steps), `wait`, `write`, `verify`, `remove`; in between is `updateIndexFile`, in steps: at `index` it takes the lock and creates the `.progress`
(`Short`: there, but without its content) or goes to `open`, where one that is there is read; `mark` is where a `.progress` that was just made or starts over gets its first mark; `hung` is a body that breaks off and is read for ever.
`FileTransfer` lets an answer go to the attempt that waits for it, connections break (`Break`, after which the post may still
finish next to that of the next attempt), and the receiver be restarted (`Crash`).

## 3. The runs

All bounds below are constants of the configurations.  States are distinct states.

| Run | Instance | States | Shows |
|---|---|---|---|
| `recv_any` | two files (three and two data packets), two ports, two threads, queue of 1, window = a whole file, block of 3, one retry, attempts that fail and answers that are lost | 49 705 | `QueuedIsComplete`, `ForwardedIntact`, `IntactNotRejected`, `NoNilJob`, `NoStrayTmpFile` |
| `recv_overrun` | a file of 9 cells against a window of 4, and a file without UUID whose added checksum is longer than its payload, so that the end of its header never arrives (`Discard`) | 368 130 | with the window missed: still intact if it *passed* |
| `send_all` | three files (one refused, one without payload), two workers, one send slot | 15 010 | the five safety properties of the sender and `EveryPostReturns` |
| `link_ordered` | a file of two data packets and one without payload, each posted up to twice over one port with loss; one retry, and the answers for one of them may be lost | 768 755 | `NothingMissed`, refinement of `Delivery` |
| `link_redundant` | one file of four packets, up to two packets overtake, loss | 4 630 | `TwoCopiesSuffice` under fairness |
| `stage` | three POSTs: one goes well, one may be cut off and refused by the endpoint, one fails its verification; two tries, two faults, both programs killed anywhere, every open, write, rename and removal may fail | 300 399 | all staging properties, `EverythingReplayed` under fairness |
| `socket` | one client with up to three packets and its EOF, the target may answer with an EOF, two posts at a time, three sessions | 797 262 | `NothingSkipped`, `InOrder`, `NothingStranded`, `ClosedAfterAll`, `OneConnection`, `EveryPacketArrives` under fairness |
| `kcp` | three POSTs (one with a corrupt FlowFile behind a good one, one empty), two threads, three connections, a pool for two (`Slack = 0`), either the client or the server verifies, deadlines, an endpoint that may refuse, connections left over from a stopped server | 765 176 | `OkIsForItsBlock`, `BlocksApart`, `OnlyVerifiedPassed`, `PoolIsClean`, `WorkersAccounted`, `EveryPostAnswered` under fairness |
| `files` | a file of three segments and one with the same content, then a run with a changed one over it and a short file; one fault (a connection that breaks, or a restart), one retry, a connection limit | 58 633 | `DoneMeansStored`, `DoneMeansVerified`, `ProgressTellsTruth`, `RunEnds` under fairness |
| `recv_overrun_corrupts`, `socket_stranded`, `files_stuck` | | | the disagreements of section 5 |

**Why these bounds are enough to meet the interesting cases.**

- The file that matters in an instance has at least two data packets and the window holds at least two; in `recv_any` and
  `link_ordered` a block is not a multiple of a packet, so the window shifts in the middle of a packet, and
  `recv_overrun` has a file of more than two windows, so packets lie behind and beyond it.
- Two files and two ports are what mixing needs; two threads and a queue of one are what
  a full channel and two verifications at once need.
- Three posts on two workers and one slot have posts waiting at both places at once.
- Two posts of two files each over one port: a file returns after another one, the only
  way to get the same UUID opened twice.
- In `stage` two faults allow a crash after a lost answer, and two tries make giving up
  reachable within that; a crash of the stager is not counted as a fault, as it ends the POSTs
  that are under way, of which there are finitely many.

- In `socket` two posts at a time are what the race at the comparison needs, four packets what is needed
  for one to be kept behind another one that is kept, and three sessions for a second connection to the target.
- In `kcp` two threads and three connections have posts wait for workers while they hold connections and the refill loop race with a
  post that puts its connection back; the pool has room for two connections (the code has room for four more than threads, and
  would need that many more posts), so that it does fill up, with a post or the loop waiting at it; the corrupt FlowFile has one in front of it and one behind, so that a block
  is broken off in the middle with more under way.
- In `files` three segments race for the file, its marks and the verification, one of them may be sent again, and the second run meets the files, links
  and `.progress` of the first.  One fault is enough for a post to go on beside its retry, or for a receiver that has forgotten what it was doing.

**Fairness.**  Only what the Go scheduler gives: a goroutine that can step does so in the end (weak
fairness per post, per handler, per worker thread, of the unstager's loop).  `Receive(p)` being fair
says that a packet under way is read or lost in the end.  Clients need not post, nor stay; in
`stage` the operator starts a dead unstager again (`Restart` is fair) and faults are bounded,
i.e. they stop at some time: with an endpoint that never answers nothing can be replayed.  No
strong fairness is assumed: the channel of workers is first-in first-out for waiting goroutines,
but `EveryPostReturns` holds in the instance without using that, since clients post
a bounded number of times.

In `socket` clients and targets need not send, and what is sent need not arrive; `EveryPacketArrives` is about packets that do.
In `kcp` deadlines pass only where nothing will come, except for one POST, and the server's loops are fair for connections that are open.
In `files` nothing is assumed about restarts; `RunEnds` is about runs without one.

**Deadlock** is checked where the system must not stop (`recv_any`).  It is off where it may: clients post
a bounded number of times and then stop, and a process that crashed does nothing more.

## 4. What is proved

TLAPS checks the following for every value of the constants that satisfies the
named assumptions (`UuidAssumption`, `LengthAssumption`, `ChecksumAssumption`, `BufferAssumption`,
`ReceiverAssumption`, `NilAssumption`; `SenderAssumption`, `LinkAssumption`; `ContentAssumption`, `StagerAssumption`,
`UnstagerAssumption`; `SocketAssumption`; `KcpAssumption`, `ClientAssumption`, `ServerAssumption`; in the file modules `SenderAssumption`,
`ReceiverAssumption`, `TransferAssumption`, `NoFileAssumption`), which TLC
evaluates in the runs.  They say what kind of thing a constant is, that there are workers, slots and windows to use,
that an encoding fits the cells of the model and a file has no more segments than its `.progress` has room for;
none bounds the number of anything else.

**UDP receiver** (`UdpReceiverProofs`), any packets in any order:

| Theorem | States | Further assumption |
|---|---|---|
| `TypeCorrect` | `[]TypeOK`, the channel within its capacity | – |
| `QueuedComplete` | `[]QueuedIsComplete` | files have distinct UUIDs |
| `PassedIntact` | `[]PassedIsIntact` | distinct UUIDs |
| `AllForwardedIntact` | `[]ForwardedIntact` | distinct UUIDs; every file fits the window and is as long as declared |
| `NilJobNever` | `[]NoNilJob` | no file has the zero UUID |
| `TmpFilesOwned` | `[]NoStrayTmpFile` | – |
| `GoodNotRejected` | `[]GoodKept`: no file with a good checksum is thrown away once it was rebuilt | distinct UUIDs; every file fits the window and is as long as declared |
| `IntactKept` | `[]IntactNotRejected` | the same, and all checksums good |

None of the properties is inductive: that a queued file has no gap depends on how seen chunks and
stored cells went together since the job was opened.  The invariant is `JobsRebuild`: every
job (on a port, in the channel, with a thread) *rebuilds* one file, the one of the port's
UUID, i.e. it has that file's declared size and number of chunks, and unless the window
was missed

- `SeenIsStored`: every cell of a chunk that was seen is behind the window or in it,
- `StoredIsSeen`: every cell that is stored belongs to a chunk that was seen,
- `DataInPlace`: what is stored is what the file has at that place.

`StoredIsSeen` is what rules out the two harmful branches of `WriteAt`: a chunk that was not seen has no
stored cell, so it lies entirely at or after the start of the window (`NewsIsAhead`), and a piece never
straddles it.  That the straddling branch misplaces data is thus shown to be unreachable from
this program, not assumed.  Jobs in the channel or with a thread are in addition
complete (`Whole`).  `PassedIntact` then needs only that the running hash covers the payload of
a header that was itself parsed from the file (`HeaderTells`).  `AllForwardedIntact` adds
`NothingUnbuffered`: no job ever missed its window.  `NilJobNever` rests on `JobOrDone`.
`TmpFilesOwned` counts: `TmpCounted` says that the temporary files are as many as the jobs on ports, in the channel and
with threads together, and that these sets are finite, which they are although nothing is assumed of `Ports` or `Threads`:
only a packet gives a port a job.  `GoodNotRejected` shows that the window of a whole job is one run of cells from
its base to the end of the file (`WholeRun`), so that the running hash has covered exactly the payload (`WholePasses`).
The lemmas about the buffer itself (`OrderingBuffer`) are the first section of `UdpReceiverProofs`, those about packets and chunk
numbers (`ChunkIndex`, `ChunksApart`, `ChunksCover`) the next.

**UDP sender** (`UdpSenderProofs`), any posts, workers and send slots, posts repeated and clients hanging up:

| Theorem | States |
|---|---|
| `SenderTypes` | `[]SenderTypeOK` |
| `NoWorkerLost` | `[]WorkersConserved` |
| `VerifiedBeforeSent` | `[]OnlyVerifiedSent` |
| `FilesInOnePiece` | `[]PortsCarryWholeFiles` |
| `SuccessMeansSentTwice` | `[]OkMeansSentTwice` |

`SenderInv` says who has a worker: exactly the posts between taking one off the channel and the deferred return (`HoldersHold`),
each worker once, on the channel or with one post (`WorkersApart`); that `sends` is the posts that send (`SlotsHeld`),
which is what keeps them within `MaxSends`; that a pass is at an offset it really visits (`OffsetsOnGrid`); and that what is sent
was verified (`CheckedFirst`).  `FilesInOnePiece` needs in addition that the last packet of a port in use is its holder's
(`HolderSentLast`), or a packet could be added behind another file's.  `SuccessMeansSentTwice` follows the two passes:
everything in front of the offset of the first pass is on the wire once; in the second pass everything is, and what is in front of
the offset twice, at different places (`PassesCounted`).

**UDP link** (`UdpLinkProofs`), sender and receiver together, links that may lose any packet:

| Theorem | States | Further assumption |
|---|---|---|
| `NoMoreThanPosted` | `ImplementsDelivery`: `UdpLink` implements `Delivery`, with `RetryCount + 1` copies | distinct UUIDs; a link keeps the order of its packets (`Overtake = 0`) |
| `OneCopySuffices` | `[]NothingMissed` | the same; every file fits the window and gets no checksum added (`AllFit`), and has a UUID; sending on does not fail for good (`SendMayFail = FALSE`; answers may be lost) |

The refinement mapping is in `UdpLink`: what is posted is `attempts`, what is delivered `copies`: how often the endpoint took each of the files that were
rebuilt.  A request is `Hand`, the first time a job is taken `Deliver`, every further time `Repeat`, everything else a stutter.  That `Deliver` is only taken while
`Len(copies[f]) < attempts[f]`, and `Repeat` only below `RetryCount + 1`, is the theorem.  The latter is `CopiesInPlace`: a thread whose file was taken has a place of its
own in `copies` and is ahead of its count by `tries`.  The former holds because every post can be rebuilt and sent on once and no more.  `Claims(f)` is the set of what may still make a file of `f` without another post: a post that waits for a worker; a run
of packets of `f` on the wire that its port has not begun to read, i.e. one that does not follow another packet of `f` or meet a handler that holds its
UUID (`Begins`); and a job of `f` on a port, in the channel, or with a thread that the endpoint has not taken it from yet.  `NoMore`: `Len(copies[f])` and the claims together are at most `attempts[f]`.
Each step carries the claims over one to one: an injection from the claims after it into those before it, which moves up the runs
behind a packet that was read or lost, turns the run that a packet opens into the job it opens, and the first job of the channel into that
of a thread (`TakingKeeps`, `LosingKeeps`, `DispatchKeeps`).  That a port never has two files between each other (`WorkersApart` of the
sender) is why a packet added to the wire begins a run only if it is a wake-up (`WireClaims`).  Where packets of two files overtake each other a port
opens each of them again and again, and a file may come out more often than it was posted.

`OneCopySuffices` says that two passes are enough: at rest no file is missing of which the client stayed, `post` reported success and each chunk lost at most
one of its copies.  `Held(f, p, b, n, m)` is the invariant behind it: on the wire of `p` a stretch of nothing but `f` ends at place `b`, and of each chunk below offset `n` a
copy is in the stretch, was lost, or was seen by the handler, if the stretch begins at the head of the wire; of each chunk below `m` one more.
`Tracked(f)` follows `post`: in the first pass the stretch ends with the wire and `n` is the offset the pass is at, in the second pass `m` is,
and after a success both are the length of the file, wherever the stretch has moved to.  A packet that is sent lengthens the stretch (`HeldGrows`),
one that is read or lost moves it up (`HeldShifts`): the handler then has seen it (`HandleSees`), or one copy is lost; a second one that is lost puts the
file into `lostTwice`.  What the handler has seen it keeps, as nothing but `f` comes in between.  When a file that is held twice has nothing left under way, its
port has seen every chunk and would have queued the job (`HeldNotEmpty`); and a file that was queued is sent on (`StaysReceived`), being whole and verified by the sender.
The hypotheses are what the code needs: a bigger file spills out of the window if one of its chunks is late, and its checksum then fails; the declared size leaves out a checksum that is added; the zero UUID ends the receiver
(`NilJobNever`); a file is dropped when no attempt to send it on succeeds.  `link_ordered` is an instance of all of them.

**Staging** (`StagingProofs`), any POSTs, any number of retries, faults and crashes:

| Theorem | States | Further assumption |
|---|---|---|
| `StagingTypeCorrect` | `[]TypeOK` | – |
| `JsonVouches` | `[]PublishedIsWhole` | – |
| `ReplayedIsVerified` | `[]OnlyVerifiedReplayed` | – |
| `NoLoss` | `[]NothingLost` | the endpoint does not refuse; a POST has at most one FlowFile with payload, its last |

The invariant `IInv` ties the two programs together.  `StagedInv(u)`: while a POST is under way its
`.dat` is the prefix of it that was verified, there is no `.json` and no answer; once a `.json`
exists its `.dat` stays that prefix, unless the `.json` could not be removed and the `.dat` was (`Bereft`); an answer "ok" means the prefix is the whole,
which stays in the `.dat` too where the rename failed and the `.inprogress` is still there.
`UnstagerInv`: what is listed has a `.json`, the entry in hand is not in the rest of the listing, its POST
has ended, it has a `.json` up to `RemoveJson` and none at `RemoveDat` unless that failed.  The last part
is what makes a removal safe at any crash: a `.dat` goes only when nothing vouches for it, or its `.json` is one that could not be removed.  `NoLoss`
adds `CleanInv`: at the removal everything in `.dat` is at the endpoint.

**Socket tunnel** (`SocketProofs`, `SocketPeersProofs`), any number of clients, sessions, packets and concurrent posts:

| Theorem | States |
|---|---|
| `TunnelTypes` | `[]SocketTypeOK` |
| `NoNumberSkipped` | `[]NothingSkipped` |
| `StreamInOrder` | `[]InOrder` |
| `NoneStranded` | `[]NothingStranded` |
| `ClosedAfterLast` | `[]ClosedAfterAll` |
| `OneConnectionEach` | `[]OneConnection` |

`NothingSkipped` holds whatever posts race, but not inductively: a post that found its packet to be in turn may set `rn` much later.
`Coverage` therefore says of such a post too that everything ahead of its packet is *covered*, i.e. written to the
connection or in the hands of a post about to write it, and the same of a post that plays the buffer out, up to its `next`.
`InOrder` and `NothingStranded` are about connections that never had two posts at a time.  `Noted` says that `overlap` misses no such
pair, so a connection outside of it has at most one post (`OnePost`); `Stream` then relates what was written to `rn`, and
both to where that post is: between `take` and `write` the packet in hand is number `rn`, at `lock` and `play` the next one
is `rn + 1`, and when there is no post in the play-out the buffer does not hold `rn + 1`.  `WellFormed` says that a post has a session of the end and
the `socketId` its packet is for.

The last two relate both ends (`PeersInv`).  `ClosedByEof`: a connection that was closed was written as many packets as the
peer's loop has numbered, and that loop has ended; with `InOrder` this is `ClosedAfterAll`.  `OneConnectionEach` argues about the time at which a
second session could be made: a post that found no session in the map (`NoneToDial`) is the only one of its client, so no
session of it reads.  For that, a session that reads is in the map (`InMap`), except while its first post, which entered it there,
has still to come to its comparison (`Entered`), and except when the peer's loop has ended and nothing of it will be looked up any more
(`Finished`).  `PassedOn` (every number counted was looked up) is what shows the latter when a connection is closed.
`Onward` collects what no step takes back, from which most of these are kept by steps of other posts.

**KCP link** (`KcpProofs`), any POSTs, blocks, threads and connections, with deadlines and refusals:

| Theorem | States |
|---|---|
| `LinkTypes` | `[]KcpTypeOK` |
| `OkIsDeserved` | `[]OkIsForItsBlock` |
| `NoBlocksMixed` | `[]BlocksApart` |
| `PoolStaysClean` | `[]PoolIsClean` |
| `NoWorkerLost` | `[]WorkersAccounted` |
| `VerifiedIfEitherChecks` | `[]OnlyVerifiedPassed` |

What makes an answer that of the right block is that a connection changes hands clean.  `Held`: the pool, a post or
the refill loop has it, one of them, and what is closed nobody has.  `WireInv`: what nobody uses is empty in both directions (`FreeEmpty`);
what a post finds on its connection is fixed by where the post is (`Finds`): while it sends, what the HTTP POST
got followed by what is under way is the part of the block sent so far (`Carries`), or the other end has given up;
while it waits, the whole block and its end mark, or an `OKAY` behind which an HTTP POST of this block has ended (`Taken`); and
a connection that was given up, whose loop at the other end may still be reading, carries at most the rest of one block (`Tidy`).
`VerifiedIfEitherChecks` adds `SentVerified`: where the client alone verifies, everything under way and in every open POST of the other end was sent by a
post that had verified it.

**Sender and receiver of files** (`FileTransferProofs`), any sequence of runs, any number of goroutines, retries and connections,
with connections that break and restarts of the receiver between any two of its file operations:

| Theorem | States | Further assumption |
|---|---|---|
| `TransferTypes` | `[]TransferTypeOK` | `LinksApart` |
| `StoredWhenDone` | `[]DoneMeansStored` | `DistinctNames` |
| `VerifiedWhenDone` | `[]DoneMeansVerified` | `DistinctNames` |
| `ProgressTruthful` | `[]ProgressTellsTruth` | `DistinctNames` |
| `PathsKeepTheirSize` | `[]StoreKept` | `DistinctNames`, `Steady` |

`DistinctNames`: every path is given to a run once.  `Steady`: a path keeps its size from run to run and is no link in one of several
runs that have it; the three properties name it themselves (`Smooth`).  `LinksApart`: what a link leads to is no link.  It follows from the other two
(`SteadyApart`), and is why `real[n] = link[n]` (`RealIsLink`): `real` follows links by recursion, and one step is all it
ever takes.  `MCFileTransfer` assumes all three, so TLC shows that the instance of the runs is one of those the theorems are about.

The invariant, `SafeInv`, has three parts.  `TypeInv` adds to the types which post has what to send (`PostsSent`), where links come from (`LinksMade`) and that
a post that is past `save` has a file under it (`Placed`).  `KeptInv` holds whatever fails or is late.  `StoreKept` is the heart
of it: a file is missing or no longer than its size (`SizesKept`); one that a segment is giving its size is shorter and has only zeros in it, and
no other segment is about to do so (`FillsAlone`, by `O_EXCL`); and a segment that is past its wait writes into a file that has its size (`Sized`), so that
`WriteAt` neither skips nor extends (`PutSized`).  `MarksOwned` says whose parts a `.progress` counts, `RemovesVerified` that it goes only when a post
has found all of them.  `LockAlone` is the mutex of `updateIndexFile`, and `ShortMade` says where a `.progress` without content comes from: a post that is about to write it, or a restart.

`GoodInv` is about transfers where no `Send` has failed and no post is late.  What `Send` has returned for is stored (`OverStored`), and so is what a post has written
(`WrittenStored`) and what is marked (`MarkedStored`).  Only a post that creates its own short file again takes a part away (`InPlaceKept`), and its
item is not over then.  `DoneMeansVerified` needs more, as the marks of the last segments go with the `.progress` they are in: `OverMarked` says that as long as a file
is not verified some segment of it is not over, and those that are over are marked in a `.progress` of this run, if there are any.  So the
last segment to be marked finds all of them.  As making, starting over and marking a `.progress` are several steps, `Holders` says what holds in between: a post that is about to make the
first mark is of a file of which no segment is over, and while a post of an earlier run has the lock no segment of this one is.  A restart takes all posts away and leaves what is stored, linked and marked;
where it leaves a `.progress` without content nothing is claimed of that file any more (`LeftShort`), as the code never verifies it.

**Only model-checked**: all liveness (`EveryPostReturns`, `TwoCopiesSuffice`, `EverythingReplayed`, `EveryPacketArrives`, `EveryPostAnswered`,
`RunEnds`), which TLAPS does not reach, as it has no support for reasoning about `ENABLED`.  Every other property
of the passing runs is the subject of a theorem.

## 5. What the models show about the code

The three runs that find a violation, with the sentence of the repository they disagree with
(`PROJECT.json` quotes it):

1. `recv_overrun_corrupts`: when a packet misses the window, `FlushAll` writes the first bytes of
   the ring at the place of every filled interval (`writeatbuf.go:153-166`).  A file whose header was not
   yet streamed then skips verification and is forwarded displaced.
2. `socket_stranded`: a post compares the number of its packet with `rn` before it takes the lock
   (`ff-socket.go:294`).  If the post of the predecessor plays the buffer out in between, the packet is kept although its
   turn has come, and so is everything after it.
3. `files_stuck`: only the post that creates a file gives it its size (`save.go:117-122`); all others wait
   until it has it.  A receiver stopped between the two leaves an empty file that every later segment, of later runs too, waits for.

These are in the models too, without a run of their own, since no sentence of the repository says
otherwise or the passing properties exclude them by a named condition:

- A file shorter than a block, or whose payload starts with eight zero bytes, has
  `job.size` 0 and is forwarded without its checksum being looked at (`ff-udp-to-http.go:136`).
- With `-add-checksum` the size in the packets is that before the checksum was added
  (`ff-http-to-udp.go:178`): the receiver queues the file without its last bytes and it never arrives, or, when the
  end of the header is among them, a worker finds nothing to scan (`Discard`).  `recv_overrun` has the latter, the other
  runs have `AddChecksum = FALSE`; `AllForwardedIntact` names the condition (`EncodedLen = DeclaredLen`).
- `hs.Send` sends a file again after an attempt that failed, up to three times (`ff-udp-to-http.go:61-62`, `:194`, `sender.go:276-316`).  When it is only the answer that was lost the
  endpoint gets the file again (`LoseAnswer`, for the files in `Unanswered`; the proofs leave that set open), so `Delivery` allows `RetryCount + 1` copies of each.  When the last attempt fails the error is dropped and the
  file is gone (`SendFails`): `OneCopySuffices` assumes that this does not happen.
- A client that goes away in the middle of an upload leaves `io.Copy` reading zero bytes
  for ever, because `File.Read` replaces the connection's error by that of the running hash
  (`file.go:189-195`).  In `ff-http-to-udp` the worker is gone (`stuck`), in `ff-receiver` the handler (`hung`), in the
  stager the POST.  In `send_all` the clients that go away during the upload are those of files without a checksum, which the error reaches: `EveryPostReturns` does not hold of the others;
  in `files` the sender goes on with the next attempt.  In `ff-http-to-kcp` it is not modelled.
- When the rename at the end of `post` fails, its error is dropped and the client is told 200 all the same (`ff-stager.go:93-94`, `Publish`).  The FlowFiles stay in a `.dat` with
  an `.inprogress`, which the unstager never lists: `NothingLost` says that they are there, `EverythingReplayed` leaves them out (`u \notin tmp`).
- The unstager drops the errors of both removals (`ff-unstager.go:85-86`).  A `.json` that could not be removed is replayed again, or, if its `.dat` was removed, makes the
  unstager give up on it at every start (`Hopeless`); a `.dat` that could not be removed is left behind.
- A FlowFile the endpoint answers with an error status is removed as "Success"
  (`ff-unstager.go:84`, `sender.go:409-414`): `NothingLost` excludes the POSTs in `Unwanted`.
- Once a file missed its window, the hash is taken over the temporary file from offset 0, header
  included, instead of over the payload (`ff-udp-to-http.go:153-161`): such a file is always
  rejected if its size is known (`Verdict`).  This is why `IntactNotRejected` is checked where files
  fit the window.
- A packet of another file discards the one being rebuilt (`:248`), so when packets of successive
  files overtake each other both passes may be wasted; `link_redundant` therefore reorders within one
  file, and `link_ordered` keeps the order between files.
- A file without `uuid` as the first one on a port has the zero UUID that the handler starts with: no job
  is opened, and its first data packet follows a nil pointer (`:339`).  `NilJobNever` has
  that as its assumption and `recv_overrun` such a file.
- A file that ends before its declared payload makes sending it endless (`Endless`), for the
  same reason: `File.Read` hides the end of the file.
- If a `.dat` holds several FlowFiles with payload, only the first is replayed, after which the `.dat` is
  removed: payloads are read with `ReadAt`, which does not move the file position from which the next
  header is scanned (`ff-unstager.go:92`, `file.go:221`).  `NoLoss` names this condition (`AllScanned`), and the
  property `NothingLost` is about POSTs that meet it.
- A `.dat` without FlowFiles, which an empty POST leaves, holds the unstager up for ever: closing
  a post writer nothing was written to waits for a loop that never started (`maxLatencyWriter.go:41`,
  action `Hang`).
- With `-script` and `-rm` the stager removes the `.dat` before the deferred rename creates the `.json`
  (`ff-stager.go:92-93, 147-149`), so that a `.json` without `.dat` is left and the unstager gives up on it.  The
  script hook is not in the model.

- `ff-kcp-to-http` answers `OKAY` at the end mark without looking at the status of the HTTP request
  (`ff-kcp-to-http.go:121-124`), so 200 means only that the block was passed on (`OkIsForItsBlock`).  By `src/README.md:705-706` "the entire block determines the
  success or failure", and by `sender.go:430-431` all files are marked as failed if the POST is not a success; this end does not do so.
- A post of `ff-http-to-kcp` looks at the length of the pool before it puts its connection back (`ff-http-to-kcp.go:189-190`), and the refill loop at two lengths before it dials (`:86-88`).  What they look at
  may change in between, so both may find the pool full, and then wait until a post takes a connection: `EveryPostAnswered` leaves a post that waits there out.  It has been through by then
  but for its answer.  The code has room for four connections more than threads (`Slack`), so this takes that many more posts than the instance has; the run has no room to spare.
- First packets of a client that are looked up side by side make a connection to the target each
  (`ff-socket.go:274`): `OneConnection` is about connections without concurrent posts.  `hs.Send` tries a
  packet once and nobody looks at its error, so a lost packet ends the stream (`Lookup`).
- All goroutines of `ff-sender` assign the result of `Send` to one `err` (`ff-sender.go:155`): another one that succeeds
  in between hides a failure and `done.` is printed (`Succeeds`, `GivesUp`, `Check`).  `DoneMeansStored` is about runs in which no `Send` has failed.
- A post that was given up by its sender may `os.Create`, and so empty, a file its retry has just finished, and a post of an earlier run
  may go on in a later one (`Late`); the properties are about runs without either.
- Content that was met before is sent as a link.  When a later run sends a changed file of the linked name, it is written
  through the link, over the other file.  A file that has grown or shrunk since the last run meets one of another size: longer ones wait for
  it to grow (`Wait`), shorter ones are marked as seen without being written (`Skips`).  Files of the instance keep their size between runs.
- `updateIndexFile` creates a `.progress` and writes it in later calls (`ff-receiver.go:219-225`).  A receiver that is stopped in between leaves one that is too short to be read
  (`Short`): from then on every segment of that file, retries and later runs included, is answered 200 (`:238-241`, `Unreadable`), and the file is never verified, although the
  run of `ff-sender` ends well.  It is the same shape as 3, but silent.  `DoneMeansVerified` leaves out the files a restart has left like that, and no others.
- A file just as long as `max-partition-size` is one segment of count 1, which is neither marked nor verified (`Single`).
- Sending again what was complete leaves a `.progress` behind, as the first segment finds none (`Index`).
- `MaxConnections` answers an error one connection early, and handlers that hang count (`TooBusy`).

## 6. Limits

Left out of the modelled programs, and why:

- *UDP*: pacing (it only delays packets); metrics; the custody chain and all other attribute
  formatting (only lengths matter); the bytes of the packet header (a packet is a record); two packets of
  one file that declare different sizes (a sender computes it once); IO errors of the temporary file;
  the removal of temporary files on an interrupt.
- *The UDP sender's* wait for a worker is modelled without the order in which goroutines wait.
- *UDP receiver to endpoint*: the handshake ahead of a retry, whose outcome is not looked at, and the pause between two tries (`hs.RetryDelay`); what of a file an attempt
  that fails has got to the endpoint counts as nothing (the endpoint sees a POST that breaks off).
- *Reordering across files* is unbounded in `ReceiverSpec`, and bounded by `Overtake` in `UdpLink`.
- *Staging*: the script hook with `-rm`, the check of the `path` attribute, errors of reading the
  directory (the loop logs them and goes on), two unstagers on one directory, a file system that loses
  or reorders completed operations at a power failure (nothing is synced, so the claim is about killed
  processes only).
- *Socket tunnel*: the wrap-around of the numbers (63 bits), short writes to the connection, and links that duplicate
  a packet (`hs.Send` is called with no retry).
- *KCP link*: KCP itself (loss, retransmission, its window) is an ordered stream; uploads that break off; `Dial` fails only when the instance has no connection left (it makes a
  UDP socket and waits for nobody).
- *Files*: operations on the disk that fail; a write cut in half by the restart (a call to the file system is done or not; what takes several calls takes several steps: filling, marking);
  directories, empty files, modes and times, the script hook, the checks of paths.  A `.progress` has room for the
  segments of the file it was made for and `IdLength` more (`ff-receiver.go:222-225`); a later file of that name with still
  more would never be complete.  `TransferAssumption` keeps files below that.  A path that is given to one run twice, and links
  that lead to links or in a circle (which `os.Create` and `os.OpenFile` refuse with an error), are outside of the theorems and the runs.
- *Counters* are bounded in the guards: `MaxAttempts` posts of a file, `NetCap` packets under
  way, `MaxFaults` faults, `MaxTries` and `Retries` (the flag `-retries`), `MaxSessions`, `MaxPackets`, `MaxPosts`,
  `Conns`.
- Components with status `not_modelled` in `PROJECT.json`: those of section 7, and set-up, TLS, flags,
  watchdog, metrics output and the test tools, which keep no state that others rely on.

## 7. What is left

### Not modelled

- `ff-diode`: one loop per POST that hands what it reads to a post writer and waits on one that fails; posts share no state.
- `Buffer` of `go-memdiskbuf`, replaced by the bytes it was given.  A write that starts one byte before the end of the
  memory part skips that byte (`memdiskbuf.go:42`).
- Handshakes and the HEAD method of the HTTP library; attributes, custody chain, metrics, the tools.

### Next

1. `DiskBuffer`: `Buffer` as operators, against a plain byte sequence as reference.
2. `Diode` with the post writers and the handshake.
3. `real` for links that lead to links: a bound on the recursion, and the errors of a circle.
