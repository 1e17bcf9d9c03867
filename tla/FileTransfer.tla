----------------------------- MODULE FileTransfer -----------------------------
(***************************************************************************)
(* ff-sender and ff-receiver together.  Post <<r, it, t>> is the handler   *)
(* for attempt t at item it of run r; connections break, after which an    *)
(* earlier post may still be at work next to that of the next attempt.     *)
(***************************************************************************)
EXTENDS FileSender, FileReceiver

CONSTANT
  MaxFaults  \* bound: connections that break, and restarts of ff-receiver

ASSUME TransferAssumption ==
  /\ MaxFaults \in Nat
  /\ \A r \in Runs : \A j \in DOMAIN Files[r] : Files[r][j].parts <= IdLength

VARIABLES
  breaks, restarts,
  late      \* history: in this run a post of an earlier one went on, or one
            \* of an earlier attempt created its file

vars == <<sendervars, receivervars, breaks, restarts, late>>

Ids == Runs \X Nat

ASSUME NoFileAssumption ==
  LET marks == [id : Ids, seen : SUBSET (1 .. IdLength)]
  IN  NoFile \notin Seq(Data \cup {Zeros}) \cup marks \cup {Short} /\ Short \notin marks

TransferTypeOK ==
  /\ SenderTypeOK
  /\ ReceiverTypeOK(Ids)
  /\ breaks \in Nat /\ restarts \in Nat /\ breaks + restarts <= MaxFaults
  /\ late \in BOOLEAN

Init ==
  /\ SenderInit /\ ReceiverInit
  /\ breaks = 0 /\ restarts = 0
  /\ late = FALSE

-----------------------------------------------------------------------------
Sent(r, it) ==
  LET f == Files[r][it[1]]
  IN  IF IsLink(r, it[1])
      THEN [kind |-> "link", name |-> f.name, target |-> Files[r][First(r, it[1])].name]
      ELSE [kind |-> "file", id |-> <<r, it[1]>>, name |-> f.name, data |-> f.data,
            part |-> it[2], count |-> f.parts]

Current(q) ==
  /\ stage = "sending" /\ q[1] = run
  /\ status[q[2]] = "sending" /\ try[q[2]] = q[3]
Live == {q \in DOMAIN posts : Current(q)}
bounded == <<breaks, restarts>>
Late(q) ==
  late' = (late \/ q[1] # run \/ (~Current(q) /\ Whole(q) /\ At(q, "save")))

(* An attempt is handed to a handler, or refused at once. *)
Try(it) ==
  /\ \/ /\ ~TooBusy
        /\ Begin(it, "sending") \/ Retry(it, "sending")
        /\ Arrive(<<run, it, try[it] + 1>>, Sent(run, it))
     \/ /\ TooBusy
        /\ Begin(it, "lost") \/ Retry(it, "lost")
        /\ UNCHANGED <<posts, pc>>
  /\ UNCHANGED <<store, link, progress, torn, verified, bounded, late>>

GiveUp(it) == GivesUp(it) /\ UNCHANGED <<receivervars, bounded, late>>
CheckErr(it) == Check(it) /\ UNCHANGED <<receivervars, bounded, late>>
Finish == Done /\ UNCHANGED <<receivervars, bounded, late>>

Continue(q) == Handle(q) /\ Late(q) /\ UNCHANGED <<sendervars, bounded>>

(* A handler that ends is answered for, if the sender still waits for it.  *)
Answer(q) ==
  /\ Accept(q) /\ Late(q)
  /\ IF Current(q) THEN Succeeds(q[2]) ELSE UNCHANGED sendervars
  /\ UNCHANGED bounded

Refuse(q) ==
  /\ Fail(q) /\ Late(q)
  /\ IF Current(q) THEN Loses({q[2]}) ELSE UNCHANGED sendervars
  /\ UNCHANGED bounded

MayFault == breaks + restarts < MaxFaults

(* The sender is not there any more for the posts Q, which may have read   *)
(* all there was to read.                                                  *)
Cut(Q) == \E R \in SUBSET Q : torn' = torn \cup R
Untouched == <<store, link, progress, posts, pc, verified>>

Break(q) ==
  /\ MayFault /\ Current(q)
  /\ breaks' = breaks + 1
  /\ Loses({q[2]}) /\ Cut({q})
  /\ UNCHANGED <<Untouched, restarts, late>>

Die(it) ==
  /\ Fatal(it) /\ Cut(Live)
  /\ UNCHANGED <<Untouched, bounded, late>>

(* ff-receiver is restarted and all its posts are gone. *)
Crash ==
  /\ MayFault
  /\ restarts' = restarts + 1
  /\ Restart
  /\ Loses({q[2] : q \in Live})
  /\ UNCHANGED <<breaks, late>>

StartAgain == NewRun /\ late' = FALSE /\ UNCHANGED <<receivervars, bounded>>

Sender ==
  \/ \E it \in Items(run) : Try(it) \/ GiveUp(it) \/ CheckErr(it) \/ Die(it)
  \/ Finish

Handler(q) == Continue(q) \/ Answer(q) \/ Refuse(q)

Next ==
  \/ Sender
  \/ \E q \in DOMAIN posts : Handler(q) \/ Break(q)
  \/ Crash
  \/ StartAgain

Posts == UNION {{r} \X Items(r) \X (1 .. Retries + 1) : r \in Runs}

(* The goroutines of both programs keep running. *)
Spec ==
  /\ Init /\ [][Next]_vars
  /\ WF_vars(Sender)
  /\ \A q \in Posts : WF_vars(q \in DOMAIN posts /\ Handler(q))

-----------------------------------------------------------------------------
(* A path keeps the size of its file, and is no link of an earlier run:    *)
(* otherwise it is written through the link, or not written at all.        *)
Steady ==
  \A r, s \in Runs : r < s => \A j \in DOMAIN Files[r], k \in DOMAIN Files[s] :
    Files[r][j].name = Files[s][k].name =>
      Files[r][j].parts = Files[s][k].parts /\ ~IsLink(r, j) /\ ~IsLink(s, k)

(* Every path is given to a run once. *)
DistinctNames ==
  \A r \in Runs : \A j, k \in DOMAIN Files[r] :
    Files[r][j].name = Files[r][k].name => j = k

(* What is sent as a link is never what a link leads to. *)
LinksApart ==
  \A r, s \in Runs : \A j \in DOMAIN Files[r], k \in DOMAIN Files[s] :
    IsLink(r, j) /\ IsLink(s, k) => Files[r][j].name # Files[s][First(s, k)].name

Smooth == Steady /\ failed = {} /\ ~late
Ended == stage = "done" /\ Smooth

(* When ff-sender is done and no Send has failed, every path it was given  *)
(* holds, through links if need be, the file as it is now: whatever posts  *)
(* broke off, came again or ran side by side, and whatever content and     *)
(* .progress an earlier run had left there (saveRegular, post).            *)
DoneMeansStored ==
  Ended => \A j \in DOMAIN Files[run] :
    LET f == Files[run][j]
    IN  store[real[f.name]] = FullFile(f.data, Files[run][First(run, j)].parts)

(* And every file of several segments was verified as a whole, however the *)
(* last segments raced for its .progress, unless a restart has cut that off*)
(* between its creation and its first write (updateIndexFile).             *)
DoneMeansVerified ==
  Ended => \A j \in DOMAIN Files[run] :
    Files[run][j].parts > 1 /\ ~IsLink(run, j) =>
      \/ <<run, j>> \in verified
      \/ restarts > 0 /\ progress[Files[run][j].name] = Short

(* A part that the .progress of this run has as seen is in its place in the*)
(* file: a part is not marked ahead of its write, and no write undoes it   *)
(* (the order of Save and updateIndexFile, O_EXCL).                        *)
ProgressTellsTruth ==
  Smooth => \A j \in DOMAIN Files[run] :
    LET f == Files[run][j]
    IN  progress[f.name] \notin {NoFile, Short} /\ progress[f.name].id = <<run, j>> =>
          \A i \in progress[f.name].seen : store[real[f.name]][i] = f.data

(* While ff-receiver is up, ff-sender does not wait for it for good. *)
RunEnds ==
  \A r \in Runs : run = r ~> stage # "sending" \/ restarts > 0

(* What the comment in saveRegular says, "Make sure the target file is in  *)
(* place and has the right size": a segment that waits for it gets it.     *)
WaitEnds ==
  \A q \in Posts : At(q, "wait") ~> ~At(q, "wait")
===============================================================================
