----------------------------- MODULE FileReceiver -----------------------------
(***************************************************************************)
(* ff-receiver: concurrent posts save files and segments of files under    *)
(* the base path.  What is stored is a sequence of contents, one for every *)
(* segment; a file that is shorter than one has a single part.             *)
(***************************************************************************)
EXTENDS FileData

CONSTANTS
  Zeros,          \* the content of a part that was not written, or not all
  NoFile,         \* a file, or a .progress, that does not exist
  Short,          \* a .progress that was created and not written out
  MaxConnections  \* flag -max-http-sessions, 0 for no limit

(* Length of a fragment.identifier.  A file with at most so many segments  *)
(* finds room for its marks in the .progress of any other.                 *)
IdLength == 36

ASSUME ReceiverAssumption ==
  /\ Zeros \notin Data
  /\ MaxConnections \in Nat

VARIABLES
  store,     \* store[n]: the file n, or NoFile
  link,      \* link[n]: what n is a symbolic link to, n if it is none
  progress,  \* progress[n]: fragment.identifier and parts seen in n.progress
  posts,     \* the FlowFiles of the posts that are running
  pc,        \* pc[q]: where post q is
  torn,      \* posts whose body is cut off
  verified   \* history: fragment.identifiers that VerifyParent was happy with

receivervars == <<store, link, progress, posts, pc, torn, verified>>

(* A FlowFile: a whole file has count 0 and a link, to target, no data.    *)
FlowFile(Id) ==
  [kind : {"file"}, id : Id, name : Names, data : Data, part : Nat,
   count : 0 .. IdLength] \cup [kind : {"link"}, name : Names, target : Names]

ReceiverTypeOK(Id) ==
  /\ store \in [Names -> Seq(Data \cup {Zeros}) \cup {NoFile}]
  /\ link \in [Names -> Names]
  /\ progress \in
       [Names -> [id : Id, seen : SUBSET (1 .. IdLength)] \cup {NoFile, Short}]
  /\ \A q \in DOMAIN posts : posts[q] \in FlowFile(Id)
  /\ DOMAIN pc = DOMAIN posts
  /\ pc \in [DOMAIN posts ->
               {"save", "fill", "wait", "write", "index", "open", "mark",
                "verify", "remove", "hung"}]
  /\ torn \subseteq DOMAIN posts
  /\ verified \subseteq Id

ReceiverInit ==
  /\ store = [n \in Names |-> NoFile]
  /\ link = [n \in Names |-> n]
  /\ progress = [n \in Names |-> NoFile]
  /\ posts = << >> /\ pc = << >>
  /\ torn = {}
  /\ verified = {}

-----------------------------------------------------------------------------
real[n \in Names] == IF link[n] = n THEN n ELSE real[link[n]]

Path(q) == real[posts[q].name]
Segmented(q) == posts[q].kind = "file" /\ posts[q].count > 0
Whole(q) == posts[q].kind = "file" /\ posts[q].count = 0
At(q, l) == q \in DOMAIN pc /\ pc[q] = l
Goto(q, l) == pc' = [pc EXCEPT ![q] = l]
Size(n) == IF store[n] = NoFile THEN 0 ELSE Len(store[n])
Nothing(n) == link[n] = n /\ store[n] = NoFile

(* A POST gets to a handler, *)
Arrive(q, f) ==
  /\ posts' = [r \in DOMAIN posts \cup {q} |-> IF r = q THEN f ELSE posts[r]]
  /\ pc' = [r \in DOMAIN posts \cup {q} |-> IF r = q THEN "save" ELSE pc[r]]

(* which ends, with an answer, *)
Ends(Q) ==
  /\ posts' = [r \in DOMAIN posts \ Q |-> posts[r]]
  /\ pc' = [r \in DOMAIN posts \ Q |-> pc[r]]
  /\ torn' = torn \ Q

(* at once if there are too many of them, posts that hang among them.      *)
TooBusy == MaxConnections > 0 /\ Cardinality(DOMAIN posts) + 1 >= MaxConnections

(* A link is made where there is nothing yet; its post is done. *)
MakeLink(q) ==
  /\ At(q, "save") /\ posts[q].kind = "link"
  /\ LET n == posts[q].name
     IN  link' = IF Nothing(n) THEN [link EXCEPT ![n] = posts[q].target] ELSE link
  /\ Ends({q})
  /\ UNCHANGED <<store, progress, verified>>

(* os.Create of a whole file, through a link if there is one *)
Create(q) ==
  /\ At(q, "save") /\ Whole(q)
  /\ store' = [store EXCEPT ![Path(q)] = << >>]
  /\ Goto(q, "write")
  /\ UNCHANGED <<link, progress, posts, torn, verified>>

(* The first segment of a file creates it, *)
CreateExclusive(q) ==
  /\ At(q, "save") /\ Segmented(q)
  /\ LET n == posts[q].name
     IN  IF Nothing(n)
         THEN store' = [store EXCEPT ![n] = << >>] /\ Goto(q, "fill")
         ELSE UNCHANGED store /\ Goto(q, "wait")
  /\ UNCHANGED <<link, progress, posts, torn, verified>>

(* Mutant: one segment less. *)
Fill_Short(q) ==
  /\ At(q, "fill")
  /\ store' = [store EXCEPT ![posts[q].name] = FullFile(Zeros, posts[q].count - 1)]
  /\ Goto(q, "wait")
  /\ UNCHANGED <<link, progress, posts, torn, verified>>

(* and makes it longer until it has its size, *)
Fill(q) ==
  LET n == posts[q].name IN
  /\ At(q, "fill")
  /\ \E k \in 1 .. posts[q].count :
       /\ k > Size(n) \/ k = posts[q].count
       /\ store' = [store EXCEPT ![n] = FullFile(Zeros, k)]
       /\ IF k = posts[q].count THEN Goto(q, "wait") ELSE UNCHANGED pc
  /\ UNCHANGED <<link, progress, posts, torn, verified>>

(* for which the others wait. *)
Wait(q) ==
  /\ At(q, "wait")
  /\ store[Path(q)] # NoFile /\ Size(Path(q)) >= posts[q].count
  /\ Goto(q, "write")
  /\ UNCHANGED <<store, link, progress, posts, torn, verified>>

(* Half a minute later a file that is not there makes the handler panic.   *)
Panics(q) == At(q, "wait") /\ store[Path(q)] = NoFile

(* A file that is too long is left as it is. *)
Skips(q) == Segmented(q) /\ Size(Path(q)) # posts[q].count
Cell(q) == IF Segmented(q) THEN posts[q].part ELSE 1
Put(q, d) ==
  LET s == store[Path(q)] IN
  IF Skips(q) THEN s ELSE [i \in DOMAIN s \cup {Cell(q)} |-> IF i = Cell(q) THEN d ELSE s[i]]

(* The body is read into its place; that of a whole file is verified.      *)
Write(q) ==
  /\ At(q, "write") /\ (q \in torn => Skips(q))
  /\ store' = [store EXCEPT ![Path(q)] = Put(q, posts[q].data)]
  /\ IF Whole(q) THEN Ends({q}) ELSE Goto(q, "index") /\ UNCHANGED <<posts, torn>>
  /\ UNCHANGED <<link, progress, verified>>

(* A body that breaks off is read forever, File.Read hiding the error, and *)
(* what there is of it is written.                                         *)
WriteTorn(q) ==
  /\ At(q, "write") /\ q \in torn /\ ~Skips(q)
  /\ \/ UNCHANGED store
     \/ /\ Put(q, posts[q].data) # store[Path(q)]
        /\ store' = [store EXCEPT ![Path(q)] = Put(q, Zeros)]
  /\ Goto(q, "hung")
  /\ UNCHANGED <<link, progress, posts, torn, verified>>

-----------------------------------------------------------------------------
(* updateIndexFile has nothing to do for a file of one segment. *)
Single(q) ==
  /\ At(q, "index") /\ posts[q].count = 1
  /\ Ends({q})
  /\ UNCHANGED <<store, link, progress, verified>>

Unlocked == \A r \in DOMAIN pc : pc[r] \notin {"open", "mark"}

(* It takes the lock.  A .progress that is not there is made, *)
Index(q) ==
  LET n == posts[q].name IN
  /\ At(q, "index") /\ posts[q].count > 1 /\ Unlocked
  /\ IF progress[n] = NoFile
     THEN progress' = [progress EXCEPT ![n] = Short] /\ Goto(q, "mark")
     ELSE UNCHANGED progress /\ Goto(q, "open")
  /\ UNCHANGED <<store, link, posts, torn, verified>>

(* one that has gone meanwhile, or is too short to be read, is the end, *)
Unreadable(q) ==
  /\ At(q, "open") /\ progress[posts[q].name] \in {NoFile, Short}
  /\ Ends({q})
  /\ UNCHANGED <<store, link, progress, verified>>

Readable(q) == At(q, "open") /\ progress[posts[q].name] \notin {NoFile, Short}

(* Mutant: marks of another identifier are kept. *)
StartOver_Kept(q) ==
  LET f == posts[q] IN
  /\ Readable(q) /\ progress[f.name].id # f.id
  /\ progress' = [progress EXCEPT ![f.name].id = f.id]
  /\ Goto(q, "mark")
  /\ UNCHANGED <<store, link, posts, torn, verified>>

(* and one of another identifier starts over. *)
StartOver(q) ==
  LET f == posts[q] IN
  /\ Readable(q) /\ progress[f.name].id # f.id
  /\ progress' = [progress EXCEPT ![f.name] = [id |-> f.id, seen |-> {}]]
  /\ Goto(q, "mark")
  /\ UNCHANGED <<store, link, posts, torn, verified>>

(* Either gets its first mark, which does not make a file of several       *)
(* segments complete, in vain if os.Remove came in between.                *)
MarkFirst(q) ==
  LET f == posts[q] IN
  /\ At(q, "mark")
  /\ progress' = IF progress[f.name] = NoFile THEN progress
                 ELSE [progress EXCEPT ![f.name] = [id |-> f.id, seen |-> {f.part}]]
  /\ Ends({q})
  /\ UNCHANGED <<store, link, verified>>

AddMark(q) ==
  LET f == posts[q] IN
  /\ Readable(q) /\ progress[f.name].id = f.id
  /\ progress' = [progress EXCEPT ![f.name].seen = @ \cup {f.part}]
  /\ UNCHANGED <<store, link, verified>>

Complete(q) == 1 .. posts[q].count \subseteq progress[posts[q].name].seen

(* Mutant: the marks are read ahead of setting the own one. *)
MarkNext_Before(q) ==
  /\ AddMark(q)
  /\ IF Complete(q) THEN Goto(q, "verify") /\ UNCHANGED <<posts, torn>> ELSE Ends({q})

(* One more mark in a .progress of this file may be the last.              *)
MarkNext(q) ==
  /\ AddMark(q)
  /\ IF 1 .. posts[q].count \subseteq progress[posts[q].name].seen \cup {posts[q].part}
     THEN Goto(q, "verify") /\ UNCHANGED <<posts, torn>>
     ELSE Ends({q})

Intact(q) == store[Path(q)] = FullFile(posts[q].data, posts[q].count)

(* VerifyParent, where a checksum that differs is the end of the post.     *)
VerifyParent(q) ==
  /\ At(q, "verify") /\ Intact(q)
  /\ Goto(q, "remove")
  /\ verified' = verified \cup {posts[q].id}
  /\ UNCHANGED <<store, link, progress, posts, torn>>

(* os.Remove of the .progress, whosever it is by now *)
Remove(q) ==
  /\ At(q, "remove")
  /\ progress' = [progress EXCEPT ![posts[q].name] = NoFile]
  /\ Ends({q})
  /\ UNCHANGED <<store, link, verified>>

(* Steps of a post that goes on, *)
Handle(q) ==
  \/ Create(q) \/ CreateExclusive(q) \/ Fill(q) \/ Wait(q) \/ VerifyParent(q)
  \/ WriteTorn(q) \/ (Write(q) /\ ~Whole(q))
  \/ Index(q) \/ StartOver(q) \/ (MarkNext(q) /\ q \in DOMAIN pc')

(* those that end with 200, *)
Accept(q) ==
  \/ MakeLink(q) \/ (Write(q) /\ Whole(q)) \/ Remove(q)
  \/ Single(q) \/ Unreadable(q) \/ MarkFirst(q) \/ (MarkNext(q) /\ q \notin DOMAIN pc')

(* and those that end with an error or no answer at all. *)
Fail(q) ==
  /\ Panics(q) \/ (At(q, "verify") /\ ~Intact(q))
  /\ Ends({q})
  /\ UNCHANGED <<store, link, progress, verified>>

(* The server is stopped and started again. *)
Restart ==
  /\ Ends(DOMAIN posts)
  /\ UNCHANGED <<store, link, progress, verified>>
===============================================================================
