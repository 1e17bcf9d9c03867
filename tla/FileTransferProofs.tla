------------------------- MODULE FileTransferProofs -------------------------
(***************************************************************************)
(* ff-sender and ff-receiver are safe for every sequence of runs, every    *)
(* number of goroutines, retries and connections, and however many         *)
(* connections break and restarts there are, between any two file          *)
(* operations of the receiver.                                             *)
(***************************************************************************)
EXTENDS FileTransfer, WellFoundedInduction, TLAPS

-----------------------------------------------------------------------------
(* Every set of naturals that has an element has a least one. *)
LessThan == {ss \in Nat \X Nat : ss[1] < ss[2]}

LEMMA LessThanWellFounded == IsWellFoundedOn(LessThan, Nat)
  BY NatLessThanWellFounded DEF OpToRel, LessThan

LEMMA LeastElement ==
  ASSUME NEW T \in SUBSET Nat, T # {}
  PROVE  \E x \in T : \A y \in T : x <= y
<1>1. PICK x \in T : \A y \in T : ~(<<y, x>> \in LessThan)
  BY LessThanWellFounded, WFMin, Zenon
<1>2. \A y \in T : ~(y < x)
  BY <1>1 DEF LessThan
<1> QED BY <1>2

-----------------------------------------------------------------------------
LEMMA SeqElement ==
  ASSUME NEW S, NEW s \in Seq(S), NEW i \in DOMAIN s
  PROVE  s[i] \in S /\ i \in 1 .. Len(s) /\ 1 .. Len(s) = DOMAIN s /\ Len(s) \in Nat
  OBVIOUS

(* What ff-sender is given. *)
LEMMA RunsAre == Runs = 1 .. Len(Files) /\ Len(Files) \in Nat \ {0}
  BY SenderAssumption DEF Runs

LEMMA FileTyped ==
  ASSUME NEW r \in Runs, NEW j \in DOMAIN Files[r]
  PROVE  /\ r \in Nat \ {0} /\ j \in Nat \ {0}
         /\ Files[r] \in Seq([name : Names, data : Data, parts : Nat])
         /\ Files[r][j].name \in Names /\ Files[r][j].data \in Data
         /\ Files[r][j].parts \in 0 .. IdLength /\ Files[r][j].parts \in Nat
<1> DEFINE Entry == [name : Names, data : Data, parts : Nat]
<1>1. Files[r] \in Seq(Entry) /\ r \in Nat \ {0}
  <2> HIDE DEF Entry
  <2>1. Files \in Seq(Seq(Entry))
    BY SenderAssumption DEF Entry
  <2> QED BY <2>1, SeqElement DEF Runs
<1>2. Files[r][j] \in Entry /\ j \in Nat \ {0}
  <2> HIDE DEF Entry
  <2> QED BY <1>1, SeqElement
<1>3. Files[r][j].parts <= IdLength
  BY TransferAssumption
<1>4. /\ Files[r][j].name \in Names /\ Files[r][j].data \in Data
      /\ Files[r][j].parts \in Nat
  BY <1>2
<1>5. Files[r][j].parts \in 0 .. IdLength
  BY <1>3, <1>4 DEF IdLength
<1> HIDE DEF IdLength
<1> QED BY <1>1, <1>2, <1>4, <1>5

LEMMA LeastOfSame ==
  ASSUME NEW r \in Runs, NEW j \in DOMAIN Files[r]
  PROVE  /\ First(r, j) \in Same(r, j)
         /\ \A l \in Same(r, j) : First(r, j) <= l
<1>1. Same(r, j) \in SUBSET Nat /\ j \in Same(r, j)
  BY FileTyped DEF Same
<1>2. \E k \in Same(r, j) : \A l \in Same(r, j) : k <= l
  BY <1>1, LeastElement
<1> QED BY <1>2 DEF First

(* The first file of a content is one of those that have it, and is itself *)
(* sent as a file.                                                         *)
LEMMA FirstIsFirst ==
  ASSUME NEW r \in Runs, NEW j \in DOMAIN Files[r]
  PROVE  /\ First(r, j) \in DOMAIN Files[r]
         /\ Files[r][First(r, j)].data = Files[r][j].data
         /\ ~IsLink(r, First(r, j))
<1> DEFINE k == First(r, j)
           l == First(r, k)
<1>1. k \in Same(r, j) /\ \A i \in Same(r, j) : k <= i
  BY LeastOfSame
<1>2. j \in 1 .. Len(Files[r])
  BY FileTyped
<1>3. k \in 1 .. j /\ k \in DOMAIN Files[r] /\ Files[r][k].data = Files[r][j].data
  BY <1>1, <1>2, FileTyped DEF Same
<1>4. l \in Same(r, k) /\ l <= k
  <2>1. k \in Same(r, k)
    BY <1>3 DEF Same
  <2> QED BY <2>1, <1>3, LeastOfSame
<1>5. l \in Same(r, j)
  <2>1. l \in 1 .. k /\ Files[r][l].data = Files[r][k].data /\ j \in Nat
    BY <1>2, <1>4 DEF Same
  <2>2. l \in 1 .. j /\ Files[r][l].data = Files[r][j].data
    BY <2>1, <1>3
  <2> QED BY <2>2 DEF Same
<1>6. l \in Nat /\ k \in Nat /\ l <= k /\ k <= l
  BY <1>1, <1>3, <1>4, <1>5 DEF Same
<1>7. l = k
  BY <1>6
<1> QED BY <1>3, <1>7 DEF IsLink

LEMMA ItemIs ==
  ASSUME NEW r \in Runs, NEW it
  PROVE  it \in Items(r) <=>
           \E j \in DOMAIN Files[r] : \E i \in Nat :
             /\ it = <<j, i>>
             /\ IF IsLink(r, j) \/ Files[r][j].parts = 0 THEN i = 0
                ELSE i \in 1 .. Files[r][j].parts
<1>1. \A j \in DOMAIN Files[r] : Files[r][j].parts \in 0 .. IdLength
  BY FileTyped
<1> QED BY <1>1 DEF Items, IdLength

LEMMA ItemTyped ==
  ASSUME NEW r \in Runs, NEW it \in Items(r)
  PROVE  /\ it[1] \in DOMAIN Files[r] /\ it[2] \in 0 .. IdLength
         /\ it = <<it[1], it[2]>>
         /\ IF IsLink(r, it[1]) \/ Files[r][it[1]].parts = 0 THEN it[2] = 0
            ELSE it[2] \in 1 .. Files[r][it[1]].parts
<1>1. PICK j \in DOMAIN Files[r], i \in Nat :
        /\ it = <<j, i>>
        /\ IF IsLink(r, j) \/ Files[r][j].parts = 0 THEN i = 0
           ELSE i \in 1 .. Files[r][j].parts
  BY ItemIs
<1>2. Files[r][j].parts \in 0 .. IdLength
  BY FileTyped
<1> QED BY <1>1, <1>2 DEF IdLength

(* What an attempt posts. *)
LEMMA SentTyped ==
  ASSUME NEW r \in Runs, NEW it \in Items(r)
  PROVE  /\ Sent(r, it) \in FlowFile(Ids)
         /\ Sent(r, it).name = Files[r][it[1]].name
         /\ IsLink(r, it[1]) => /\ Sent(r, it).kind = "link"
                                /\ Sent(r, it).target = Files[r][First(r, it[1])].name
         /\ ~IsLink(r, it[1]) => /\ Sent(r, it).kind = "file"
                                 /\ Sent(r, it).id = <<r, it[1]>>
                                 /\ Sent(r, it).data = Files[r][it[1]].data
                                 /\ Sent(r, it).part = it[2]
                                 /\ Sent(r, it).count = Files[r][it[1]].parts
<1> DEFINE j == it[1]
           f == Files[r][j]
<1>1. j \in DOMAIN Files[r] /\ it[2] \in Nat
  BY ItemTyped DEF IdLength
<1>2. f.name \in Names /\ f.data \in Data /\ f.parts \in 0 .. IdLength /\ j \in Nat
  BY <1>1, FileTyped
<1>3. Files[r][First(r, j)].name \in Names
  BY <1>1, FirstIsFirst, FileTyped
<1>4. <<r, j>> \in Ids
  BY <1>2 DEF Ids
<1> HIDE DEF j, f
<1>5. CASE IsLink(r, j)
  BY <1>5, <1>2, <1>3 DEF Sent, FlowFile, j, f
<1>6. CASE ~IsLink(r, j)
  BY <1>6, <1>1, <1>2, <1>4 DEF Sent, FlowFile, j, f
<1> QED BY <1>5, <1>6 DEF j

-----------------------------------------------------------------------------
(* A FlowFile has the fields of its kind. *)
LEMMA FlowFileTyped ==
  ASSUME NEW f \in FlowFile(Ids)
  PROVE  /\ f.kind \in {"file", "link"} /\ f.name \in Names
         /\ f.kind = "file" => /\ f.id \in Ids /\ f.data \in Data
                               /\ f.part \in Nat /\ f.count \in 0 .. IdLength
         /\ f.kind = "link" => f.target \in Names
  BY DEF FlowFile

-----------------------------------------------------------------------------
(* real follows a link, where the end of every link is none. *)
Flat(l) == l \in [Names -> Names] /\ \A n \in Names : l[l[n]] = l[n]
Follows(f, l) == f = [n \in Names |-> IF l[n] = n THEN n ELSE f[l[n]]]

LEMMA FollowsIsLink ==
  ASSUME NEW l, Flat(l), NEW f, f = CHOOSE g : Follows(g, l)
  PROVE  \A n \in Names : f[n] = l[n]
<1>1. Follows([n \in Names |-> l[n]], l)
  BY DEF Flat, Follows
<1>2. Follows(f, l)
  BY <1>1
<1>3. \A n \in Names : f[n] = IF l[n] = n THEN n ELSE f[l[n]]
  BY <1>2 DEF Follows
<1>4. \A n \in Names : l[n] \in Names /\ l[l[n]] = l[n]
  BY DEF Flat
<1>5. \A n \in Names : f[l[n]] = l[n]
  BY <1>3, <1>4
<1> QED BY <1>3, <1>4, <1>5

LEMMA RealIsLink ==
  ASSUME Flat(link)
  PROVE  \A n \in Names : real[n] = link[n]
<1>1. real = CHOOSE f : Follows(f, link)
  BY DEF real, Follows
<1> QED BY <1>1, FollowsIsLink

-----------------------------------------------------------------------------
(* Types. *)

(* An item that was not tried has no tries. *)
FirstTries == \A it \in Items(run) : status[it] = "todo" => try[it] = 0

(* A post has what its item is sent as, in this run or an earlier one. *)
PostsSent ==
  \A q \in DOMAIN posts :
    /\ q[1] \in Runs /\ q[1] <= run /\ q[2] \in Items(q[1])
    /\ posts[q] = Sent(q[1], q[2])

(* Only what a run sends as a link is one. *)
LinksMade ==
  \A n \in Names : link[n] # n =>
    \E r \in Runs : \E j \in DOMAIN Files[r] :
      /\ IsLink(r, j) /\ n = Files[r][j].name
      /\ link[n] = Files[r][First(r, j)].name

(* Where a post can be, and which of them have a file. *)
PlacedAt(q) ==
  /\ pc[q] # "save" => posts[q].kind = "file"
  /\ pc[q] \notin {"save", "write", "hung"} => posts[q].count > 0
  /\ pc[q] \in {"open", "mark"} => posts[q].count > 1
  /\ pc[q] \notin {"save", "wait"} => store[link[posts[q].name]] # NoFile

Placed == \A q \in DOMAIN posts : PlacedAt(q)

TypeInv == TransferTypeOK /\ FirstTries /\ PostsSent /\ LinksMade /\ Placed

LEMMA LinksFlat ==
  ASSUME LinksApart, LinksMade, link \in [Names -> Names]
  PROVE  Flat(link)
<1> SUFFICES ASSUME NEW n \in Names, link[link[n]] # link[n]
             PROVE  FALSE
  BY DEF Flat
<1>1. link[n] \in Names /\ link[n] # n
  OBVIOUS
<1>2. PICK s \in Runs : \E k \in DOMAIN Files[s] :
        /\ IsLink(s, k) /\ n = Files[s][k].name
        /\ link[n] = Files[s][First(s, k)].name
  BY <1>1 DEF LinksMade
<1>3. PICK r \in Runs : \E j \in DOMAIN Files[r] :
        /\ IsLink(r, j) /\ link[n] = Files[r][j].name
  BY <1>1 DEF LinksMade
<1> QED BY <1>2, <1>3 DEF LinksApart

(* The sender. *)
LEMMA AttemptTyped ==
  ASSUME SenderTypeOK, FirstTries, NEW it \in Items(run), NEW l \in {"sending", "lost"},
         Begin(it, l) \/ Retry(it, l)
  PROVE  (SenderTypeOK /\ FirstTries)'
<1>1. Attempt(it, l) /\ try[it] + 1 \in 0 .. Retries + 1
  BY SenderAssumption DEF SenderTypeOK, FirstTries, Begin, Retry
<1>2. run' = run
  BY <1>1 DEF Attempt
<1>3. try' \in [Items(run) -> 0 .. Retries + 1]
  BY <1>1 DEF Attempt, SenderTypeOK
<1>4. status' \in [Items(run) -> {"todo", "sending", "lost", "check", "ended"}]
  BY <1>1 DEF Attempt, SenderTypeOK
<1>5. SenderTypeOK'
  BY <1>1, <1>2, <1>3, <1>4 DEF Attempt, SenderTypeOK
<1>6. FirstTries'
  BY <1>1, <1>2 DEF Attempt, SenderTypeOK, FirstTries
<1> QED BY <1>5, <1>6

LEMMA LosesTyped ==
  ASSUME SenderTypeOK, FirstTries, NEW its, Loses(its)
  PROVE  (SenderTypeOK /\ FirstTries)'
  BY DEF SenderTypeOK, FirstTries, Loses

LEMMA AnswerTyped ==
  ASSUME SenderTypeOK, FirstTries, NEW it,
         Succeeds(it) \/ Check(it) \/ Fatal(it)
  PROVE  (SenderTypeOK /\ FirstTries)'
  BY DEF SenderTypeOK, FirstTries, Succeeds, Check, Fatal

LEMMA StartTyped ==
  ASSUME NEW r \in Runs, StartOf(r)
  PROVE  (SenderTypeOK /\ FirstTries)'
<1>1. 0 \in 0 .. Retries + 1
  BY SenderAssumption
<1> QED BY <1>1 DEF SenderTypeOK, FirstTries, StartOf

LEMMA SenderTyped ==
  ASSUME SenderTypeOK, FirstTries, [Next]_vars
  PROVE  (SenderTypeOK /\ FirstTries)'
<1>1. CASE UNCHANGED sendervars
  BY <1>1 DEF sendervars, SenderTypeOK, FirstTries
<1>2. ASSUME NEW it \in Items(run), Try(it)
      PROVE  (SenderTypeOK /\ FirstTries)'
  BY <1>2, AttemptTyped DEF Try
<1>3. ASSUME NEW it \in Items(run), GivesUp(it)
      PROVE  (SenderTypeOK /\ FirstTries)'
  BY <1>3 DEF GivesUp, SenderTypeOK, FirstTries
<1>4. CASE Done
  BY <1>4 DEF Done, SenderTypeOK, FirstTries
<1>5. CASE StartAgain
  BY <1>5, StartTyped DEF StartAgain, NewRun
<1> QED
  BY <1>1, <1>2, <1>3, <1>4, <1>5, LosesTyped, AnswerTyped
     DEF Next, vars, Sender, Handler, Continue, Answer, Refuse, GiveUp, CheckErr, Die,
         Finish, Break, Crash

-----------------------------------------------------------------------------
(* The receiver. *)
FilesInv == ReceiverTypeOK(Ids) /\ PostsSent /\ LinksMade /\ Placed

FileContent == Seq(Data \cup {Zeros})
Marks == [id : Ids, seen : SUBSET (1 .. IdLength)]

LEMMA NoFileIsNone ==
  /\ \A s \in FileContent : s # NoFile
  /\ \A m \in Marks : m # NoFile /\ m # Short
  /\ NoFile # Short
<1>1. NoFile \notin FileContent \cup Marks \cup {Short} /\ Short \notin Marks
  BY NoFileAssumption DEF FileContent, Marks
<1> QED BY <1>1

LEMMA MarksTyped ==
  /\ \A m \in Marks : m.id \in Ids /\ m.seen \in SUBSET (1 .. IdLength)
  /\ \A id \in Ids : \A S \in SUBSET (1 .. IdLength) :
       /\ [id |-> id, seen |-> S] \in Marks
       /\ [id |-> id, seen |-> S].id = id /\ [id |-> id, seen |-> S].seen = S
  /\ \A m \in Marks : \A S \in SUBSET (1 .. IdLength) :
       /\ [m EXCEPT !.seen = S] \in Marks
       /\ [m EXCEPT !.seen = S].id = m.id /\ [m EXCEPT !.seen = S].seen = S
  BY DEF Marks

LEMMA SeenGrows ==
  ASSUME NEW m \in Marks, NEW S \in SUBSET (1 .. IdLength)
  PROVE  LET r == [m EXCEPT !.seen = S] IN r \in Marks /\ r.id = m.id /\ r.seen = S
BY DEF Marks

LEMMA EmptyIsContent == << >> \in FileContent /\ << >> # NoFile
<1>1. << >> \in FileContent
  BY DEF FileContent
<1> QED BY <1>1, NoFileIsNone

LEMMA FullIsContent ==
  ASSUME NEW d \in Data \cup {Zeros}, NEW k \in Nat
  PROVE  /\ FullFile(d, k) \in FileContent /\ FullFile(d, k) # NoFile
         /\ Len(FullFile(d, k)) = IF k = 0 THEN 1 ELSE k
         /\ DOMAIN FullFile(d, k) = 1 .. IF k = 0 THEN 1 ELSE k
<1> DEFINE m == IF k = 0 THEN 1 ELSE k
<1>1. m \in Nat
  OBVIOUS
<1>2. FullFile(d, k) = [i \in 1 .. m |-> d]
  BY DEF FullFile
<1> HIDE DEF m
<1>3. FullFile(d, k) \in FileContent /\ Len(FullFile(d, k)) = m /\ DOMAIN FullFile(d, k) = 1 .. m
  BY <1>1, <1>2 DEF FileContent
<1> QED BY <1>3, NoFileIsNone DEF m

(* A content put into a part of a file, or into the next one. *)
Laid(s, c, d) == [i \in DOMAIN s \cup {c} |-> IF i = c THEN d ELSE s[i]]

LEMMA PutInto ==
  ASSUME NEW s \in FileContent, NEW c \in 1 .. Len(s) + 1, NEW d \in Data \cup {Zeros}
  PROVE  /\ Laid(s, c, d) \in FileContent /\ Laid(s, c, d) # NoFile
         /\ Len(Laid(s, c, d)) = IF c = Len(s) + 1 THEN c ELSE Len(s)
         /\ c \in DOMAIN Laid(s, c, d) /\ Laid(s, c, d)[c] = d
         /\ \A i \in DOMAIN s :
              i \in DOMAIN Laid(s, c, d) /\ (i # c => Laid(s, c, d)[i] = s[i])
<1> PICK t : t = Laid(s, c, d)
  OBVIOUS
<1>0. t = [i \in DOMAIN s \cup {c} |-> IF i = c THEN d ELSE s[i]]
  BY DEF Laid
<1>1. Len(s) \in Nat /\ DOMAIN s = 1 .. Len(s) /\ \A i \in DOMAIN s : s[i] \in Data \cup {Zeros}
  BY DEF FileContent
<1> DEFINE m == IF c = Len(s) + 1 THEN c ELSE Len(s)
<1>2. m \in Nat /\ DOMAIN s \cup {c} = 1 .. m
  BY <1>1
<1> HIDE DEF m
<1>3. DOMAIN t = 1 .. m /\ \A i \in 1 .. m : t[i] \in Data \cup {Zeros}
  BY <1>0, <1>1, <1>2
<1>4. t \in [1 .. m -> Data \cup {Zeros}]
  BY <1>0, <1>2, <1>3
<1>5. t \in FileContent /\ Len(t) = m
  <2>1. \A S : [1 .. m -> S] \subseteq Seq(S)
    BY <1>2
  <2>2. t \in FileContent
    BY <1>4, <2>1, Zenon DEF FileContent
  <2> QED BY <1>2, <1>4, <2>2 DEF FileContent
<1>6. c \in DOMAIN t /\ t[c] = d /\ \A i \in DOMAIN s : i \in DOMAIN t /\ (i # c => t[i] = s[i])
  BY <1>0
<1> QED BY <1>5, <1>6, NoFileIsNone DEF m

(* What is known of a post. *)
LEMMA PostTyped ==
  ASSUME LinksApart, FilesInv, NEW q \in DOMAIN posts
  PROVE  /\ posts[q] \in FlowFile(Ids) /\ posts[q].name \in Names
         /\ Path(q) = link[posts[q].name] /\ Path(q) \in Names
         /\ q[1] \in Runs /\ q[2] \in Items(q[1]) /\ q[2][1] \in DOMAIN Files[q[1]]
         /\ posts[q] = Sent(q[1], q[2])
         /\ posts[q].name = Files[q[1]][q[2][1]].name
<1>1. q[1] \in Runs /\ q[2] \in Items(q[1]) /\ posts[q] = Sent(q[1], q[2])
  BY DEF FilesInv, PostsSent
<1>2. posts[q] \in FlowFile(Ids) /\ posts[q].name = Files[q[1]][q[2][1]].name
  BY <1>1, SentTyped
<1>3. posts[q].name \in Names /\ q[2][1] \in DOMAIN Files[q[1]]
  BY <1>1, <1>2, FlowFileTyped, ItemTyped
<1>4. link \in [Names -> Names] /\ Path(q) = link[posts[q].name]
  BY <1>3, LinksFlat, RealIsLink DEF FilesInv, ReceiverTypeOK, Path
<1> QED BY <1>1, <1>2, <1>3, <1>4

LEMMA SegmentTyped ==
  ASSUME LinksApart, FilesInv, NEW q \in DOMAIN posts, Segmented(q)
  PROVE  /\ posts[q].part \in 1 .. posts[q].count /\ posts[q].count \in 1 .. IdLength
         /\ posts[q].data \in Data /\ posts[q].id \in Ids
         /\ posts[q].id = <<q[1], q[2][1]>> /\ ~IsLink(q[1], q[2][1])
         /\ posts[q].part = q[2][2]
         /\ posts[q].count = Files[q[1]][q[2][1]].parts
         /\ posts[q].data = Files[q[1]][q[2][1]].data
<1>1. /\ q[1] \in Runs /\ q[2] \in Items(q[1])
      /\ posts[q] = Sent(q[1], q[2]) /\ posts[q] \in FlowFile(Ids)
  BY PostTyped
<1>2. ~IsLink(q[1], q[2][1])
  BY <1>1, SentTyped DEF Segmented
<1>3. /\ posts[q].part = q[2][2] /\ posts[q].count = Files[q[1]][q[2][1]].parts
      /\ posts[q].data = Files[q[1]][q[2][1]].data /\ posts[q].id = <<q[1], q[2][1]>>
  BY <1>1, <1>2, SentTyped
<1>4. /\ posts[q].count \in 0 .. IdLength /\ posts[q].count > 0 /\ posts[q].count # 0
      /\ posts[q].data \in Data /\ posts[q].id \in Ids
  BY <1>1, FlowFileTyped DEF Segmented
<1>5. posts[q].part \in 1 .. posts[q].count
  <2>1. Files[q[1]][q[2][1]].parts # 0
    BY <1>3, <1>4, Zenon
  <2>2. q[2][2] \in 1 .. Files[q[1]][q[2][1]].parts
    BY <1>1, <1>2, <2>1, ItemTyped
  <2> QED BY <1>3, <2>2
<1>6. posts[q].count \in 1 .. IdLength
  BY <1>4 DEF IdLength
<1> QED BY <1>2, <1>3, <1>4, <1>5, <1>6

LEMMA WholeTyped ==
  ASSUME LinksApart, FilesInv, NEW q \in DOMAIN posts, Whole(q)
  PROVE  /\ posts[q].data \in Data /\ ~IsLink(q[1], q[2][1])
         /\ posts[q].count = 0 /\ Files[q[1]][q[2][1]].parts = 0
         /\ posts[q].data = Files[q[1]][q[2][1]].data
<1>1. /\ q[1] \in Runs /\ q[2] \in Items(q[1])
      /\ posts[q] = Sent(q[1], q[2]) /\ posts[q] \in FlowFile(Ids)
  BY PostTyped
<1>2. ~IsLink(q[1], q[2][1])
  BY <1>1, SentTyped DEF Whole
<1>3. posts[q].count = Files[q[1]][q[2][1]].parts /\ posts[q].data = Files[q[1]][q[2][1]].data
  BY <1>1, <1>2, SentTyped
<1> QED BY <1>1, <1>2, <1>3, FlowFileTyped DEF Whole

LEMMA LinkTyped ==
  ASSUME LinksApart, FilesInv, NEW q \in DOMAIN posts, posts[q].kind = "link"
  PROVE  /\ IsLink(q[1], q[2][1]) /\ posts[q].target \in Names
         /\ posts[q].target = Files[q[1]][First(q[1], q[2][1])].name
<1>1. /\ q[1] \in Runs /\ q[2] \in Items(q[1])
      /\ posts[q] = Sent(q[1], q[2]) /\ posts[q] \in FlowFile(Ids)
  BY PostTyped
<1>2. IsLink(q[1], q[2][1])
  BY <1>1, SentTyped
<1> QED BY <1>1, <1>2, SentTyped, FlowFileTyped

LEMMA KindsOfPosts ==
  ASSUME LinksApart, FilesInv, NEW q \in DOMAIN posts
  PROVE  /\ posts[q].kind = "link" \/ Whole(q) \/ Segmented(q)
         /\ ~(Whole(q) /\ Segmented(q))
<1>1. posts[q] \in FlowFile(Ids)
  BY PostTyped
<1>2. /\ posts[q].kind \in {"file", "link"}
      /\ posts[q].kind = "file" => posts[q].count \in 0 .. IdLength
  BY <1>1, FlowFileTyped
<1> QED BY <1>2 DEF Whole, Segmented, IdLength

-----------------------------------------------------------------------------
(* How a step moves posts. *)
Spots == {"save", "fill", "wait", "write", "index", "open", "mark", "verify", "remove", "hung"}

PostsInv ==
  /\ \A q \in DOMAIN posts : posts[q] \in FlowFile(Ids)
  /\ DOMAIN pc = DOMAIN posts
  /\ pc \in [DOMAIN posts -> Spots]
  /\ torn \subseteq DOMAIN posts
  /\ PostsSent

StoreInv ==
  /\ store \in [Names -> FileContent \cup {NoFile}]
  /\ link \in [Names -> Names]
  /\ progress \in [Names -> Marks \cup {NoFile, Short}]
  /\ verified \subseteq Ids
  /\ LinksMade

LEMMA FilesInvParts == FilesInv <=> PostsInv /\ StoreInv /\ Placed
  BY DEF FilesInv, PostsInv, StoreInv, ReceiverTypeOK, FileContent, Marks, Spots

LEMMA FilesInvPartsNext == (PostsInv /\ StoreInv /\ Placed)' => FilesInv'
  BY DEF FilesInv, PostsInv, StoreInv, ReceiverTypeOK, FileContent, Marks, Spots

LEMMA GotoTyped ==
  ASSUME PostsInv, run' = run, NEW q \in DOMAIN posts, NEW l \in Spots,
         Goto(q, l), posts' = posts, torn' \subseteq DOMAIN posts
  PROVE  /\ PostsInv'
         /\ pc'[q] = l
         /\ \A p \in DOMAIN posts : p # q => pc'[p] = pc[p]
  BY DEF PostsInv, PostsSent, Goto

LEMMA EndsTyped ==
  ASSUME PostsInv, run' = run, NEW Q, Ends(Q)
  PROVE  /\ PostsInv'
         /\ DOMAIN posts' = DOMAIN posts \ Q
         /\ \A p \in DOMAIN posts' : p \in DOMAIN posts /\ posts'[p] = posts[p] /\ pc'[p] = pc[p]
  BY DEF PostsInv, PostsSent, Ends

LEMMA ArriveTyped ==
  ASSUME PostsInv, run \in Runs, run' = run, NEW it \in Items(run), NEW t,
         Arrive(<<run, it, t>>, Sent(run, it)), torn' = torn
  PROVE  /\ PostsInv'
         /\ DOMAIN posts' = DOMAIN posts \cup {<<run, it, t>>}
         /\ pc'[<<run, it, t>>] = "save"
         /\ \A p \in DOMAIN posts' : p # <<run, it, t>> =>
              p \in DOMAIN posts /\ posts'[p] = posts[p] /\ pc'[p] = pc[p]
<1> DEFINE q == <<run, it, t>>
<1>1. Sent(run, it) \in FlowFile(Ids) /\ run <= run
  BY SentTyped, RunsAre
<1>2. q[1] = run /\ q[2] = it
  OBVIOUS
<1> HIDE DEF q
<1> QED BY <1>1, <1>2 DEF PostsInv, PostsSent, Arrive, Spots, q

(* No step takes away what a post is at. *)
LEMMA PlacedKept ==
  ASSUME Placed,
         \A n \in Names : store[link[n]] # NoFile => store'[link'[n]] # NoFile,
         NEW p \in DOMAIN posts, posts[p].name \in Names, posts'[p] = posts[p], pc'[p] = pc[p]
  PROVE  PlacedAt(p)'
  BY DEF Placed, PlacedAt

LEMMA PlacedKeptAll ==
  ASSUME PostsInv, Placed,
         \A n \in Names : store[link[n]] # NoFile => store'[link'[n]] # NoFile,
         \A p \in DOMAIN posts' : p \in DOMAIN posts /\ posts'[p] = posts[p] /\ pc'[p] = pc[p]
  PROVE  Placed'
<1> SUFFICES ASSUME NEW p \in DOMAIN posts' PROVE PlacedAt(p)'
  BY DEF Placed
<1>1. p \in DOMAIN posts /\ posts'[p] = posts[p] /\ pc'[p] = pc[p] /\ posts[p].name \in Names
  BY FlowFileTyped DEF PostsInv
<1> QED BY <1>1, PlacedKept

LEMMA PlacedKeptBut ==
  ASSUME PostsInv, Placed,
         \A n \in Names : store[link[n]] # NoFile => store'[link'[n]] # NoFile,
         posts' = posts, NEW q, PlacedAt(q)',
         \A p \in DOMAIN posts : p # q => pc'[p] = pc[p]
  PROVE  Placed'
<1> SUFFICES ASSUME NEW p \in DOMAIN posts, p # q PROVE PlacedAt(p)'
  BY DEF Placed
<1>1. posts[p].name \in Names /\ pc'[p] = pc[p] /\ posts'[p] = posts[p]
  BY FlowFileTyped DEF PostsInv
<1> QED BY <1>1, PlacedKept

-----------------------------------------------------------------------------
(* The steps of a handler. *)
LEMMA PostKept ==
  ASSUME LinksApart, FilesInv, NEW q \in DOMAIN posts
  PROVE  /\ PostsInv /\ StoreInv /\ Placed /\ PlacedAt(q) /\ q \in DOMAIN pc
         /\ posts[q].name \in Names /\ Path(q) = link[posts[q].name] /\ Path(q) \in Names
         /\ link[Path(q)] = Path(q)
         /\ posts[q] \in FlowFile(Ids)
<1>1. PostsInv /\ StoreInv /\ Placed
  BY FilesInvParts
<1>2. Flat(link)
  BY LinksFlat DEF FilesInv, ReceiverTypeOK
<1> QED BY <1>1, <1>2, PostTyped DEF Placed, PostsInv, Flat

(* A file is set to a content: nothing that was there is gone. *)
LEMMA StoreSet ==
  ASSUME StoreInv, NEW n \in Names, NEW s \in FileContent,
         store' = [store EXCEPT ![n] = s], UNCHANGED <<link, progress>>,
         verified' = verified
  PROVE  /\ StoreInv'
         /\ store'[n] = s /\ s # NoFile
         /\ \A m \in Names : store[m] # NoFile => store'[m] # NoFile
         /\ \A m \in Names : store[link[m]] # NoFile => store'[link'[m]] # NoFile
  BY NoFileIsNone DEF StoreInv, LinksMade

LEMMA CreateTyped ==
  ASSUME LinksApart, FilesInv, run' = run, NEW q \in DOMAIN posts, Create(q)
  PROVE  FilesInv'
<1>1. StoreInv' /\ store'[Path(q)] # NoFile
      /\ \A m \in Names : store[link[m]] # NoFile => store'[link'[m]] # NoFile
  BY PostKept, EmptyIsContent, StoreSet DEF Create
<1>2. PostsInv' /\ pc'[q] = "write" /\ \A p \in DOMAIN posts : p # q => pc'[p] = pc[p]
  BY PostKept, GotoTyped DEF Create, Spots, PostsInv
<1>3. PlacedAt(q)'
  BY <1>1, <1>2, PostKept DEF Create, PlacedAt, Whole
<1>4. Placed'
  BY <1>1, <1>2, <1>3, PostKept, PlacedKeptBut DEF Create
<1> QED BY <1>1, <1>2, <1>4, FilesInvPartsNext

LEMMA CreateExclusiveTyped ==
  ASSUME LinksApart, FilesInv, run' = run, NEW q \in DOMAIN posts, CreateExclusive(q)
  PROVE  FilesInv'
<1> DEFINE n == posts[q].name
<1>1. CASE Nothing(n)
  <2>1. StoreInv' /\ store'[n] # NoFile
        /\ \A m \in Names : store[link[m]] # NoFile => store'[link'[m]] # NoFile
    BY <1>1, PostKept, EmptyIsContent, StoreSet DEF CreateExclusive
  <2>2. PostsInv' /\ pc'[q] = "fill" /\ \A p \in DOMAIN posts : p # q => pc'[p] = pc[p]
    BY <1>1, PostKept, GotoTyped DEF CreateExclusive, Spots, PostsInv
  <2>3. PlacedAt(q)'
    BY <1>1, <2>1, <2>2, PostKept DEF CreateExclusive, PlacedAt, Segmented, Nothing
  <2>4. Placed'
    BY <2>1, <2>2, <2>3, PostKept, PlacedKeptBut DEF CreateExclusive
  <2> QED BY <2>1, <2>2, <2>4, FilesInvPartsNext
<1>2. CASE ~Nothing(n)
  <2>1. StoreInv' /\ UNCHANGED <<store, link>>
    BY <1>2, PostKept DEF CreateExclusive, StoreInv, LinksMade
  <2>2. PostsInv' /\ pc'[q] = "wait" /\ \A p \in DOMAIN posts : p # q => pc'[p] = pc[p]
    BY <1>2, PostKept, GotoTyped DEF CreateExclusive, Spots, PostsInv
  <2>3. PlacedAt(q)'
    BY <1>2, <2>1, <2>2, PostKept DEF CreateExclusive, PlacedAt, Segmented
  <2>4. Placed'
    BY <2>1, <2>2, <2>3, PostKept, PlacedKeptBut DEF CreateExclusive
  <2> QED BY <2>1, <2>2, <2>4, FilesInvPartsNext
<1> QED BY <1>1, <1>2

(* A step that leaves the files alone, after which post q is at l. *)
LEMMA MovesTyped ==
  ASSUME LinksApart, FilesInv, run' = run, NEW q \in DOMAIN posts, NEW l \in Spots \ {"save"},
         Goto(q, l), UNCHANGED <<store, link, posts, torn>>, StoreInv',
         Segmented(q), l # "wait" => store[Path(q)] # NoFile,
         l \in {"open", "mark"} => posts[q].count > 1
  PROVE  FilesInv'
<1>1. PostsInv' /\ pc'[q] = l /\ \A p \in DOMAIN posts : p # q => pc'[p] = pc[p]
  BY PostKept, GotoTyped DEF Spots, PostsInv
<1>2. PlacedAt(q)'
  BY <1>1, PostKept DEF PlacedAt, Segmented
<1>3. Placed'
  BY <1>1, <1>2, PostKept, PlacedKeptBut
<1> QED BY <1>1, <1>3, FilesInvPartsNext

(* A step that takes no file away and ends posts. *)
LEMMA EndingTyped ==
  ASSUME LinksApart, FilesInv, run' = run, NEW Q, Ends(Q), StoreInv',
         \A m \in Names : store[link[m]] # NoFile => store'[link'[m]] # NoFile
  PROVE  FilesInv'
<1>1. PostsInv /\ Placed
  BY FilesInvParts
<1>2. /\ PostsInv'
      /\ \A p \in DOMAIN posts' : p \in DOMAIN posts /\ posts'[p] = posts[p] /\ pc'[p] = pc[p]
  BY <1>1, EndsTyped
<1>3. Placed'
  BY <1>1, <1>2, PlacedKeptAll
<1> QED BY <1>2, <1>3, FilesInvPartsNext

LEMMA FillTyped ==
  ASSUME LinksApart, FilesInv, run' = run, NEW q \in DOMAIN posts, Fill(q)
  PROVE  FilesInv'
<1>1. posts[q].kind = "file" /\ posts[q].count > 0 /\ Segmented(q) /\ pc[q] = "fill"
  BY PostKept DEF Fill, PlacedAt, At, Segmented
<1>2. PICK k \in 1 .. posts[q].count :
        /\ store' = [store EXCEPT ![posts[q].name] = FullFile(Zeros, k)]
        /\ IF k = posts[q].count THEN Goto(q, "wait") ELSE UNCHANGED pc
  BY DEF Fill
<1>3. FullFile(Zeros, k) \in FileContent
  <2>1. k \in Nat /\ Zeros \in Data \cup {Zeros}
    BY <1>1, SegmentTyped
  <2> QED BY <2>1, FullIsContent
<1>4. StoreInv'
      /\ \A m \in Names : store[link[m]] # NoFile => store'[link'[m]] # NoFile
  BY <1>2, <1>3, PostKept, StoreSet DEF Fill
<1>5. CASE Goto(q, "wait")
  <2>1. PostsInv' /\ pc'[q] = "wait" /\ \A p \in DOMAIN posts : p # q => pc'[p] = pc[p]
    BY <1>5, PostKept, GotoTyped DEF Fill, Spots, PostsInv
  <2>2. PlacedAt(q)'
    BY <1>1, <2>1 DEF Fill, PlacedAt
  <2>3. Placed'
    BY <1>4, <2>1, <2>2, PostKept, PlacedKeptBut DEF Fill
  <2> QED BY <1>4, <2>1, <2>3, FilesInvPartsNext
<1>6. CASE UNCHANGED pc
  <2>1. PostsInv'
    BY <1>6, PostKept DEF Fill, PostsInv, PostsSent
  <2>2. Placed'
    BY <1>4, <1>6, PostKept, PlacedKeptAll DEF Fill
  <2> QED BY <1>4, <2>1, <2>2, FilesInvPartsNext
<1> QED BY <1>2, <1>5, <1>6

LEMMA WaitTyped ==
  ASSUME LinksApart, FilesInv, run' = run, NEW q \in DOMAIN posts, Wait(q)
  PROVE  FilesInv'
<1>1. Segmented(q)
  BY PostKept DEF Wait, PlacedAt, At, Segmented
<1>2. StoreInv'
  BY PostKept DEF Wait, StoreInv, LinksMade
<1> QED BY <1>1, <1>2, MovesTyped DEF Wait, Spots

(* What a body is written over. *)
LEMMA PutTyped ==
  ASSUME LinksApart, FilesInv, NEW q \in DOMAIN posts, At(q, "write"), NEW d \in Data \cup {Zeros}
  PROVE  /\ store[Path(q)] \in FileContent /\ store[Path(q)] # NoFile
         /\ posts[q].kind = "file" /\ (Whole(q) \/ Segmented(q))
         /\ Put(q, d) \in FileContent /\ Put(q, d) # NoFile
         /\ Skips(q) => Put(q, d) = store[Path(q)]
         /\ ~Skips(q) =>
              /\ Cell(q) \in 1 .. Len(store[Path(q)]) + 1
              /\ Len(Put(q, d)) = IF Cell(q) = Len(store[Path(q)]) + 1 THEN Cell(q)
                                  ELSE Len(store[Path(q)])
              /\ Cell(q) \in DOMAIN Put(q, d) /\ Put(q, d)[Cell(q)] = d
              /\ \A i \in DOMAIN store[Path(q)] :
                   i \in DOMAIN Put(q, d) /\ (i # Cell(q) => Put(q, d)[i] = store[Path(q)][i])
<1> DEFINE s == store[Path(q)]
<1>1. posts[q].kind = "file" /\ s # NoFile /\ (Whole(q) \/ Segmented(q)) /\ s \in FileContent
  BY PostKept, KindsOfPosts DEF At, PlacedAt, StoreInv
<1>2. Len(s) \in Nat
  BY <1>1 DEF FileContent
<1>3. CASE Skips(q)
  BY <1>1, <1>3 DEF Put
<1>4. CASE ~Skips(q)
  <2>1. Segmented(q) => posts[q].count = Len(s) /\ posts[q].part \in 1 .. posts[q].count
    BY <1>1, <1>4, SegmentTyped DEF Skips, Size
  <2>2. Cell(q) \in 1 .. Len(s) + 1
    BY <1>2, <2>1 DEF Cell
  <2>3. Put(q, d) = Laid(s, Cell(q), d)
    BY <1>4 DEF Put, Laid
  <2> HIDE DEF s
  <2>4. /\ Put(q, d) \in FileContent /\ Put(q, d) # NoFile
        /\ Len(Put(q, d)) = IF Cell(q) = Len(s) + 1 THEN Cell(q) ELSE Len(s)
        /\ Cell(q) \in DOMAIN Put(q, d) /\ Put(q, d)[Cell(q)] = d
        /\ \A i \in DOMAIN s : i \in DOMAIN Put(q, d) /\ (i # Cell(q) => Put(q, d)[i] = s[i])
    BY <1>1, <2>2, <2>3, PutInto
  <2> QED BY <1>1, <1>4, <2>2, <2>4 DEF s
<1> QED BY <1>3, <1>4

LEMMA WriteTyped ==
  ASSUME LinksApart, FilesInv, run' = run, NEW q \in DOMAIN posts, Write(q)
  PROVE  FilesInv'
<1>1. posts[q].data \in Data \cup {Zeros} /\ At(q, "write")
  BY PutTyped, SegmentTyped, WholeTyped DEF Write
<1>2. Put(q, posts[q].data) \in FileContent /\ (Whole(q) \/ Segmented(q))
  BY <1>1, PutTyped
<1>3. StoreInv' /\ store'[Path(q)] # NoFile
      /\ \A m \in Names : store[link[m]] # NoFile => store'[link'[m]] # NoFile
  BY <1>2, PostKept, StoreSet DEF Write
<1>4. CASE Whole(q)
  BY <1>3, <1>4, EndingTyped DEF Write
<1>5. CASE ~Whole(q)
  <2>1. PostsInv' /\ pc'[q] = "index" /\ \A p \in DOMAIN posts : p # q => pc'[p] = pc[p]
    BY <1>5, PostKept, GotoTyped DEF Write, Spots, PostsInv
  <2>2. posts[q].kind = "file" /\ posts[q].count > 0
    BY <1>2, <1>5 DEF Segmented
  <2>3. PlacedAt(q)'
    BY <1>3, <1>5, <2>1, <2>2, PostKept DEF Write, PlacedAt
  <2>4. Placed'
    BY <1>3, <1>5, <2>1, <2>3, PostKept, PlacedKeptBut DEF Write
  <2> QED BY <1>3, <2>1, <2>4, FilesInvPartsNext
<1> QED BY <1>4, <1>5

LEMMA WriteTornTyped ==
  ASSUME LinksApart, FilesInv, run' = run, NEW q \in DOMAIN posts, WriteTorn(q)
  PROVE  FilesInv'
<1>1. /\ At(q, "write") /\ posts[q].kind = "file"
      /\ Put(q, Zeros) \in FileContent /\ store[Path(q)] # NoFile
  BY PutTyped DEF WriteTorn
<1>2. StoreInv' /\ store'[Path(q)] # NoFile
      /\ \A m \in Names : store[link[m]] # NoFile => store'[link'[m]] # NoFile
  <2>1. CASE UNCHANGED store
    BY <1>1, <2>1, PostKept DEF WriteTorn, StoreInv, LinksMade
  <2>2. CASE store' = [store EXCEPT ![Path(q)] = Put(q, Zeros)]
    BY <1>1, <2>2, PostKept, StoreSet DEF WriteTorn
  <2> QED BY <2>1, <2>2 DEF WriteTorn
<1>3. PostsInv' /\ pc'[q] = "hung" /\ \A p \in DOMAIN posts : p # q => pc'[p] = pc[p]
  BY PostKept, GotoTyped DEF WriteTorn, Spots, PostsInv
<1>4. PlacedAt(q)'
  BY <1>1, <1>2, <1>3, PostKept DEF WriteTorn, PlacedAt
<1>5. Placed'
  BY <1>2, <1>3, <1>4, PostKept, PlacedKeptBut DEF WriteTorn
<1> QED BY <1>2, <1>3, <1>5, FilesInvPartsNext


(* updateIndexFile leaves a .progress alone, makes one, or sets marks that *)
(* it has found for its own identifier, and its own.                       *)
UpdatesIndex(q) ==
  \/ Single(q) \/ Index(q) \/ Unreadable(q) \/ StartOver(q) \/ MarkFirst(q) \/ MarkNext(q)

HasMarks(n) == progress[n] \notin {NoFile, Short}

SeenBefore(f, i) == HasMarks(f.name) /\ progress[f.name].id = f.id /\ i \in progress[f.name].seen

Sets(q, m) ==
  /\ progress' = [progress EXCEPT ![posts[q].name] = m]
  /\ posts[q].count > 1
  /\ m # Short => /\ m \in Marks /\ m.id = posts[q].id
                  /\ \A i \in m.seen : i = posts[q].part \/ SeenBefore(posts[q], i)

LEMMA IndexSets ==
  ASSUME LinksApart, FilesInv, NEW q \in DOMAIN posts, UpdatesIndex(q)
  PROVE  /\ Segmented(q) /\ store[Path(q)] # NoFile
         /\ UNCHANGED <<store, link, verified>>
         /\ \/ UNCHANGED progress
            \/ Index(q) /\ Sets(q, Short)
            \/ \E m \in Marks : Sets(q, m)
<1> PICK f, n : f = posts[q] /\ n = f.name
  OBVIOUS
<1>1. Segmented(q) /\ store[Path(q)] # NoFile /\ n \in Names
  BY PostKept DEF UpdatesIndex, Single, Index, Unreadable, StartOver, Readable, MarkFirst,
     MarkNext, AddMark, PlacedAt, At, Segmented
<1>2. f.id \in Ids /\ f.part \in 1 .. IdLength /\ {f.part} \in SUBSET (1 .. IdLength)
      /\ {} \in SUBSET (1 .. IdLength)
  BY <1>1, SegmentTyped DEF IdLength
<1>3. progress[n] \in Marks \cup {NoFile, Short}
  BY <1>1, PostKept DEF StoreInv
<1>4. UNCHANGED <<store, link, verified>>
  BY DEF UpdatesIndex, Single, Index, Unreadable, StartOver, MarkFirst, MarkNext, AddMark
<1>5. CASE Single(q) \/ Unreadable(q)
  BY <1>1, <1>4, <1>5 DEF Single, Unreadable
<1>6. CASE Index(q)
  <2>1. UNCHANGED progress \/ Sets(q, Short)
    BY <1>6 DEF Index, Sets
  <2> QED BY <1>1, <1>4, <1>6, <2>1
<1>7. CASE StartOver(q)
  <2>1. f.count > 1
    BY <1>7, PostKept DEF StartOver, Readable, At, PlacedAt
  <2> DEFINE m == [id |-> f.id, seen |-> {}]
  <2>2. m \in Marks /\ m.id = f.id /\ m.seen = {}
    BY <1>2, MarksTyped, Zenon
  <2>3. progress' = [progress EXCEPT ![n] = m]
    BY <1>7 DEF StartOver
  <2> HIDE DEF m
  <2>4. Sets(q, m)
    BY <2>1, <2>2, <2>3 DEF Sets
  <2> QED BY <1>1, <1>4, <2>2, <2>4
<1>8. CASE MarkFirst(q)
  <2>1. f.count > 1
    BY <1>8, PostKept DEF MarkFirst, At, PlacedAt
  <2> DEFINE m == [id |-> f.id, seen |-> {f.part}]
  <2>2. m \in Marks /\ m.id = f.id /\ m.seen = {f.part}
    BY <1>2, MarksTyped, Zenon
  <2>3. UNCHANGED progress \/ progress' = [progress EXCEPT ![n] = m]
    BY <1>8 DEF MarkFirst
  <2> HIDE DEF m
  <2>4. UNCHANGED progress \/ Sets(q, m)
    BY <2>1, <2>2, <2>3 DEF Sets
  <2> QED BY <1>1, <1>4, <2>2, <2>4
<1>9. CASE MarkNext(q)
  <2>1. f.count > 1 /\ HasMarks(n) /\ progress[n] \in Marks /\ progress[n].id = f.id
    BY <1>3, <1>9, PostKept DEF MarkNext, AddMark, Readable, At, PlacedAt, HasMarks
  <2> DEFINE S == progress[n].seen \cup {f.part}
             m == [progress[n] EXCEPT !.seen = S]
  <2>2. S \in SUBSET (1 .. IdLength)
    BY <1>2, <2>1, MarksTyped
  <2>3. progress' = [progress EXCEPT ![n] = m]
    BY <1>9 DEF MarkNext, AddMark
  <2>4. m \in Marks /\ m.id = f.id /\ m.seen = S
    <3> HIDE DEF S
    <3> QED BY <2>1, <2>2, MarksTyped
  <2>5. \A i \in S : i = f.part \/ SeenBefore(f, i)
    BY <2>1 DEF SeenBefore
  <2> HIDE DEF m, S
  <2>6. Sets(q, m)
    BY <2>1, <2>3, <2>4, <2>5 DEF Sets
  <2> QED BY <1>1, <1>4, <2>4, <2>6
<1> QED BY <1>5, <1>6, <1>7, <1>8, <1>9 DEF UpdatesIndex

LEMMA IndexTyped ==
  ASSUME LinksApart, FilesInv, run' = run, NEW q \in DOMAIN posts, UpdatesIndex(q)
  PROVE  FilesInv'
<1>1. /\ Segmented(q) /\ store[Path(q)] # NoFile
      /\ UNCHANGED <<store, link, verified>>
      /\ UNCHANGED progress \/ \E m \in Marks \cup {Short} : Sets(q, m)
  BY IndexSets
<1>2. StoreInv'
  BY <1>1, PostKept DEF StoreInv, LinksMade, Sets
<1>3. ASSUME NEW l \in {"open", "mark", "verify"}, Goto(q, l), UNCHANGED <<posts, torn>>,
             l \in {"open", "mark"} => posts[q].count > 1
      PROVE  FilesInv'
  BY <1>1, <1>2, <1>3, MovesTyped DEF Spots
<1>4. CASE Ends({q})
  BY <1>1, <1>2, <1>4, EndingTyped
<1>5. CASE Index(q)
  BY <1>3, <1>5 DEF Index
<1>6. CASE StartOver(q)
  <2>1. posts[q].count > 1
    BY <1>6, PostKept DEF StartOver, Readable, At, PlacedAt
  <2> QED BY <1>3, <1>6, <2>1 DEF StartOver
<1> QED BY <1>3, <1>4, <1>5, <1>6 DEF UpdatesIndex, Single, Unreadable, MarkFirst, MarkNext

LEMMA VerifyParentTyped ==
  ASSUME LinksApart, FilesInv, run' = run, NEW q \in DOMAIN posts, VerifyParent(q)
  PROVE  FilesInv'
<1>1. Segmented(q) /\ store[Path(q)] # NoFile
  BY PostKept DEF VerifyParent, PlacedAt, At, Segmented
<1>2. StoreInv'
  BY <1>1, PostKept, SegmentTyped DEF VerifyParent, StoreInv, LinksMade
<1> QED BY <1>1, <1>2, MovesTyped DEF VerifyParent, Spots

LEMMA RemoveTyped ==
  ASSUME LinksApart, FilesInv, run' = run, NEW q \in DOMAIN posts, Remove(q)
  PROVE  FilesInv'
<1>1. StoreInv'
  BY PostKept DEF Remove, StoreInv, LinksMade
<1> QED BY <1>1, EndingTyped DEF Remove

LEMMA LeavesTyped ==
  ASSUME LinksApart, FilesInv, run' = run, NEW Q, Ends(Q),
         UNCHANGED <<store, link, progress, verified>>
  PROVE  FilesInv'
<1>1. StoreInv'
  BY FilesInvParts DEF StoreInv, LinksMade
<1> QED BY <1>1, EndingTyped

LEMMA MakeLinkTyped ==
  ASSUME LinksApart, FilesInv, run' = run, NEW q \in DOMAIN posts, MakeLink(q)
  PROVE  FilesInv'
<1> DEFINE n == posts[q].name
           t == posts[q].target
<1>1. CASE ~Nothing(n)
  BY <1>1, LeavesTyped DEF MakeLink
<1>2. CASE Nothing(n)
  <2>1. n \in Names /\ t \in Names /\ link' = [link EXCEPT ![n] = t]
    BY <1>2, LinkTyped, PostKept DEF MakeLink
  <2>2. LinksMade'
    <3> SUFFICES ASSUME NEW m \in Names, link'[m] # m
                 PROVE  \E r \in Runs : \E j \in DOMAIN Files[r] :
                          /\ IsLink(r, j) /\ m = Files[r][j].name
                          /\ link'[m] = Files[r][First(r, j)].name
      BY DEF LinksMade
    <3>1. CASE m = n
      BY <3>1, <2>1, LinkTyped, PostTyped, PostKept DEF MakeLink, StoreInv
    <3>2. CASE m # n
      BY <3>2, <2>1, PostKept DEF StoreInv, LinksMade
    <3> QED BY <3>1, <3>2
  <2>3. StoreInv'
    BY <2>1, <2>2, PostKept DEF MakeLink, StoreInv
  <2>4. \A m \in Names : store[link[m]] # NoFile => store'[link'[m]] # NoFile
    BY <1>2, <2>1, PostKept DEF MakeLink, Nothing, StoreInv
  <2> QED BY <2>3, <2>4, EndingTyped DEF MakeLink
<1> QED BY <1>1, <1>2

LEMMA HandlerTyped ==
  ASSUME LinksApart, FilesInv, run' = run, NEW q \in DOMAIN posts,
         Handle(q) \/ Accept(q) \/ Fail(q)
  PROVE  FilesInv'
  BY CreateTyped, CreateExclusiveTyped, FillTyped, WaitTyped, VerifyParentTyped,
     WriteTornTyped, WriteTyped, IndexTyped, MakeLinkTyped, RemoveTyped, LeavesTyped
     DEF Handle, Accept, Fail, UpdatesIndex

LEMMA TryTyped ==
  ASSUME FilesInv, run \in Runs, NEW it \in Items(run), Try(it)
  PROVE  FilesInv'
<1>1. run' = run /\ UNCHANGED <<store, link, progress, torn, verified>>
  BY DEF Try, Begin, Retry, Attempt
<1>2. PostsInv /\ StoreInv /\ Placed
  BY FilesInvParts
<1>3. StoreInv'
  BY <1>1, <1>2 DEF StoreInv, LinksMade
<1>4. CASE UNCHANGED <<posts, pc>>
  BY <1>1, <1>2, <1>3, <1>4, FilesInvPartsNext DEF PostsInv, PostsSent, Placed, PlacedAt
<1>5. CASE Arrive(<<run, it, try[it] + 1>>, Sent(run, it))
  <2>0. PICK q : q = <<run, it, try[it] + 1>>
    OBVIOUS
  <2>1. PostsInv' /\ pc'[q] = "save" /\ posts'[q] = Sent(run, it)
        /\ \A p \in DOMAIN posts' : p # q =>
              p \in DOMAIN posts /\ posts'[p] = posts[p] /\ pc'[p] = pc[p]
    BY <1>1, <1>2, <1>5, <2>0, ArriveTyped DEF Arrive
  <2>2. PlacedAt(q)'
    BY <2>1 DEF PlacedAt
  <2>3. \A n \in Names : store[link[n]] # NoFile => store'[link'[n]] # NoFile
    BY <1>1
  <2>4. ASSUME NEW p \in DOMAIN posts', p # q PROVE PlacedAt(p)'
    <3>1. p \in DOMAIN posts /\ posts'[p] = posts[p] /\ pc'[p] = pc[p] /\ posts[p].name \in Names
      BY <1>2, <2>1, <2>4, FlowFileTyped DEF PostsInv
    <3> QED BY <1>2, <2>3, <3>1, PlacedKept
  <2>5. Placed'
    BY <2>2, <2>4 DEF Placed
  <2> QED BY <1>3, <2>1, <2>5, FilesInvPartsNext
<1> QED BY <1>4, <1>5 DEF Try

LEMMA FilesStay ==
  ASSUME FilesInv, run' >= run, run \in Runs, run' \in Runs, Untouched' = Untouched,
         torn' \subseteq DOMAIN posts
  PROVE  FilesInv'
<1>1. PostsInv /\ StoreInv /\ Placed
  BY FilesInvParts
<1>2. /\ store' = store /\ link' = link /\ progress' = progress /\ posts' = posts
      /\ pc' = pc /\ verified' = verified
  BY DEF Untouched
<1>3. \A q \in DOMAIN posts : q[1] \in Runs /\ q[1] <= run => q[1] <= run'
  BY RunsAre
<1>4. PostsInv' /\ StoreInv' /\ Placed'
  BY <1>1, <1>2, <1>3 DEF PostsInv, PostsSent, StoreInv, LinksMade, Placed, PlacedAt
<1> QED BY <1>4, FilesInvPartsNext

(* Where run and the posts of a step come from. *)
LEMMA StepOf ==
  ASSUME FilesInv, run \in Runs, [Next]_vars
  PROVE  \/ run' >= run /\ run' \in Runs /\ Untouched' = Untouched /\ torn' \subseteq DOMAIN posts
         \/ \E it \in Items(run) : Try(it)
         \/ run' = run /\ \E q \in DOMAIN posts : Handle(q) \/ Accept(q) \/ Fail(q)
         \/ run' = run /\ Restart
<1> torn \subseteq DOMAIN posts /\ run \in Int
  BY RunsAre DEF FilesInv, ReceiverTypeOK
<1>1. ASSUME run' = run, UNCHANGED receivervars
      PROVE  run' >= run /\ run' \in Runs /\ Untouched' = Untouched /\ torn' \subseteq DOMAIN posts
  BY <1>1 DEF receivervars, Untouched
<1>2. CASE UNCHANGED vars
  BY <1>1, <1>2 DEF vars, sendervars
<1>3. ASSUME NEW it \in Items(run), GiveUp(it) \/ CheckErr(it)
      PROVE  run' = run /\ UNCHANGED receivervars
  BY <1>3 DEF GiveUp, CheckErr, GivesUp, Check
<1>4. CASE Finish
  BY <1>1, <1>4 DEF Finish, Done
<1>5. ASSUME NEW it \in Items(run), Die(it)
      PROVE  run' >= run /\ run' \in Runs /\ Untouched' = Untouched /\ torn' \subseteq DOMAIN posts
  BY <1>5 DEF Die, Fatal, Cut, Live, Untouched
<1>6. ASSUME NEW q \in DOMAIN posts, Break(q)
      PROVE  run' >= run /\ run' \in Runs /\ Untouched' = Untouched /\ torn' \subseteq DOMAIN posts
  BY <1>6 DEF Break, Loses, Cut, Untouched
<1>7. ASSUME NEW q \in DOMAIN posts, Handler(q)
      PROVE  run' = run /\ (Handle(q) \/ Accept(q) \/ Fail(q))
  BY <1>7 DEF Handler, Continue, Answer, Refuse, sendervars, Succeeds, Loses
<1>8. CASE Crash
  BY <1>8 DEF Crash, Loses
<1>9. CASE StartAgain
  BY <1>9, RunsAre DEF StartAgain, NewRun, StartOf, receivervars, Untouched
<1> QED BY <1>1, <1>2, <1>3, <1>4, <1>5, <1>6, <1>7, <1>8, <1>9 DEF Next, Sender

LEMMA FilesTyped ==
  ASSUME LinksApart, FilesInv, run \in Runs, [Next]_vars
  PROVE  FilesInv'
<1>1. CASE run' >= run /\ run' \in Runs /\ Untouched' = Untouched /\ torn' \subseteq DOMAIN posts
  BY <1>1, FilesStay
<1>2. CASE \E it \in Items(run) : Try(it)
  BY <1>2, TryTyped
<1>3. CASE run' = run /\ \E q \in DOMAIN posts : Handle(q) \/ Accept(q) \/ Fail(q)
  BY <1>3, HandlerTyped
<1>4. CASE run' = run /\ Restart
  BY <1>4, LeavesTyped DEF Restart
<1> QED BY <1>1, <1>2, <1>3, <1>4, StepOf

LEMMA InitTyped == Init => TypeInv
<1> SUFFICES ASSUME Init PROVE TypeInv
  OBVIOUS
<1>1. 1 \in Runs /\ 0 \in 0 .. Retries + 1 /\ MaxFaults \in Nat
  BY RunsAre, SenderAssumption, TransferAssumption
<1>2. SenderTypeOK /\ FirstTries
  BY <1>1 DEF Init, SenderInit, SenderTypeOK, FirstTries
<1>3. FilesInv
  <2>1. PostsInv /\ Placed
    BY DEF Init, ReceiverInit, PostsInv, PostsSent, Placed, Spots
  <2>2. StoreInv
    BY DEF Init, ReceiverInit, StoreInv, LinksMade
  <2> QED BY <2>1, <2>2, FilesInvParts
<1>4. breaks \in Nat /\ restarts \in Nat /\ breaks + restarts <= MaxFaults
  BY <1>1 DEF Init
<1>5. late \in BOOLEAN
  BY DEF Init
<1> QED BY <1>2, <1>3, <1>4, <1>5 DEF TypeInv, FilesInv, TransferTypeOK

LEMMA NextTyped == LinksApart /\ TypeInv /\ [Next]_vars => TypeInv'
<1> SUFFICES ASSUME LinksApart, TypeInv, [Next]_vars PROVE TypeInv'
  OBVIOUS
<1>1. SenderTypeOK /\ FirstTries /\ FilesInv /\ run \in Runs
  BY DEF TypeInv, TransferTypeOK, FilesInv, SenderTypeOK
<1>2. (SenderTypeOK /\ FirstTries)'
  BY <1>1, SenderTyped
<1>3. FilesInv'
  BY <1>1, FilesTyped
<1>4. (breaks \in Nat /\ restarts \in Nat /\ breaks + restarts <= MaxFaults)'
  <2>1. \/ UNCHANGED bounded
        \/ MayFault /\ breaks' = breaks + 1 /\ restarts' = restarts
        \/ MayFault /\ restarts' = restarts + 1 /\ breaks' = breaks
    BY DEF Next, vars, bounded, Sender, Try, GiveUp, CheckErr, Die, Finish, Handler,
           Continue, Answer, Refuse, Break, Crash, StartAgain
  <2> QED BY <2>1, TransferAssumption DEF TypeInv, TransferTypeOK, bounded, MayFault
<1>5. late' \in BOOLEAN
  BY DEF TypeInv, TransferTypeOK, Next, vars, Sender, Try, GiveUp, CheckErr, Die, Finish, Handler,
           Continue, Answer, Refuse, Break, Crash, StartAgain, Late
<1> QED BY <1>2, <1>3, <1>4, <1>5 DEF TypeInv, TransferTypeOK, FilesInv

(* Every variable has a value of its kind, whatever is sent, lost, cut off *)
(* and started again, where no file is sent as a link that another link of *)
(* the same or another run leads to.                                       *)
THEOREM TransferTypes == ASSUME LinksApart PROVE Spec => []TransferTypeOK
<1>1. Init => TypeInv
  BY InitTyped
<1>2. TypeInv /\ [Next]_vars => TypeInv'
  BY NextTyped
<1>3. TypeInv => TransferTypeOK
  BY DEF TypeInv
<1> QED BY <1>1, <1>2, <1>3, PTL DEF Spec

-----------------------------------------------------------------------------
(* What the paths of a steady transfer have. *)
LEMMA SameName ==
  ASSUME Steady, DistinctNames, NEW r \in Runs, NEW s \in Runs,
         NEW j \in DOMAIN Files[r], NEW k \in DOMAIN Files[s],
         Files[r][j].name = Files[s][k].name
  PROVE  /\ Files[r][j].parts = Files[s][k].parts
         /\ r = s => j = k
         /\ IsLink(r, j) \/ IsLink(s, k) => r = s
<1>1. CASE r = s
  BY <1>1 DEF DistinctNames
<1>2. CASE r < s
  BY <1>2, RunsAre DEF Steady
<1>3. CASE s < r
  BY <1>3, RunsAre DEF Steady
<1> QED BY <1>1, <1>2, <1>3, RunsAre

LEMMA SteadyApart ==
  ASSUME Steady, DistinctNames
  PROVE  LinksApart
<1> SUFFICES ASSUME NEW r \in Runs, NEW s \in Runs, NEW j \in DOMAIN Files[r],
                    NEW k \in DOMAIN Files[s], IsLink(r, j), IsLink(s, k),
                    Files[r][j].name = Files[s][First(s, k)].name
             PROVE  FALSE
  BY DEF LinksApart
<1>1. First(s, k) \in DOMAIN Files[s] /\ ~IsLink(s, First(s, k))
  BY FirstIsFirst
<1> QED BY <1>1, SameName

(* A file is written where it is said to be, *)
LEMMA OwnName ==
  ASSUME Steady, DistinctNames, LinksMade,
         NEW r \in Runs, NEW j \in DOMAIN Files[r], ~IsLink(r, j)
  PROVE  link[Files[r][j].name] = Files[r][j].name
<1> SUFFICES ASSUME link[Files[r][j].name] # Files[r][j].name PROVE FALSE
  OBVIOUS
<1>1. Files[r][j].name \in Names
  BY FileTyped
<1>2. PICK s \in Runs : \E k \in DOMAIN Files[s] :
        IsLink(s, k) /\ Files[r][j].name = Files[s][k].name
  BY <1>1 DEF LinksMade
<1> QED BY <1>2, SameName

(* and what is made a link leads to the first file of its content.         *)
LEMMA OwnTarget ==
  ASSUME Steady, DistinctNames, LinksMade,
         NEW r \in Runs, NEW j \in DOMAIN Files[r], IsLink(r, j),
         link[Files[r][j].name] # Files[r][j].name
  PROVE  link[Files[r][j].name] = Files[r][First(r, j)].name
<1>1. Files[r][j].name \in Names
  BY FileTyped
<1>2. PICK s \in Runs : \E k \in DOMAIN Files[s] :
        /\ IsLink(s, k) /\ Files[r][j].name = Files[s][k].name
        /\ link[Files[r][j].name] = Files[s][First(s, k)].name
  BY <1>1 DEF LinksMade
<1> QED BY <1>2, SameName

-----------------------------------------------------------------------------
(* Sizes. *)
Cells(f) == IF f.parts = 0 THEN 1 ELSE f.parts

(* A path of a file has nothing, or a file that is not longer; that of a   *)
(* link has no file.                                                       *)
SizesKept ==
  \A r \in Runs : \A j \in DOMAIN Files[r] :
    LET f == Files[r][j]
    IN  store[f.name] = NoFile \/ (~IsLink(r, j) /\ Len(store[f.name]) <= Cells(f))

(* A segment that is to give a file its size is the only one to do so, and *)
(* only zeros are in the file yet.                                         *)
FillAt(q) ==
  LET s == store[posts[q].name]
  IN  pc[q] = "fill" =>
        s # NoFile /\ Len(s) < posts[q].count /\ \A i \in DOMAIN s : s[i] = Zeros
FillsAlone ==
  /\ \A q \in DOMAIN posts : FillAt(q)
  /\ \A p, q \in DOMAIN posts :
       pc[p] = "fill" /\ pc[q] = "fill" /\ posts[p].name = posts[q].name => p = q

(* A segment that is written finds a file of the size. *)
SizedAt(q) ==
  Segmented(q) /\ pc[q] \notin {"save", "fill", "wait"} =>
    Len(store[posts[q].name]) = posts[q].count
Sized == \A q \in DOMAIN posts : SizedAt(q)

StoreKept == SizesKept /\ FillsAlone /\ Sized

Given == Steady /\ DistinctNames /\ LinksApart /\ FilesInv

(* A file is posted to its path. *)
LEMMA FilePosted ==
  ASSUME Given, NEW q \in DOMAIN posts, Whole(q) \/ Segmented(q)
  PROVE  /\ Path(q) = posts[q].name /\ link[posts[q].name] = posts[q].name
         /\ ~IsLink(q[1], q[2][1])
         /\ posts[q].count = Files[q[1]][q[2][1]].parts /\ posts[q].count \in Nat
         /\ posts[q].data = Files[q[1]][q[2][1]].data /\ posts[q].data \in Data
<1>1. /\ ~IsLink(q[1], q[2][1]) /\ posts[q].count = Files[q[1]][q[2][1]].parts
      /\ posts[q].data = Files[q[1]][q[2][1]].data /\ posts[q].data \in Data
  BY SegmentTyped, WholeTyped DEF Given
<1>2. q[1] \in Runs /\ q[2][1] \in DOMAIN Files[q[1]] /\ posts[q].name = Files[q[1]][q[2][1]].name
      /\ Path(q) = link[posts[q].name]
  BY PostTyped DEF Given
<1>3. link[posts[q].name] = posts[q].name
  BY <1>1, <1>2, OwnName DEF Given, FilesInv
<1>4. posts[q].count \in Nat
  BY <1>1, <1>2, FileTyped
<1> QED BY <1>1, <1>2, <1>3, <1>4

LEMMA SamePath ==
  ASSUME Given, NEW p \in DOMAIN posts, NEW q \in DOMAIN posts, posts[p].name = posts[q].name
  PROVE  /\ Whole(p) => ~Segmented(q)
         /\ Segmented(p) /\ Segmented(q) => posts[p].count = posts[q].count
<1>1. /\ p[1] \in Runs /\ p[2][1] \in DOMAIN Files[p[1]]
      /\ posts[p].name = Files[p[1]][p[2][1]].name
      /\ q[1] \in Runs /\ q[2][1] \in DOMAIN Files[q[1]]
      /\ posts[q].name = Files[q[1]][q[2][1]].name
  BY PostTyped DEF Given
<1>2. Files[p[1]][p[2][1]].name = Files[q[1]][q[2][1]].name /\ Steady /\ DistinctNames
  BY <1>1 DEF Given
<1> HIDE DEF Given
<1>3. Files[p[1]][p[2][1]].parts = Files[q[1]][q[2][1]].parts
  BY <1>1, <1>2, SameName
<1>4. ASSUME NEW o \in {p, q}, Whole(o) \/ Segmented(o)
      PROVE  posts[o].count = Files[o[1]][o[2][1]].parts
  BY <1>4, FilePosted
<1> QED BY <1>3, <1>4 DEF Whole, Segmented

LEMMA SizesSet ==
  ASSUME Given, SizesKept, NEW q \in DOMAIN posts, Whole(q) \/ Segmented(q), NEW s,
         store' = [store EXCEPT ![posts[q].name] = s],
         Len(s) <= IF posts[q].count = 0 THEN 1 ELSE posts[q].count
  PROVE  SizesKept'
<1> DEFINE n == posts[q].name
<1> SUFFICES ASSUME NEW r \in Runs, NEW j \in DOMAIN Files[r]
             PROVE  LET f == Files[r][j]
                    IN  \/ store'[f.name] = NoFile
                        \/ ~IsLink(r, j) /\ Len(store'[f.name]) <= Cells(f)
  BY DEF SizesKept
<1>1. CASE Files[r][j].name # n
  BY <1>1 DEF SizesKept, Given, FilesInv, ReceiverTypeOK
<1>2. CASE Files[r][j].name = n
  <2>1. /\ q[1] \in Runs /\ q[2][1] \in DOMAIN Files[q[1]]
        /\ n = Files[q[1]][q[2][1]].name /\ n \in Names
    BY PostTyped DEF Given
  <2>2. posts[q].count = Files[r][j].parts /\ ~IsLink(r, j)
    <3>1. posts[q].count = Files[q[1]][q[2][1]].parts /\ ~IsLink(q[1], q[2][1])
      BY FilePosted
    <3>2. Steady /\ DistinctNames /\ Files[q[1]][q[2][1]].name = Files[r][j].name
      BY <1>2, <2>1 DEF Given
    <3>3. /\ Files[q[1]][q[2][1]].parts = Files[r][j].parts
          /\ q[1] = r => q[2][1] = j
          /\ IsLink(q[1], q[2][1]) \/ IsLink(r, j) => q[1] = r
      BY <2>1, <3>2, SameName, Zenon
    <3> QED BY <3>1, <3>3
  <2>3. store'[n] = s
    BY <2>1 DEF Given, FilesInv, ReceiverTypeOK
  <2> QED BY <1>2, <2>2, <2>3 DEF Cells
<1> QED BY <1>1, <1>2

(* A write of one post leaves what the others rely on. *)
LEMMA OthersSized ==
  ASSUME Given, StoreKept, NEW q \in DOMAIN posts, NEW n, n = posts[q].name, NEW s,
         store' = [store EXCEPT ![n] = s],
         \/ Whole(q)
         \/ store[n] = NoFile
         \/ pc[q] = "fill"
         \/ Segmented(q) /\ Len(store[n]) = posts[q].count /\ Len(s) = posts[q].count,
         NEW p \in DOMAIN posts, p # q, posts'[p] = posts[p], pc'[p] = pc[p]
  PROVE  FillAt(p)' /\ SizedAt(p)'
<1>1. FillAt(p) /\ SizedAt(p) /\ FillAt(q) /\ PlacedAt(p) /\ n \in Names /\ posts[p].name \in Names
  BY PostTyped DEF StoreKept, FillsAlone, Sized, Given, FilesInv, Placed
<1>2. CASE posts[p].name # n
  BY <1>1, <1>2 DEF FillAt, SizedAt, Segmented, Given, FilesInv, ReceiverTypeOK
<1>3. CASE posts[p].name = n /\ ~Segmented(p)
  BY <1>1, <1>3 DEF FillAt, SizedAt, Segmented, PlacedAt
<1>4. CASE posts[p].name = n /\ Segmented(p)
  <2>1. ~Whole(q) /\ (Segmented(q) => posts[p].count = posts[q].count)
    BY <1>4, SamePath
  <2>2. posts[p].count \in Nat /\ posts[p].count > 0 /\ link[n] = n
    BY <1>4, FilePosted DEF Segmented
  <2>3. store'[n] = s
    BY <1>1 DEF Given, FilesInv, ReceiverTypeOK
  <2>4. CASE store[n] = NoFile
    BY <1>1, <1>4, <2>2, <2>4 DEF FillAt, SizedAt, Segmented, PlacedAt
  <2>5. CASE pc[q] = "fill"
    <3>1. pc[p] # "fill"
      BY <1>4, <2>5 DEF StoreKept, FillsAlone
    <3>2. Segmented(q) /\ posts[q].count = posts[p].count
      BY <2>1, <2>5, PostKept DEF Given, PlacedAt, Segmented
    <3>3. Len(store[n]) # posts[p].count
      BY <1>1, <2>2, <2>5, <3>2 DEF FillAt
    <3> QED BY <1>1, <1>4, <3>1, <3>3 DEF FillAt, SizedAt, Segmented
  <2>6. CASE Segmented(q) /\ Len(store[n]) = posts[q].count /\ Len(s) = posts[q].count
    <3>1. pc[p] # "fill" /\ Len(s) = posts[p].count
      BY <1>1, <1>4, <2>1, <2>2, <2>6 DEF FillAt
    <3> QED BY <1>4, <2>3, <3>1 DEF FillAt, SizedAt, Segmented
  <2> QED BY <2>1, <2>4, <2>5, <2>6
<1> QED BY <1>2, <1>3, <1>4

LEMMA KeptAfter ==
  ASSUME StoreKept, SizesKept', NEW q,
         \A p \in DOMAIN posts' : p # q =>
           /\ p \in DOMAIN posts /\ posts'[p] = posts[p] /\ pc'[p] = pc[p]
           /\ FillAt(p)' /\ SizedAt(p)',
         q \in DOMAIN posts' => FillAt(q)' /\ SizedAt(q)',
         q \in DOMAIN posts' /\ pc'[q] = "fill" =>
           \A p \in DOMAIN posts : p # q /\ pc[p] = "fill" => posts[p].name # posts'[q].name
  PROVE  StoreKept'
<1>1. Sized' /\ \A p \in DOMAIN posts' : FillAt(p)'
  BY DEF Sized
<1>2. FillsAlone'
  BY <1>1 DEF StoreKept, FillsAlone
<1> QED BY <1>1, <1>2 DEF StoreKept

LEMMA CreateKept ==
  ASSUME Given, StoreKept, NEW q \in DOMAIN posts, Create(q)
  PROVE  StoreKept'
<1>0. Whole(q) /\ Path(q) = posts[q].name /\ ~Segmented(q)
  BY FilePosted, KindsOfPosts DEF Create, Given
<1>1. /\ Whole(q) /\ ~Segmented(q)
      /\ store' = [store EXCEPT ![posts[q].name] = << >>] /\ UNCHANGED posts
      /\ pc' = [pc EXCEPT ![q] = "write"] /\ pc \in [DOMAIN posts -> Spots]
  BY <1>0 DEF Create, Goto, Given, FilesInv, ReceiverTypeOK, Spots
<1>2. SizesKept'
  <2>1. Len(<< >>) <= IF posts[q].count = 0 THEN 1 ELSE posts[q].count
    BY <1>1 DEF Whole
  <2> QED BY <1>1, <2>1, SizesSet DEF StoreKept
<1>3. \A p \in DOMAIN posts : p # q => pc'[p] = pc[p]
  BY <1>1
<1>4. \A p \in DOMAIN posts : p # q => FillAt(p)' /\ SizedAt(p)'
  BY <1>1, <1>3, OthersSized
<1>5. FillAt(q)' /\ SizedAt(q)' /\ pc'[q] # "fill"
  BY <1>1 DEF FillAt, SizedAt, Segmented
<1> QED BY <1>1, <1>2, <1>3, <1>4, <1>5, KeptAfter

LEMMA SameStore ==
  ASSUME StoreKept, UNCHANGED store,
         \A p \in DOMAIN posts' : p \in DOMAIN posts /\ posts'[p] = posts[p] /\ pc'[p] = pc[p]
  PROVE  StoreKept'
<1>1. SizesKept'
  BY DEF StoreKept, SizesKept
<1>2. FillsAlone'
  <2>1. \A p \in DOMAIN posts : FillAt(p)
    BY DEF StoreKept, FillsAlone
  <2>2. \A p \in DOMAIN posts' : FillAt(p)'
    BY <2>1 DEF FillAt
  <2> QED BY <2>2 DEF StoreKept, FillsAlone
<1>3. Sized'
  BY DEF StoreKept, Sized, SizedAt, Segmented
<1> QED BY <1>1, <1>2, <1>3 DEF StoreKept

LEMMA MoveKept ==
  ASSUME Given, StoreKept, NEW q \in DOMAIN posts, NEW l \in Spots \ {"fill"}, Goto(q, l),
         UNCHANGED <<store, posts>>, SizedAt(q)'
  PROVE  StoreKept'
<1>1. pc' = [pc EXCEPT ![q] = l] /\ pc \in [DOMAIN posts -> Spots]
  BY DEF Goto, Given, FilesInv, ReceiverTypeOK, Spots
<1>2. SizesKept' /\ FillAt(q)' /\ pc'[q] # "fill"
  BY <1>1 DEF StoreKept, SizesKept, FillAt
<1>3. \A p \in DOMAIN posts : p # q => pc'[p] = pc[p] /\ FillAt(p)' /\ SizedAt(p)'
  BY <1>1 DEF StoreKept, FillsAlone, FillAt, Sized, SizedAt, Segmented
<1> QED BY <1>2, <1>3, KeptAfter

LEMMA CreateExclusiveKept ==
  ASSUME Given, StoreKept, NEW q \in DOMAIN posts, CreateExclusive(q)
  PROVE  StoreKept'
<1>1. CASE ~Nothing(posts[q].name)
  <2>1. SizedAt(q)'
    BY <1>1 DEF CreateExclusive, Goto, SizedAt, Given, FilesInv, ReceiverTypeOK, Spots
  <2> QED BY <1>1, <2>1, MoveKept DEF CreateExclusive, Spots
<1>2. CASE Nothing(posts[q].name)
  <2>1. /\ Segmented(q) /\ store[posts[q].name] = NoFile /\ posts[q].name \in Names
        /\ store' = [store EXCEPT ![posts[q].name] = << >>] /\ UNCHANGED posts
        /\ pc' = [pc EXCEPT ![q] = "fill"] /\ pc \in [DOMAIN posts -> Spots]
    BY <1>2, PostTyped DEF CreateExclusive, Nothing, Goto, Given, FilesInv, ReceiverTypeOK, Spots
  <2>2. posts[q].count \in Nat /\ posts[q].count > 0 /\ Len(<< >>) = 0
    BY <2>1, FilePosted DEF Segmented
  <2>3. SizesKept'
    <3>1. Len(<< >>) <= IF posts[q].count = 0 THEN 1 ELSE posts[q].count
      BY <2>2
    <3> QED BY <2>1, <3>1, SizesSet DEF StoreKept
  <2>4. \A p \in DOMAIN posts : p # q => pc'[p] = pc[p]
    BY <2>1
  <2>5. \A p \in DOMAIN posts : p # q => FillAt(p)' /\ SizedAt(p)'
    BY <2>1, <2>4, OthersSized
  <2>6. FillAt(q)' /\ SizedAt(q)'
    <3>1. store'[posts[q].name] = << >> /\ DOMAIN << >> = {}
      BY <2>1 DEF Given, FilesInv, ReceiverTypeOK
    <3> QED BY <2>1, <2>2, <3>1, EmptyIsContent DEF FillAt, SizedAt
  <2>7. \A p \in DOMAIN posts : p # q /\ pc[p] = "fill" => posts[p].name # posts'[q].name
    BY <2>1 DEF StoreKept, FillsAlone, FillAt
  <2> QED BY <2>1, <2>3, <2>4, <2>5, <2>6, <2>7, KeptAfter
<1> QED BY <1>1, <1>2

LEMMA FillKept ==
  ASSUME Given, StoreKept, NEW q \in DOMAIN posts, Fill(q)
  PROVE  StoreKept'
<1>0. Segmented(q) /\ pc[q] = "fill"
  BY PostKept DEF Given, Fill, At, PlacedAt, Segmented
<1>1. PICK k \in 1 .. posts[q].count :
        /\ store' = [store EXCEPT ![posts[q].name] = FullFile(Zeros, k)]
        /\ IF k = posts[q].count THEN Goto(q, "wait") ELSE UNCHANGED pc
  BY DEF Fill
<1>2. PICK s : s = FullFile(Zeros, k)
  OBVIOUS
<1>3. /\ posts[q].count \in Nat /\ posts[q].count > 0 /\ s # NoFile
      /\ Len(s) = k /\ \A i \in DOMAIN s : s[i] = Zeros
  <2>1. posts[q].count \in Nat /\ posts[q].count > 0 /\ Zeros \in Data \cup {Zeros}
        /\ k \in Nat /\ k # 0
    BY <1>0, FilePosted DEF Segmented
  <2>2. Len(s) = k /\ DOMAIN s = 1 .. k /\ s # NoFile
    BY <1>2, <2>1, FullIsContent
  <2>3. \A i \in 1 .. k : s[i] = Zeros
    BY <1>2, <2>1 DEF FullFile
  <2> QED BY <2>1, <2>2, <2>3
<1>4. /\ store' = [store EXCEPT ![posts[q].name] = s] /\ UNCHANGED posts
      /\ store'[posts[q].name] = s
  BY <1>1, <1>2, PostKept DEF Fill, Given, FilesInv, ReceiverTypeOK
<1>5. SizesKept'
  <2>1. Len(s) <= IF posts[q].count = 0 THEN 1 ELSE posts[q].count
    BY <1>3
  <2> QED BY <1>0, <1>4, <2>1, SizesSet DEF StoreKept
<1>6. /\ pc' = [pc EXCEPT ![q] = IF k = posts[q].count THEN "wait" ELSE "fill"]
      /\ pc \in [DOMAIN posts -> Spots]
  BY <1>0, <1>1 DEF Goto, Given, FilesInv, ReceiverTypeOK, Spots
<1>7. \A p \in DOMAIN posts : p # q => pc'[p] = pc[p]
  BY <1>6
<1>8. \A p \in DOMAIN posts : p # q => FillAt(p)' /\ SizedAt(p)'
  BY <1>0, <1>4, <1>7, OthersSized
<1>9. FillAt(q)' /\ SizedAt(q)'
  BY <1>3, <1>4, <1>6 DEF FillAt, SizedAt
<1>10. \A p \in DOMAIN posts : p # q /\ pc[p] = "fill" => posts[p].name # posts'[q].name
  BY <1>0, <1>4 DEF StoreKept, FillsAlone
<1> QED BY <1>4, <1>5, <1>7, <1>8, <1>9, <1>10, KeptAfter

LEMMA WaitKept ==
  ASSUME Given, StoreKept, NEW q \in DOMAIN posts, Wait(q)
  PROVE  StoreKept'
<1> DEFINE n == posts[q].name
<1>1. /\ Segmented(q) /\ Path(q) = n /\ store[n] # NoFile /\ Size(n) >= posts[q].count
      /\ posts[q].count \in Nat /\ posts[q].count > 0 /\ n \in Names
  BY PostKept, FilePosted DEF Given, Wait, At, PlacedAt, Segmented
<1>2. q[1] \in Runs /\ q[2][1] \in DOMAIN Files[q[1]] /\ n = Files[q[1]][q[2][1]].name
      /\ ~IsLink(q[1], q[2][1]) /\ posts[q].count = Files[q[1]][q[2][1]].parts
  BY <1>1, PostTyped, FilePosted DEF Given
<1>3. Len(store[n]) <= posts[q].count
  <2>1. Len(store[n]) <= Cells(Files[q[1]][q[2][1]])
    BY <1>1, <1>2, Zenon DEF StoreKept, SizesKept
  <2>2. Cells(Files[q[1]][q[2][1]]) = posts[q].count
    BY <1>1, <1>2 DEF Cells
  <2> QED BY <2>1, <2>2
<1>4. Len(store[n]) = posts[q].count
  <2>1. Len(store[n]) \in Nat
    BY <1>1 DEF Given, FilesInv, ReceiverTypeOK
  <2> QED BY <1>1, <1>3, <2>1 DEF Size
<1>5. SizedAt(q)'
  BY <1>4 DEF SizedAt, Wait, Segmented
<1> QED BY <1>5, MoveKept DEF Wait, Spots

(* A body is written over a file of its size. *)
LEMMA PutSized ==
  ASSUME Given, StoreKept, NEW q \in DOMAIN posts, At(q, "write"), NEW d \in Data \cup {Zeros}
  PROVE  /\ ~Skips(q)
         /\ Len(Put(q, d)) = IF posts[q].count = 0 THEN 1 ELSE posts[q].count
         /\ Segmented(q) => Len(store[posts[q].name]) = posts[q].count
<1> DEFINE n == posts[q].name
           s == store[n]
<1>1. Path(q) = n /\ (Whole(q) \/ Segmented(q)) /\ s \in FileContent /\ s # NoFile
      /\ posts[q].count \in Nat
  BY PutTyped, FilePosted DEF Given
<1>2. Segmented(q) => Len(s) = posts[q].count
  BY DEF StoreKept, Sized, SizedAt, At
<1>3. ~Skips(q)
  BY <1>1, <1>2 DEF Skips, Size
<1>4. Len(Put(q, d)) = IF Cell(q) = Len(s) + 1 THEN Cell(q) ELSE Len(s)
  BY <1>1, <1>3, PutTyped DEF Given
<1>5. Len(s) \in Nat
  BY <1>1 DEF FileContent
<1>6. CASE Segmented(q)
  <2>1. posts[q].part \in 1 .. posts[q].count /\ Cell(q) = posts[q].part
    BY <1>6, SegmentTyped DEF Given, Cell
  <2>2. posts[q].count > 0
    BY <1>6 DEF Segmented
  <2> QED BY <1>1, <1>2, <1>3, <1>4, <1>6, <2>1, <2>2
<1>7. CASE Whole(q)
  <2>1. posts[q].count = 0 /\ Cell(q) = 1 /\ ~Segmented(q)
    BY <1>7 DEF Whole, Segmented, Cell
  <2>2. q[1] \in Runs /\ q[2][1] \in DOMAIN Files[q[1]] /\ n = Files[q[1]][q[2][1]].name
        /\ ~IsLink(q[1], q[2][1]) /\ posts[q].count = Files[q[1]][q[2][1]].parts
    BY <1>1, PostTyped, FilePosted DEF Given
  <2>3. Len(s) <= 1
    BY <1>1, <2>1, <2>2 DEF StoreKept, SizesKept, Cells
  <2>4. PICK m : m = Len(s)
    OBVIOUS
  <2>5. m \in Nat /\ m <= 1
    BY <1>5, <2>3, <2>4, Zenon
  <2>6. IF 1 = m + 1 THEN m = 0 ELSE m = 1
    BY <2>5
  <2> QED BY <1>3, <1>4, <2>1, <2>4, <2>6
<1> QED BY <1>1, <1>6, <1>7

LEMMA OverwriteKept ==
  ASSUME Given, StoreKept, NEW q \in DOMAIN posts, At(q, "write"), NEW d \in Data \cup {Zeros},
         store' = [store EXCEPT ![Path(q)] = Put(q, d)],
         \/ Ends({q})
         \/ UNCHANGED posts /\ \E l \in {"index", "hung"} : Goto(q, l)
  PROVE  StoreKept'
<1>0. PICK n, s : n = posts[q].name /\ s = Put(q, d)
  OBVIOUS
<1>1. /\ Path(q) = n /\ (Whole(q) \/ Segmented(q)) /\ n \in Names
      /\ store' = [store EXCEPT ![n] = s] /\ posts[q].count \in Nat
  BY <1>0, PutTyped, FilePosted, PostTyped DEF Given
<1>2. /\ Len(s) = IF posts[q].count = 0 THEN 1 ELSE posts[q].count
      /\ Segmented(q) => Len(store[n]) = posts[q].count /\ posts[q].count # 0
  BY <1>0, PutSized DEF Segmented
<1>3. SizesKept'
  <2>1. Len(s) <= IF posts[q].count = 0 THEN 1 ELSE posts[q].count
    BY <1>1, <1>2
  <2>2. store' = [store EXCEPT ![posts[q].name] = s] /\ SizesKept
    BY <1>0, <1>1 DEF StoreKept
  <2> QED BY <1>1, <2>1, <2>2, SizesSet
<1>4. \A p \in DOMAIN posts' : p # q => p \in DOMAIN posts /\ posts'[p] = posts[p] /\ pc'[p] = pc[p]
  BY DEF Ends, Goto, Given, FilesInv, ReceiverTypeOK
<1>5. Whole(q) \/ (Segmented(q) /\ Len(store[n]) = posts[q].count /\ Len(s) = posts[q].count)
  BY <1>1, <1>2
<1>6. \A p \in DOMAIN posts' : p # q => FillAt(p)' /\ SizedAt(p)'
  BY <1>0, <1>1, <1>4, <1>5, OthersSized
<1>7. ASSUME q \in DOMAIN posts'
      PROVE  FillAt(q)' /\ SizedAt(q)' /\ pc'[q] # "fill"
  <2>1. pc'[q] \in {"index", "hung"} /\ posts'[q] = posts[q]
    BY <1>7 DEF Ends, Goto, Given, FilesInv, ReceiverTypeOK
  <2>2. store'[n] = s
    BY <1>1 DEF Given, FilesInv, ReceiverTypeOK
  <2>3. SizedAt(q)'
    BY <1>0, <1>2, <2>1, <2>2 DEF SizedAt, Segmented
  <2> QED BY <2>1, <2>3 DEF FillAt
<1> QED BY <1>3, <1>4, <1>6, <1>7, KeptAfter

LEMMA WriteKept ==
  ASSUME Given, StoreKept, NEW q \in DOMAIN posts, Write(q) \/ WriteTorn(q)
  PROVE  StoreKept'
<1>1. At(q, "write")
  BY DEF Write, WriteTorn
<1>2. posts[q].data \in Data \cup {Zeros}
  BY <1>1, PutTyped, FilePosted DEF Given
<1>3. CASE Write(q)
  BY <1>1, <1>2, <1>3, OverwriteKept DEF Write
<1>4. CASE WriteTorn(q) /\ UNCHANGED store
  <2>1. SizedAt(q) /\ pc'[q] = "hung" /\ UNCHANGED posts
    BY <1>1, <1>4 DEF WriteTorn, Goto, StoreKept, Sized, Given, FilesInv, ReceiverTypeOK
  <2>2. SizedAt(q)'
    BY <1>1, <1>4, <2>1 DEF SizedAt, Segmented, At
  <2> QED BY <1>4, <2>2, MoveKept DEF WriteTorn, Spots
<1>5. CASE WriteTorn(q) /\ store' = [store EXCEPT ![Path(q)] = Put(q, Zeros)]
  BY <1>1, <1>5, OverwriteKept DEF WriteTorn
<1> QED BY <1>3, <1>4, <1>5 DEF WriteTorn

LEMMA VerifyKept ==
  ASSUME Given, StoreKept, NEW q \in DOMAIN posts, pc[q] \in {"index", "open", "mark", "verify"},
         NEW l \in {"open", "mark", "verify", "remove"}, Goto(q, l), UNCHANGED <<store, posts>>
  PROVE  StoreKept'
<1>1. SizedAt(q)'
  BY DEF StoreKept, Sized, SizedAt, Segmented
<1> QED BY <1>1, MoveKept DEF Spots

LEMMA EndsKept ==
  ASSUME StoreKept, UNCHANGED store, NEW Q, Ends(Q)
  PROVE  StoreKept'
<1>1. \A p \in DOMAIN posts' : p \in DOMAIN posts /\ posts'[p] = posts[p] /\ pc'[p] = pc[p]
  BY DEF Ends
<1> QED BY <1>1, SameStore

LEMMA HandlerKept ==
  ASSUME Given, StoreKept, NEW q \in DOMAIN posts, Handle(q) \/ Accept(q) \/ Fail(q)
  PROVE  StoreKept'
<1>1. CASE UpdatesIndex(q)
  <2>1. \/ Ends({q})
        \/ UNCHANGED posts /\ \E l \in {"open", "mark", "verify"} : Goto(q, l)
    BY <1>1 DEF UpdatesIndex, Single, Index, Unreadable, StartOver, MarkFirst, MarkNext
  <2>2. UNCHANGED store /\ pc[q] \in {"index", "open", "mark", "verify"}
    BY <1>1 DEF UpdatesIndex, Single, Index, Unreadable, StartOver, Readable, MarkFirst,
       MarkNext, AddMark, At
  <2> QED BY <2>1, <2>2, VerifyKept, EndsKept
<1>2. CASE VerifyParent(q)
  BY <1>2, VerifyKept DEF VerifyParent, At
<1>3. CASE MakeLink(q) \/ Remove(q) \/ Fail(q)
  BY <1>3, EndsKept DEF MakeLink, Remove, Fail
<1> QED
  BY <1>1, <1>2, <1>3, CreateKept, CreateExclusiveKept, FillKept, WaitKept, WriteKept
     DEF Handle, Accept, UpdatesIndex

-----------------------------------------------------------------------------
(* A .progress is that of a file of several segments, which some run has   *)
(* sent to its path.                                                       *)
MarkedBy(n, r, j) ==
  LET f == Files[r][j]
  IN  /\ r <= run /\ progress[n].id = <<r, j>> /\ f.name = n
      /\ f.parts > 1 /\ ~IsLink(r, j)
      /\ progress[n].seen \subseteq 1 .. f.parts

MarksOwned ==
  \A n \in Names : HasMarks(n) =>
    \E r \in Runs : \E j \in DOMAIN Files[r] : MarkedBy(n, r, j)

(* It is removed by posts that have verified their file. *)
RemovesVerified ==
  \A q \in DOMAIN posts : pc[q] = "remove" => posts[q].id \in verified

(* ff-sender is done when all its goroutines are. *)
AllEnded == stage = "done" => \A it \in Items(run) : status[it] = "ended"

(* One post at a time has the lock of updateIndexFile. *)
Locks(q) == pc[q] \in {"open", "mark"}
LockAlone == \A p, q \in DOMAIN posts : Locks(p) /\ Locks(q) => p = q

(* An attempt has a post of its own. *)
TriedPosts == \A q \in DOMAIN posts : q[1] = run => q[3] \in Nat /\ q[3] <= try[q[2]]

(* A .progress is too short while one is about to write it, or since       *)
(* ff-receiver was restarted then.                                         *)
Making(q, n) == pc[q] = "mark" /\ posts[q].name = n
ShortMade ==
  \A n \in Names : progress[n] = Short =>
    restarts > 0 \/ \E q \in DOMAIN posts : Making(q, n)

KeptInv ==
  /\ StoreKept /\ MarksOwned /\ RemovesVerified /\ AllEnded
  /\ LockAlone /\ TriedPosts /\ ShortMade

LEMMA OthersStay ==
  ASSUME Given, NEW q \in DOMAIN posts, Handle(q) \/ Accept(q) \/ Fail(q), NEW p \in DOMAIN posts'
  PROVE  /\ p \in DOMAIN posts /\ posts'[p] = posts[p]
         /\ p # q => pc'[p] = pc[p]
<1> DOMAIN pc = DOMAIN posts
  BY DEF Given, FilesInv, ReceiverTypeOK
<1>1. ASSUME NEW l, Goto(q, l), UNCHANGED posts
      PROVE  p \in DOMAIN posts /\ posts'[p] = posts[p] /\ (p # q => pc'[p] = pc[p])
  BY <1>1 DEF Goto
<1>2. CASE Ends({q})
  BY <1>2 DEF Ends
<1>3. CASE UNCHANGED <<posts, pc>>
  BY <1>3
<1>4. Ends({q}) \/ (UNCHANGED posts /\ \E l : Goto(q, l)) \/ UNCHANGED <<posts, pc>>
  BY DEF Handle, Accept, Fail, Create, CreateExclusive, Fill, Wait, VerifyParent, WriteTorn,
         Write, MakeLink, Single, Index, Unreadable, StartOver, MarkFirst, MarkNext, Remove
<1> QED BY <1>1, <1>2, <1>3, <1>4

(* Only updateIndexFile and os.Remove change a .progress. *)
LEMMA MarksChange ==
  ASSUME NEW q \in DOMAIN posts, Handle(q) \/ Accept(q) \/ Fail(q)
  PROVE  UNCHANGED progress \/ UpdatesIndex(q) \/ Remove(q)
  BY DEF Handle, Accept, Fail, Create, CreateExclusive, Fill, Wait, VerifyParent, WriteTorn,
         Write, MakeLink, UpdatesIndex

LEMMA MarksOf ==
  ASSUME MarksOwned, NEW n \in Names, HasMarks(n),
         NEW r, NEW j, progress[n].id = <<r, j>>
  PROVE  r \in Runs /\ j \in DOMAIN Files[r] /\ MarkedBy(n, r, j)
<1>1. PICK s \in Runs : \E k \in DOMAIN Files[s] : MarkedBy(n, s, k)
  BY DEF MarksOwned
<1>2. PICK k \in DOMAIN Files[s] : MarkedBy(n, s, k)
  BY <1>1
<1>3. <<r, j>> = <<s, k>>
  BY <1>2 DEF MarkedBy
<1>4. r = s /\ j = k
  BY <1>3
<1> QED BY <1>1, <1>2, <1>4

LEMMA IndexOwned ==
  ASSUME Given, MarksOwned, run' = run, NEW q \in DOMAIN posts, UpdatesIndex(q)
  PROVE  MarksOwned'
<1> DEFINE n == posts[q].name
           r == q[1]
           j == q[2][1]
<1> SUFFICES ASSUME NEW m \in Names, HasMarks(m)'
             PROVE  \E s \in Runs : \E k \in DOMAIN Files[s] : MarkedBy(m, s, k)'
  BY DEF MarksOwned
<1>1. CASE progress'[m] = progress[m]
  BY <1>1 DEF MarksOwned, MarkedBy, HasMarks
<1>2. CASE progress'[m] # progress[m]
  <2>1. Segmented(q) /\ \E x \in Marks \cup {Short} : Sets(q, x)
    BY <1>2, IndexSets, Zenon DEF Given
  <2>2. PICK x \in Marks \cup {Short} : Sets(q, x)
    BY <2>1
  <2>3. m = n /\ progress'[m] = x /\ x # Short /\ posts[q].count > 1
    BY <1>2, <2>2 DEF Sets, HasMarks, Given, FilesInv, ReceiverTypeOK
  <2>4. /\ r \in Runs /\ j \in DOMAIN Files[r] /\ n = Files[r][j].name
        /\ r <= run
    BY PostTyped DEF Given, FilesInv, PostsSent
  <2>5. /\ posts[q].id = <<r, j>> /\ posts[q].count = Files[r][j].parts
        /\ ~IsLink(r, j) /\ posts[q].count \in 1 .. IdLength
        /\ posts[q].part \in 1 .. posts[q].count
    BY <2>1, SegmentTyped DEF Given
  <2>6. HasMarks(m) /\ progress[m].id = posts[q].id =>
          progress[m].seen \subseteq 1 .. posts[q].count
    <3> SUFFICES ASSUME HasMarks(m), progress[m].id = <<r, j>>
                 PROVE  progress[m].seen \subseteq 1 .. Files[r][j].parts
      BY <2>5
    <3>1. MarkedBy(m, r, j)
      BY MarksOf
    <3> QED BY <3>1 DEF MarkedBy
  <2>7. x.seen \subseteq 1 .. posts[q].count /\ x.id = <<r, j>>
    BY <2>2, <2>3, <2>5, <2>6 DEF Sets, SeenBefore
  <2> HIDE DEF r, j
  <2>8. MarkedBy(m, r, j)'
    BY <2>3, <2>4, <2>5, <2>7 DEF MarkedBy
  <2> QED BY <2>4, <2>8
<1> QED BY <1>1, <1>2

LEMMA RemoveOwned ==
  ASSUME Given, MarksOwned, run' = run, NEW q \in DOMAIN posts, Remove(q)
  PROVE  MarksOwned'
  BY DEF Remove, MarksOwned, HasMarks, MarkedBy, Given, FilesInv, ReceiverTypeOK

LEMMA SameMarks ==
  ASSUME MarksOwned, run \in Runs, run' \in Runs, run' >= run, UNCHANGED progress
  PROVE  MarksOwned'
<1> SUFFICES ASSUME NEW n \in Names, HasMarks(n)
             PROVE  \E r \in Runs : \E j \in DOMAIN Files[r] : MarkedBy(n, r, j)'
  BY DEF MarksOwned, HasMarks
<1>1. PICK r \in Runs : \E j \in DOMAIN Files[r] : MarkedBy(n, r, j)
  BY DEF MarksOwned
<1>2. r <= run => r <= run'
  BY RunsAre
<1> QED BY <1>1, <1>2 DEF MarkedBy

LEMMA MarksKept ==
  ASSUME Given, MarksOwned, RemovesVerified, run \in Runs, [Next]_vars
  PROVE  MarksOwned' /\ RemovesVerified'
<1>1. CASE run' >= run /\ run' \in Runs /\ Untouched' = Untouched /\ torn' \subseteq DOMAIN posts
  BY <1>1, SameMarks DEF Untouched, RemovesVerified
<1>2. ASSUME NEW it \in Items(run), Try(it)
      PROVE  MarksOwned' /\ RemovesVerified'
  <2>1. run' = run /\ UNCHANGED <<progress, verified>> /\ run' >= run
    BY <1>2, RunsAre DEF Try, Begin, Retry, Attempt
  <2>2. \A q \in DOMAIN posts' : pc'[q] = "remove" =>
          q \in DOMAIN posts /\ pc[q] = "remove" /\ posts'[q] = posts[q]
    BY <1>2 DEF Try, Arrive
  <2> QED BY <2>1, <2>2, SameMarks DEF RemovesVerified
<1>3. ASSUME run' = run, NEW q \in DOMAIN posts, Handle(q) \/ Accept(q) \/ Fail(q)
      PROVE  MarksOwned' /\ RemovesVerified'
  <2>1. run' >= run /\ run' \in Runs
    BY <1>3, RunsAre
  <2>2. MarksOwned'
    BY <1>3, <2>1, MarksChange, IndexOwned, RemoveOwned, SameMarks
  <2>3. \A p \in DOMAIN posts' : p \in DOMAIN posts /\ posts'[p] = posts[p]
    BY <1>3, OthersStay
  <2>4. verified \subseteq verified'
    BY <1>3 DEF Handle, Accept, Fail, Create, CreateExclusive, Fill, Wait, VerifyParent, WriteTorn,
           Write, MakeLink, Single, Index, Unreadable, StartOver, MarkFirst, MarkNext, AddMark, Remove
  <2>5. ASSUME NEW p \in DOMAIN posts', pc'[p] = "remove"
        PROVE  pc[p] = "remove" \/ posts[p].id \in verified'
    <3>1. CASE p # q
      BY <1>3, <2>5, <3>1, OthersStay
    <3>2. CASE p = q /\ VerifyParent(q)
      BY <3>2 DEF VerifyParent
    <3>3. CASE p = q /\ ~VerifyParent(q)
      BY <1>3, <2>5, <3>3 DEF Handle, Accept, Fail, Create, CreateExclusive, Fill, Wait, WriteTorn,
           Write, MakeLink, Single, Index, Unreadable, StartOver, MarkFirst, MarkNext, Remove,
           Ends, Goto, Given, FilesInv, ReceiverTypeOK
    <3> QED BY <3>1, <3>2, <3>3
  <2> QED BY <2>2, <2>3, <2>4, <2>5 DEF RemovesVerified
<1>4. CASE run' = run /\ Restart
  <2>1. run' >= run /\ run' \in Runs
    BY <1>4, RunsAre
  <2> QED BY <1>4, <2>1, SameMarks DEF Restart, Ends, RemovesVerified
<1> QED BY <1>1, <1>2, <1>3, <1>4, StepOf DEF Given

(* Who has the lock had it, or has found that nobody has. *)
LEMMA LocksFrom ==
  ASSUME Given, NEW q \in DOMAIN posts, Handle(q) \/ Accept(q) \/ Fail(q),
         q \in DOMAIN posts', Locks(q)'
  PROVE  (Index(q) /\ Unlocked) \/ (StartOver(q) /\ Locks(q))
<1> q \in DOMAIN pc /\ ~Ends({q})
  BY DEF Ends, Given, FilesInv, ReceiverTypeOK
<1>0. \A l \in Spots \ {"open", "mark"} : ~Goto(q, l)
  BY DEF Goto, Locks
<1>1. Index(q) \/ StartOver(q)
  <2>1. ~(Fill(q) /\ UNCHANGED pc)
    BY DEF Fill, At, Locks
  <2>2. Fill(q) => UNCHANGED pc
    BY <1>0 DEF Fill, Spots
  <2> QED
    BY <1>0, <2>1, <2>2
       DEF Handle, Accept, Fail, Create, CreateExclusive, Wait, VerifyParent, WriteTorn,
           Write, MakeLink, Single, Unreadable, MarkFirst, MarkNext, Remove, Spots
<1> QED BY <1>1 DEF Index, StartOver, Readable, At, Locks

LEMMA LockKept ==
  ASSUME Given, LockAlone, run \in Runs, [Next]_vars
  PROVE  LockAlone'
<1> DOMAIN pc = DOMAIN posts
  BY DEF Given, FilesInv, ReceiverTypeOK
<1>1. CASE Untouched' = Untouched
  BY <1>1 DEF Untouched, LockAlone, Locks
<1>2. ASSUME NEW it \in Items(run), Try(it)
      PROVE  LockAlone'
  <2>1. \A q \in DOMAIN posts' : Locks(q)' => q \in DOMAIN posts /\ Locks(q)
    BY <1>2 DEF Try, Arrive, Locks
  <2> QED BY <2>1 DEF LockAlone
<1>3. ASSUME NEW q \in DOMAIN posts, Handle(q) \/ Accept(q) \/ Fail(q)
      PROVE  LockAlone'
  <2>1. \A p \in DOMAIN posts' : p # q /\ Locks(p)' => p \in DOMAIN posts /\ Locks(p)
    BY <1>3, OthersStay DEF Locks
  <2>2. q \in DOMAIN posts' /\ Locks(q)' => Locks(q) \/ \A p \in DOMAIN posts : ~Locks(p)
    BY <1>3, LocksFrom DEF Unlocked, Locks
  <2> QED BY <2>1, <2>2 DEF LockAlone
<1>4. CASE Restart
  BY <1>4 DEF Restart, Ends, LockAlone
<1> QED BY <1>1, <1>2, <1>3, <1>4, StepOf DEF Given

LEMMA TriedKept ==
  ASSUME FilesInv, SenderTypeOK, TriedPosts, [Next]_vars
  PROVE  TriedPosts'
<1> run \in Runs /\ try \in [Items(run) -> 0 .. Retries + 1] /\ Retries \in Nat
  BY SenderAssumption DEF SenderTypeOK
<1>1. CASE StartAgain
  <2>1. run' = run + 1 /\ UNCHANGED posts /\ run \in Nat
    BY <1>1, RunsAre DEF StartAgain, NewRun, StartOf, receivervars
  <2>2. \A q \in DOMAIN posts : q[1] <= run /\ q[1] \in Nat
    BY RunsAre DEF FilesInv, PostsSent
  <2> QED BY <2>1, <2>2 DEF TriedPosts
<1>2. ASSUME NEW it \in Items(run), Try(it)
      PROVE  TriedPosts'
  <2>1. run' = run /\ try' = [try EXCEPT ![it] = @ + 1]
    BY <1>2 DEF Try, Begin, Retry, Attempt
  <2>2. \A q \in DOMAIN posts' : q \in DOMAIN posts \/ q = <<run, it, try[it] + 1>>
    BY <1>2 DEF Try, Arrive
  <2>3. ASSUME NEW q \in DOMAIN posts, q[1] = run
        PROVE  q[3] \in Nat /\ q[3] <= try'[q[2]]
    <3>1. q[3] \in Nat /\ q[3] <= try[q[2]] /\ q[2] \in Items(run)
      BY <2>3 DEF TriedPosts, FilesInv, PostsSent
    <3>2. try[q[2]] \in Nat /\ (try'[q[2]] = try[q[2]] \/ try'[q[2]] = try[q[2]] + 1)
      BY <2>1, <3>1
    <3> QED BY <3>1, <3>2
  <2>4. try[it] + 1 \in Nat /\ try[it] + 1 <= try'[it]
    BY <2>1
  <2> QED BY <2>1, <2>2, <2>3, <2>4 DEF TriedPosts
<1>3. CASE ~StartAgain /\ ~(\E it \in Items(run) : Try(it))
  <2>1. run' = run /\ try' = try
    BY <1>3 DEF Next, vars, sendervars, Sender, GiveUp, GivesUp, CheckErr, Check, Die, Fatal, Finish,
           Done, Handler, Continue, Answer, Refuse, Succeeds, Loses, Break, Crash
  <2>2. DOMAIN posts' \subseteq DOMAIN posts
    <3>1. ASSUME NEW q, Handle(q)
          PROVE  DOMAIN posts' \subseteq DOMAIN posts
      BY <3>1 DEF Handle, Create, CreateExclusive, Fill, Wait, VerifyParent, WriteTorn, Write,
             Index, StartOver, MarkNext, Ends
    <3>2. ASSUME NEW q, Accept(q) \/ Fail(q)
          PROVE  DOMAIN posts' \subseteq DOMAIN posts
      BY <3>2 DEF Accept, Fail, MakeLink, Write, Remove, Single, Unreadable, MarkFirst, MarkNext,
             Ends
    <3>3. CASE \E q \in DOMAIN posts : Handler(q) \/ Break(q)
      <4>1. PICK q \in DOMAIN posts : Handle(q) \/ Accept(q) \/ Fail(q) \/ Break(q)
        BY <3>3 DEF Handler, Continue, Answer, Refuse
      <4>2. Break(q) => posts' = posts
        BY DEF Break, Untouched
      <4> QED BY <3>1, <3>2, <4>1, <4>2
    <3>4. CASE Crash
      BY <3>4 DEF Crash, Restart, Ends
    <3>5. CASE Finish \/ \E it \in Items(run) : GiveUp(it) \/ CheckErr(it) \/ Die(it)
      BY <3>5 DEF GiveUp, CheckErr, Die, Finish, Untouched, receivervars
    <3>6. CASE UNCHANGED vars
      BY <3>6 DEF vars, receivervars
    <3> QED BY <1>3, <3>3, <3>4, <3>5, <3>6 DEF Next, Sender
  <2> QED BY <2>1, <2>2 DEF TriedPosts
<1> QED BY <1>1, <1>2, <1>3

LEMMA ShortMakes ==
  ASSUME Given, run \in Runs, ShortMade, restarts \in Nat, restarts' = restarts,
         NEW q \in DOMAIN posts, Handle(q) \/ Accept(q) \/ Fail(q)
  PROVE  ShortMade'
<1> SUFFICES ASSUME NEW n \in Names, progress'[n] = Short, ~(restarts > 0)
             PROVE  \E p \in DOMAIN posts' : Making(p, n)'
  BY DEF ShortMade
<1> DOMAIN pc = DOMAIN posts /\ DOMAIN progress = Names
  BY DEF Given, FilesInv, ReceiverTypeOK
<1>1. CASE progress[n] = Short
  <2>1. PICK p \in DOMAIN posts : Making(p, n)
    BY <1>1 DEF ShortMade
  <2>2. CASE p # q
    <3>1. p \in DOMAIN posts'
      BY <2>2 DEF Handle, Accept, Fail, Create, CreateExclusive, Fill, Wait, VerifyParent, WriteTorn,
         Write, MakeLink, Single, Index, Unreadable, StartOver, MarkFirst, MarkNext, Remove, Ends
    <3>2. posts'[p] = posts[p] /\ pc'[p] = pc[p]
      BY <2>2, <3>1, OthersStay
    <3> QED BY <2>1, <3>1, <3>2 DEF Making
  <2>3. CASE p = q
    <3>1. MarkFirst(q) /\ posts[q].name = n
      BY <2>1, <2>3 DEF Making, Handle, Accept, Fail, Create, CreateExclusive, Fill, Wait, VerifyParent,
         WriteTorn, Write, MakeLink, Single, Index, Unreadable, StartOver, Readable, MarkNext,
         AddMark, Remove, Panics, At
    <3>2. /\ [id |-> posts[q].id, seen |-> {posts[q].part}] \in Marks
      <4>1. posts[q].id \in Ids /\ posts[q].part \in 1 .. IdLength
        BY <3>1, IndexSets, SegmentTyped DEF UpdatesIndex, Given, IdLength
      <4> QED BY <4>1, MarksTyped
    <3>3. progress'[n] = [id |-> posts[q].id, seen |-> {posts[q].part}]
      BY <1>1, <3>1, NoFileIsNone DEF MarkFirst
    <3> QED BY <3>2, <3>3, NoFileIsNone
  <2> QED BY <2>2, <2>3
<1>2. CASE progress[n] # Short
  <2>1. UpdatesIndex(q)
    BY <1>2, MarksChange, NoFileIsNone DEF Remove
  <2>2. (Index(q) /\ Sets(q, Short)) \/ \E m \in Marks : Sets(q, m)
    BY <1>2, <2>1, IndexSets DEF Given
  <2>3. ~(\E m \in Marks : Sets(q, m))
    BY <1>2, NoFileIsNone DEF Sets
  <2>4. Index(q) /\ posts[q].name = n
    BY <1>2, <2>2, <2>3 DEF Sets
  <2> QED BY <1>2, <2>4 DEF Index, Goto, Making
<1> QED BY <1>1, <1>2

LEMMA ShortKept ==
  ASSUME Given, SenderTypeOK, TriedPosts, ShortMade, restarts \in Nat, [Next]_vars
  PROVE  ShortMade'
<1> run \in Runs
  BY DEF SenderTypeOK
<1>1. CASE restarts' = restarts /\ UNCHANGED <<progress, posts, pc>>
  BY <1>1 DEF ShortMade, Making
<1>2. ASSUME NEW it \in Items(run), Try(it)
      PROVE  ShortMade'
  <2>1. restarts' = restarts /\ UNCHANGED progress
    BY <1>2 DEF Try, bounded
  <2>2. ASSUME NEW p \in DOMAIN posts
        PROVE  p \in DOMAIN posts' /\ posts'[p] = posts[p] /\ pc'[p] = pc[p]
    <3>1. p # <<run, it, try[it] + 1>>
      <4> SUFFICES ASSUME p = <<run, it, try[it] + 1>> PROVE FALSE
        OBVIOUS
      <4>1. try[it] \in 0 .. Retries + 1 /\ Retries \in Nat
        BY SenderAssumption DEF SenderTypeOK
      <4>2. p[1] = run /\ p[2] = it /\ p[3] = try[it] + 1
        OBVIOUS
      <4>3. p[3] <= try[p[2]]
        BY <4>2 DEF TriedPosts
      <4> QED BY <4>1, <4>2, <4>3
    <3> QED BY <1>2, <3>1 DEF Try, Arrive
  <2> QED BY <2>1, <2>2 DEF ShortMade, Making
<1>3. ASSUME NEW q \in DOMAIN posts, Handler(q)
      PROVE  ShortMade'
  BY <1>3, ShortMakes DEF Handler, Continue, Answer, Refuse, bounded
<1>4. CASE Crash
  BY <1>4 DEF Crash, ShortMade
<1>5. CASE ~Crash /\ ~(\E it \in Items(run) : Try(it)) /\ ~(\E q \in DOMAIN posts : Handler(q))
  BY <1>1, <1>5 DEF Next, vars, receivervars, Sender, GiveUp, CheckErr, Die, Finish, Break, StartAgain,
     bounded, Untouched
<1> QED BY <1>2, <1>3, <1>4, <1>5

(* A sender that is done does nothing any more, and no answer reaches it. *)
LEMMA EndedKept ==
  ASSUME SenderTypeOK, AllEnded, [Next]_vars
  PROVE  AllEnded'
<1> SUFFICES ASSUME stage' = "done" PROVE \A it \in Items(run') : status'[it] = "ended"
  BY DEF AllEnded
<1>1. CASE Done
  BY <1>1 DEF Done
<1>2. CASE ~Done
  <2>1. stage = "done"
    BY <1>2
       DEF Next, vars, sendervars, Sender, Try, Begin, Retry, Attempt, GiveUp, GivesUp,
           CheckErr, Check, Die, Fatal, Finish, Handler, Continue, Answer, Refuse, Succeeds,
           Loses, Break, Crash, StartAgain, NewRun, StartOf
  <2>2. Live = {} /\ \A q : ~Current(q)
    BY <2>1 DEF Live, Current
  <2>3. run' = run /\ \A it \in Items(run) : status'[it] = status[it]
    BY <1>2, <2>1, <2>2
       DEF Next, vars, sendervars, Sender, Try, Begin, Retry, Attempt, GiveUp, GivesUp,
           CheckErr, Check, Die, Fatal, Finish, Handler, Continue, Answer, Refuse,
           Loses, Break, Crash, StartAgain, NewRun, StartOf
  <2> QED BY <2>1, <2>3 DEF AllEnded
<1> QED BY <1>1, <1>2

LEMMA StoreKeptNext ==
  ASSUME Given, StoreKept, run \in Runs, [Next]_vars
  PROVE  StoreKept'
<1>1. CASE run' >= run /\ run' \in Runs /\ Untouched' = Untouched /\ torn' \subseteq DOMAIN posts
  BY <1>1, SameStore DEF Untouched
<1>2. ASSUME NEW it \in Items(run), Try(it)
      PROVE  StoreKept'
  <2>0. PICK q : q = <<run, it, try[it] + 1>>
    OBVIOUS
  <2>1. UNCHANGED store
    BY <1>2 DEF Try
  <2>2. CASE UNCHANGED <<posts, pc>>
    BY <2>1, <2>2, SameStore
  <2>3. CASE Arrive(q, Sent(run, it))
    <3>1. \A p \in DOMAIN posts' : p # q =>
            p \in DOMAIN posts /\ posts'[p] = posts[p] /\ pc'[p] = pc[p]
      BY <2>3 DEF Arrive
    <3>2. pc'[q] = "save"
      BY <2>3 DEF Arrive
    <3>3. SizesKept' /\ FillAt(q)' /\ SizedAt(q)'
      BY <2>1, <3>2 DEF StoreKept, SizesKept, FillAt, SizedAt
    <3>4. \A p \in DOMAIN posts' : p # q => FillAt(p)' /\ SizedAt(p)'
      BY <2>1, <3>1 DEF StoreKept, FillsAlone, FillAt, Sized, SizedAt, Segmented
    <3> QED BY <3>1, <3>2, <3>3, <3>4, KeptAfter
  <2> QED BY <1>2, <2>0, <2>2, <2>3 DEF Try
<1>3. CASE run' = run /\ \E q \in DOMAIN posts : Handle(q) \/ Accept(q) \/ Fail(q)
  BY <1>3, HandlerKept
<1>4. CASE run' = run /\ Restart
  BY <1>4, EndsKept DEF Restart
<1> QED BY <1>1, <1>2, <1>3, <1>4, StepOf DEF Given

-----------------------------------------------------------------------------
(* What is stored.  A part is in its place, *)
InPlace(f, c) ==
  store[f.name] # NoFile /\ c \in DOMAIN store[f.name] /\ store[f.name][c] = f.data

(* that of an item of the run, or its link.                                *)
Stored(it) ==
  LET f == Files[run][it[1]]
  IN  IF IsLink(run, it[1]) THEN link[f.name] = Files[run][First(run, it[1])].name
      ELSE InPlace(f, IF f.parts = 0 THEN 1 ELSE it[2])

(* An item that hs.Send has returned for *)
Over(it) == status[it] \in {"check", "ended"}
OverStored == \A it \in Items(run) : Over(it) => Stored(it)

(* is stored, one that a post has written *)
PastWriting(q) == pc[q] \in {"index", "open", "mark", "verify", "remove"}
WrittenStored == \A q \in DOMAIN posts : q[1] = run /\ PastWriting(q) => Stored(q[2])

(* and one that is seen. *)
MarkedStored ==
  \A j \in DOMAIN Files[run] :
    LET f == Files[run][j]
    IN  HasMarks(f.name) /\ progress[f.name].id = <<run, j>> =>
          \A i \in progress[f.name].seen : InPlace(f, i)

(* As long as a file is not verified it is not over, and the segments that *)
(* are have been seen.                                                     *)
SeenFor(j) ==
  LET n == Files[run][j].name
  IN  HasMarks(n) /\ progress[n].id = <<run, j>> /\
      \A i \in 1 .. Files[run][j].parts : Over(<<j, i>>) => i \in progress[n].seen
SomeNotOver(j) == \E i \in 1 .. Files[run][j].parts : ~Over(<<j, i>>)
NoneOver(j) == \A i \in 1 .. Files[run][j].parts : ~Over(<<j, i>>)

(* It may be that no marks can be set any more. *)
LeftShort(j) == restarts > 0 /\ progress[Files[run][j].name] = Short

Unproven(j) ==
  Files[run][j].parts > 1 /\ ~IsLink(run, j) /\ <<run, j>> \notin verified

OverMarked ==
  \A j \in DOMAIN Files[run] :
    Unproven(j) => LeftShort(j) \/ (SomeNotOver(j) /\ (NoneOver(j) \/ SeenFor(j)))

(* While a post has the lock, or keeps it since an earlier run, no other   *)
(* goes on: a .progress it has found is there, and one that it makes or    *)
(* starts over is the first of its file.                                   *)
HolderAt(q) ==
  \A j \in DOMAIN Files[run] :
    Unproven(j) =>
      IF q[1] = run
      THEN q[2][1] = j => /\ progress[Files[run][j].name] # NoFile
                          /\ pc[q] = "mark" => NoneOver(j)
      ELSE NoneOver(j)
Holders == \A q \in DOMAIN posts : Locks(q) => HolderAt(q)

Good == OverStored /\ WrittenStored /\ MarkedStored /\ OverMarked /\ Holders
GoodInv == failed = {} /\ ~late => Good

-----------------------------------------------------------------------------
(* No step of a handler takes a part away, but for a post that starts over *)
(* with its own file.                                                      *)
LEMMA PutSame ==
  ASSUME Given, NEW q \in DOMAIN posts, At(q, "write"),
         posts[q].data \in Data \cup {Zeros}, Cell(q) \in DOMAIN store[Path(q)],
         store[Path(q)][Cell(q)] = posts[q].data
  PROVE  Put(q, posts[q].data) = store[Path(q)]
<1> DEFINE s == store[Path(q)]
<1>1. s \in FileContent /\ (Skips(q) => Put(q, posts[q].data) = s)
  BY PutTyped DEF Given
<1>2. CASE ~Skips(q)
  <2>1. Put(q, posts[q].data) =
          [i \in DOMAIN s \cup {Cell(q)} |-> IF i = Cell(q) THEN posts[q].data ELSE s[i]]
    BY <1>2 DEF Put
  <2>2. s = [i \in DOMAIN s |-> s[i]]
    BY <1>1 DEF FileContent
  <2>3. DOMAIN s \cup {Cell(q)} = DOMAIN s
    OBVIOUS
  <2> HIDE DEF s
  <2>4. [i \in DOMAIN s |-> IF i = Cell(q) THEN posts[q].data ELSE s[i]] = [i \in DOMAIN s |-> s[i]]
    BY DEF s
  <2> QED BY <2>1, <2>2, <2>3, <2>4 DEF s
<1> QED BY <1>1, <1>2

(* A post of the run to the path of a file of the run is for that file. *)
LEMMA OwnPost ==
  ASSUME Given, NEW q \in DOMAIN posts, q[1] = run, NEW j \in DOMAIN Files[run],
         posts[q].name = Files[run][j].name
  PROVE  q[2][1] = j
  BY PostTyped DEF Given, DistinctNames

LEMMA InPlaceKept ==
  ASSUME Given, StoreKept, run \in Runs, run' = run, NEW q \in DOMAIN posts,
         Handle(q) \/ Accept(q) \/ Fail(q), Late(q), ~late',
         NEW j \in DOMAIN Files[run], NEW c, InPlace(Files[run][j], c)
  PROVE  InPlace(Files[run][j], c)' \/ (Create(q) /\ Current(q) /\ q[2][1] = j)
<1> DEFINE n == Files[run][j].name
<1>0. q[1] = run /\ n \in Names
  BY FileTyped DEF Late
<1>a. DOMAIN store = Names
  BY DEF Given, FilesInv, ReceiverTypeOK
<1>b. ASSUME NEW m, NEW x, store' = [store EXCEPT ![m] = x], store'[n] # store[n]
      PROVE  m = n
  BY <1>0, <1>a, <1>b
<1>1. CASE UNCHANGED store
  BY <1>1 DEF InPlace
<1>2. CASE store'[n] = store[n]
  BY <1>2 DEF InPlace
<1>3. CASE Create(q) /\ store'[n] # store[n]
  <2>1. Whole(q) /\ At(q, "save") /\ Current(q)
    BY <1>0, <1>3 DEF Create, Late
  <2>2. posts[q].name = n
    <3>1. Path(q) = posts[q].name
      BY <2>1, FilePosted
    <3>2. store' = [store EXCEPT ![Path(q)] = << >>]
      BY <1>3 DEF Create
    <3> QED BY <1>3, <1>b, <3>1, <3>2
  <2> QED BY <1>0, <1>3, <2>1, <2>2, OwnPost
<1>4. CASE CreateExclusive(q) /\ store'[n] # store[n]
  <2>1. posts[q].name = n /\ store[n] = NoFile
    BY <1>0, <1>4 DEF CreateExclusive, Nothing, Given, FilesInv, ReceiverTypeOK
  <2> QED BY <2>1 DEF InPlace
<1>5. CASE Fill(q) /\ store'[n] # store[n]
  <2>1. posts[q].name = n
    BY <1>5 DEF Fill, Given, FilesInv, ReceiverTypeOK
  <2>2. \A i \in DOMAIN store[n] : store[n][i] = Zeros
    BY <1>5, <2>1 DEF Fill, At, StoreKept, FillsAlone, FillAt
  <2>3. Files[run][j].data # Zeros
    BY FileTyped, ReceiverAssumption
  <2> QED BY <2>2, <2>3 DEF InPlace
<1>6. ASSUME At(q, "write"), NEW d \in Data \cup {Zeros},
             store' = [store EXCEPT ![Path(q)] = Put(q, d)], store'[n] # store[n],
             c = Cell(q) => d = posts[q].data
      PROVE  InPlace(Files[run][j], c)'
  <2>1. (Whole(q) \/ Segmented(q)) /\ ~Skips(q)
    BY <1>6, PutTyped, PutSized DEF Given
  <2>2. Path(q) = posts[q].name /\ posts[q].name = n
    <3>1. Path(q) = posts[q].name
      BY <2>1, FilePosted
    <3> QED BY <1>6, <1>b, <3>1
  <2>3. q[2][1] = j
    BY <1>0, <2>2, OwnPost
  <2>4. posts[q].data = Files[run][j].data
    BY <1>0, <2>1, <2>3, FilePosted
  <2>5. store'[n] = Put(q, d)
    BY <1>0, <1>6, <2>2 DEF Given, FilesInv, ReceiverTypeOK
  <2>6. /\ Put(q, d) # NoFile /\ c \in DOMAIN Put(q, d)
        /\ Put(q, d)[Cell(q)] = d
        /\ c # Cell(q) => Put(q, d)[c] = store[n][c]
    BY <1>6, <2>1, <2>2, PutTyped DEF Given, InPlace
  <2> QED BY <1>6, <2>4, <2>5, <2>6 DEF InPlace
<1>7. CASE Write(q) /\ store'[n] # store[n]
  <2>1. At(q, "write") /\ posts[q].data \in Data \cup {Zeros}
    BY <1>7, PutTyped, FilePosted DEF Write, Given
  <2> QED BY <1>6, <1>7, <2>1 DEF Write
<1>8. CASE WriteTorn(q) /\ store'[n] # store[n]
  <2>1. At(q, "write") /\ posts[q].data \in Data \cup {Zeros}
    BY <1>8, PutTyped, FilePosted DEF WriteTorn, Given
  <2>2. store' = [store EXCEPT ![Path(q)] = Put(q, Zeros)] /\ Put(q, posts[q].data) # store[Path(q)]
    BY <1>8 DEF WriteTorn
  <2>3. c # Cell(q)
    <3> SUFFICES ASSUME c = Cell(q) PROVE FALSE
      OBVIOUS
    <3>1. (Whole(q) \/ Segmented(q))
      BY <2>1, PutTyped DEF Given
    <3>2. Path(q) = n /\ posts[q].name = n
      <4>1. Path(q) = posts[q].name
        BY <3>1, FilePosted
      <4> QED BY <1>8, <1>b, <2>2, <4>1
    <3>3. posts[q].data = Files[run][j].data
      BY <1>0, <3>1, <3>2, OwnPost, FilePosted
    <3> QED BY <2>1, <2>2, <3>2, <3>3, PutSame DEF InPlace
  <2> QED BY <1>6, <1>8, <2>1, <2>2, <2>3
<1> QED
  BY <1>1, <1>2, <1>3, <1>4, <1>5, <1>7, <1>8
     DEF Handle, Accept, Fail, Wait, VerifyParent, MakeLink, Single, Index, Unreadable, StartOver,
         MarkFirst, MarkNext, AddMark, Remove

(* What was stored stays. *)
LEMMA StoredKept ==
  ASSUME Given, StoreKept, run \in Runs, run' = run, NEW q \in DOMAIN posts,
         Handle(q) \/ Accept(q) \/ Fail(q), Late(q), ~late',
         NEW it \in Items(run), Stored(it)
  PROVE  Stored(it)' \/ (Create(q) /\ Current(q) /\ q[2] = it)
<1> DEFINE j == it[1]
           f == Files[run][j]
<1>1. j \in DOMAIN Files[run]
  BY ItemTyped
<1>2. CASE IsLink(run, j)
  <2>1. First(run, j) \in DOMAIN Files[run] /\ ~IsLink(run, First(run, j)) /\ f.name \in Names
    BY <1>1, FirstIsFirst, FileTyped
  <2>2. link[f.name] = Files[run][First(run, j)].name
    BY <1>2 DEF Stored
  <2>3. link[f.name] # f.name
    BY <1>1, <1>2, <2>1, <2>2 DEF Given, DistinctNames
  <2>4. link'[f.name] = link[f.name]
    BY <2>1, <2>3 DEF Handle, Accept, Fail, Create, CreateExclusive, Fill, Wait, VerifyParent,
           WriteTorn, Write, MakeLink, Nothing, Single, Index, Unreadable, StartOver, MarkFirst,
           MarkNext, AddMark, Remove, Given, FilesInv, ReceiverTypeOK
  <2> QED BY <1>2, <2>2, <2>4 DEF Stored
<1>3. CASE ~IsLink(run, j)
  <2> DEFINE c == IF f.parts = 0 THEN 1 ELSE it[2]
  <2>1. InPlace(f, c)
    BY <1>3 DEF Stored
  <2>2. CASE InPlace(f, c)'
    BY <1>3, <2>2 DEF Stored
  <2>3. CASE Create(q) /\ Current(q) /\ q[2][1] = j
    <3>1. q[1] = run /\ Whole(q)
      BY <2>3 DEF Create, Current
    <3>2. q[2] \in Items(run) /\ f.parts = 0
      BY <2>3, <3>1, PostTyped, WholeTyped DEF Given
    <3>3. q[2][2] = 0 /\ it[2] = 0 /\ q[2] = <<q[2][1], q[2][2]>> /\ it = <<it[1], it[2]>>
      BY <2>3, <3>2, ItemTyped
    <3> QED BY <2>3, <3>3
  <2> QED BY <1>1, <2>1, <2>2, <2>3, InPlaceKept
<1> QED BY <1>2, <1>3

(* What a post has written is stored. *)
LEMMA WroteStored ==
  ASSUME Given, StoreKept, run \in Runs, run' = run, NEW q \in DOMAIN posts, q[1] = run, Write(q)
  PROVE  Stored(q[2])'
<1> DEFINE n == posts[q].name
           f == Files[run][q[2][1]]
<1>1. At(q, "write") /\ posts[q].data \in Data \cup {Zeros} /\ (Whole(q) \/ Segmented(q))
  BY PutTyped, FilePosted DEF Write, Given
<1>2. /\ n = f.name /\ n \in Names /\ Path(q) = n /\ ~IsLink(run, q[2][1])
      /\ posts[q].data = f.data /\ posts[q].count = f.parts
  BY <1>1, PostTyped, FilePosted DEF Given
<1>3. store' = [store EXCEPT ![n] = Put(q, f.data)]
  BY <1>2 DEF Write
<1>4. /\ Put(q, f.data) # NoFile /\ Cell(q) \in DOMAIN Put(q, f.data)
      /\ Put(q, f.data)[Cell(q)] = f.data
  BY <1>1, <1>2, PutTyped, PutSized DEF Given
<1>5. PICK c : c = Cell(q)
  OBVIOUS
<1>6. c = IF f.parts = 0 THEN 1 ELSE q[2][2]
  <2>1. CASE Whole(q)
    BY <1>2, <1>5, <2>1 DEF Whole, Segmented, Cell
  <2>2. CASE Segmented(q)
    <3>1. posts[q].part = q[2][2] /\ posts[q].count # 0
      BY <2>2, SegmentTyped DEF Given, Segmented
    <3> QED BY <1>2, <1>5, <2>2, <3>1 DEF Cell
  <2> QED BY <1>1, <2>1, <2>2
<1>7. store'[f.name] = Put(q, f.data)
  BY <1>2, <1>3 DEF Given, FilesInv, ReceiverTypeOK
<1>8. InPlace(f, c)'
  BY <1>4, <1>5, <1>7 DEF InPlace
<1>9. (IF f.parts = 0 THEN 1 ELSE q[2][2])' = c /\ ~IsLink(run', q[2][1])
  BY <1>2, <1>6
<1> QED BY <1>8, <1>9 DEF Stored

LEMMA LinkStored ==
  ASSUME Given, StoreKept, run \in Runs, run' = run, NEW q \in DOMAIN posts, q[1] = run, MakeLink(q)
  PROVE  Stored(q[2])'
<1> DEFINE j == q[2][1]
           n == Files[run][j].name
<1>1. /\ j \in DOMAIN Files[run] /\ posts[q].name = n /\ n \in Names
      /\ IsLink(run, j) /\ posts[q].target = Files[run][First(run, j)].name
  BY PostTyped, LinkTyped DEF MakeLink, Given
<1>2. store[n] = NoFile
  BY <1>1 DEF StoreKept, SizesKept
<1>3. link'[n] = Files[run][First(run, j)].name
  <2>1. CASE link[n] = n
    BY <1>1, <1>2, <2>1 DEF MakeLink, Nothing, Given, FilesInv, ReceiverTypeOK
  <2>2. CASE link[n] # n
    BY <1>1, <2>2, OwnTarget DEF MakeLink, Nothing, Given, FilesInv
  <2> QED BY <2>1, <2>2
<1> QED BY <1>1, <1>3 DEF Stored

(* What a post that is past its write has written still is stored, *)
LEMMA PastWrite ==
  ASSUME Given, StoreKept, run \in Runs, WrittenStored, run' = run,
         NEW q \in DOMAIN posts, q[1] = run,
         UpdatesIndex(q) \/ VerifyParent(q) \/ Remove(q)
  PROVE  Stored(q[2]) /\ Stored(q[2])'
<1>1. Stored(q[2])
  BY DEF WrittenStored, PastWriting, UpdatesIndex, Single, Index, Unreadable, StartOver, Readable, MarkFirst,
     MarkNext, AddMark, VerifyParent, Remove, At
<1>2. UNCHANGED <<store, link>>
  BY DEF UpdatesIndex, Single, Index, Unreadable, StartOver, MarkFirst, MarkNext, AddMark,
     VerifyParent, Remove
<1> QED BY <1>1, <1>2 DEF Stored, InPlace

(* so that an item that is accepted is. *)
LEMMA AcceptStored ==
  ASSUME Given, StoreKept, run \in Runs, WrittenStored, run' = run,
         NEW q \in DOMAIN posts, q[1] = run,
         Accept(q)
  PROVE  Stored(q[2])'
  BY WroteStored, LinkStored, PastWrite DEF Accept, UpdatesIndex

-----------------------------------------------------------------------------
(* The steps of a handler of the run. *)
Stepped(q) ==
  /\ Handle(q) \/ Accept(q) \/ Fail(q)
  /\ Late(q) /\ ~late' /\ run' = run
  /\ \A it \in Items(run) : Over(it)' => Over(it) \/ (it = q[2] /\ Accept(q))

LEMMA OverStoredKept ==
  ASSUME Given, StoreKept, run \in Runs, Good, NEW q \in DOMAIN posts, Stepped(q)
  PROVE  OverStored'
<1> SUFFICES ASSUME NEW it \in Items(run), Over(it)' PROVE Stored(it)'
  BY DEF OverStored, Stepped
<1>1. q[1] = run
  BY DEF Stepped, Late
<1>2. CASE it = q[2] /\ Accept(q)
  BY <1>1, <1>2, AcceptStored DEF Stepped, Good
<1>3. CASE Over(it)
  <2>1. Stored(it)
    BY <1>3 DEF Good, OverStored
  <2>2. ~(Current(q) /\ q[2] = it)
    BY <1>3 DEF Current, Over
  <2> QED BY <2>1, <2>2, StoredKept DEF Stepped
<1> QED BY <1>2, <1>3 DEF Stepped

LEMMA WrittenStoredKept ==
  ASSUME Given, StoreKept, run \in Runs, Good, NEW q \in DOMAIN posts, Stepped(q)
  PROVE  WrittenStored'
<1> SUFFICES ASSUME NEW p \in DOMAIN posts', p[1] = run, PastWriting(p)'
             PROVE  Stored(p[2])'
  BY DEF WrittenStored, Stepped
<1>1. q[1] = run /\ p \in DOMAIN posts /\ posts'[p] = posts[p]
  BY OthersStay DEF Stepped, Late
<1>2. CASE p # q
  <2>1. pc'[p] = pc[p]
    BY <1>2, OthersStay DEF Stepped
  <2>2. Stored(p[2]) /\ p[2] \in Items(run)
    BY <1>1, <2>1, PostTyped DEF Good, WrittenStored, PastWriting, Given
  <2>3. ~(Create(q) /\ q[2] = p[2])
    <3>1. PlacedAt(p) /\ posts[p] = Sent(run, p[2]) /\ posts[q] = Sent(run, q[2])
      BY <1>1, PostTyped, PostKept DEF Given
    <3>2. posts[p].count > 0
      BY <2>1, <3>1 DEF PlacedAt, PastWriting
    <3> QED BY <3>1, <3>2 DEF Create, Whole
  <2> QED BY <2>2, <2>3, StoredKept DEF Stepped
<1>3. CASE p = q
  <2> q \in DOMAIN pc /\ ~Ends({q})
    BY <1>1, <1>3 DEF Ends, Given, FilesInv, ReceiverTypeOK
  <2>1. \A l \in {"fill", "wait", "write", "hung"} : ~Goto(q, l)
    BY <1>3 DEF Goto, PastWriting
  <2>2. ~Fill(q)
    BY <1>3, <2>1 DEF Fill, At, PastWriting
  <2>3. Write(q) \/ UpdatesIndex(q) \/ VerifyParent(q)
    BY <2>1, <2>2 DEF Stepped, Handle, Accept, Fail, Create, CreateExclusive, Wait,
         WriteTorn, MakeLink, Remove, UpdatesIndex
  <2> QED BY <1>1, <1>3, <2>3, WroteStored, PastWrite DEF Stepped, Good
<1> QED BY <1>2, <1>3

(* A .progress of a file of the run is changed by posts of that file. *)
LEMMA OwnMarks ==
  ASSUME Given, run \in Runs, NEW q \in DOMAIN posts, Stepped(q),
         NEW j \in DOMAIN Files[run], NEW n, n = Files[run][j].name,
         progress'[n] # progress[n]
  PROVE  /\ q[2][1] = j /\ posts[q].name = n /\ (UpdatesIndex(q) \/ Remove(q))
         /\ Segmented(q) /\ posts[q].id = <<run, j>> /\ posts[q].part = q[2][2]
         /\ posts[q].count = Files[run][j].parts /\ q[2] = <<j, q[2][2]>>
         /\ q[2][2] \in 1 .. Files[run][j].parts
<1>1. q[1] = run /\ (UpdatesIndex(q) \/ Remove(q))
  BY MarksChange DEF Stepped, Late
<1>2. Segmented(q)
  BY <1>1, IndexSets, PostKept DEF Given, Remove, At, PlacedAt, Segmented
<1>3. posts[q].name = n
  <2>1. UNCHANGED progress \/ \E m : progress' = [progress EXCEPT ![posts[q].name] = m]
    BY <1>1, IndexSets DEF Given, Sets, Remove
  <2> QED BY <2>1, FileTyped DEF Given, FilesInv, ReceiverTypeOK
<1>4. q[2][1] = j
  BY <1>1, <1>3, OwnPost
<1>5. /\ posts[q].id = <<run, j>> /\ posts[q].count = Files[run][j].parts
      /\ posts[q].part = q[2][2] /\ posts[q].part \in 1 .. posts[q].count
  BY <1>1, <1>2, <1>4, SegmentTyped DEF Given
<1>6. q[2] = <<j, q[2][2]>>
  BY <1>1, <1>4, PostTyped, ItemTyped DEF Given
<1> QED BY <1>1, <1>2, <1>3, <1>4, <1>5, <1>6

LEMMA MarkedStoredKept ==
  ASSUME Given, StoreKept, MarksOwned, run \in Runs, Good, NEW q \in DOMAIN posts, Stepped(q)
  PROVE  MarkedStored'
<1> SUFFICES ASSUME NEW j \in DOMAIN Files[run], NEW n, n = Files[run][j].name,
                    HasMarks(n)', progress'[n].id = <<run, j>>,
                    NEW i \in progress'[n].seen
             PROVE  InPlace(Files[run][j], i)'
  BY DEF MarkedStored, Stepped
<1>1. q[1] = run /\ n \in Names
  BY FileTyped DEF Stepped, Late
<1>2. CASE HasMarks(n) /\ progress[n].id = <<run, j>> /\ i \in progress[n].seen
  <2>1. InPlace(Files[run][j], i)
    BY <1>2 DEF Good, MarkedStored
  <2>2. Files[run][j].parts > 1
    BY <1>1, <1>2, MarksOf DEF MarkedBy
  <2>3. ~(Create(q) /\ q[2][1] = j)
    <3> SUFFICES ASSUME Create(q), q[2][1] = j
                 PROVE  FALSE
      OBVIOUS
    <3>1. Whole(q)
      BY DEF Create
    <3>2. Files[q[1]][q[2][1]].parts = 0
      BY <3>1, WholeTyped DEF Given
    <3> QED BY <1>1, <2>2, <3>2
  <2> QED BY <2>1, <2>3, InPlaceKept DEF Stepped
<1>3. CASE ~(HasMarks(n) /\ progress[n].id = <<run, j>> /\ i \in progress[n].seen)
  <2>1. progress'[n] # progress[n]
    BY <1>3 DEF HasMarks
  <2>2. /\ q[2][1] = j /\ posts[q].count = Files[run][j].parts /\ posts[q].part = q[2][2]
        /\ q[2][2] \in 1 .. Files[run][j].parts /\ Segmented(q)
        /\ posts[q].name = n /\ posts[q].id = <<run, j>>
    BY <2>1, OwnMarks
  <2>3. UpdatesIndex(q)
    <3>1. UpdatesIndex(q) \/ Remove(q)
      BY <2>1, OwnMarks
    <3>2. ~Remove(q)
      BY <1>1, <2>1 DEF Remove, HasMarks, Given, FilesInv, ReceiverTypeOK
    <3> QED BY <3>1, <3>2
  <2>4. i = posts[q].part
    <3>1. PICK m \in Marks \cup {Short} : Sets(q, m)
      BY <2>1, <2>3, IndexSets, Zenon DEF Given
    <3>2. progress'[n] = m /\ m # Short
      BY <1>1, <2>2, <3>1 DEF Sets, HasMarks, Given, FilesInv, ReceiverTypeOK
    <3> QED BY <1>3, <2>2, <3>1, <3>2 DEF Sets, SeenBefore
  <2>5. Stored(q[2])'
    BY <1>1, <2>3, PastWrite DEF Good, Stepped
  <2>6. ~IsLink(run, j) /\ Files[run][j].parts # 0
    <3>1. ~IsLink(q[1], q[2][1])
      BY <2>2, SegmentTyped DEF Given
    <3>2. Files[run][j].parts # 0
      BY <2>2
    <3> QED BY <1>1, <2>2, <3>1, <3>2
  <2> QED BY <2>2, <2>4, <2>5, <2>6 DEF Stored, Stepped
<1> QED BY <1>2, <1>3

(* Which parts of a file come to be over in a step of a handler. *)
LEMMA NewlyOver ==
  ASSUME Given, run \in Runs, NEW q \in DOMAIN posts, Stepped(q),
         NEW j \in DOMAIN Files[run], ~IsLink(run, j), Files[run][j].parts > 1,
         NEW i \in 1 .. Files[run][j].parts, Over(<<j, i>>)', ~Over(<<j, i>>)
  PROVE  /\ q[2] = <<j, i>> /\ posts[q].name = Files[run][j].name
         /\ posts[q].id = <<run, j>> /\ posts[q].part = i
         /\ posts[q].count = Files[run][j].parts
         /\ Remove(q) \/ Unreadable(q) \/ MarkFirst(q) \/ (MarkNext(q) /\ q \notin DOMAIN pc')
<1>1. Files[run][j].parts \in Nat /\ q[1] = run
  BY FileTyped DEF Stepped, Late
<1>2. <<j, i>> \in Items(run)
  BY <1>1, ItemIs
<1>3. q[2] = <<j, i>> /\ Accept(q)
  BY <1>2 DEF Stepped
<1>4. /\ posts[q] = Sent(run, q[2]) /\ q[2] \in Items(run) /\ q[2][1] = j /\ q[2][2] = i
      /\ posts[q].name = Files[run][j].name
  BY <1>1, <1>3, PostTyped DEF Given
<1>5. /\ posts[q].kind = "file" /\ posts[q].count = Files[run][j].parts
      /\ posts[q].id = <<run, j>> /\ posts[q].part = i
  BY <1>4, SentTyped
<1> QED BY <1>1, <1>3, <1>4, <1>5 DEF Accept, MakeLink, Single, Whole

(* Nothing changes for a file but by a post that has the lock or gets it,  *)
(* until the file is verified.                                             *)
LEMMA OverMarkedRest ==
  ASSUME Given, RemovesVerified, run \in Runs, NEW q \in DOMAIN posts, Stepped(q),
         NEW j \in DOMAIN Files[run], Unproven(j),
         q[2][1] # j \/ ~UpdatesIndex(q)
  PROVE  /\ progress'[Files[run][j].name] = progress[Files[run][j].name]
         /\ \A i \in 1 .. Files[run][j].parts : Over(<<j, i>>)' => Over(<<j, i>>)
<1>1. q[1] = run /\ ~IsLink(run, j) /\ Files[run][j].parts > 1 /\ <<run, j>> \notin verified
  BY DEF Stepped, Late, Unproven
<1>2. Remove(q) => posts[q].id # <<run, j>>
  BY <1>1 DEF Remove, At, RemovesVerified
<1>3. progress'[Files[run][j].name] = progress[Files[run][j].name]
  <2>1. progress'[Files[run][j].name] # progress[Files[run][j].name] =>
          q[2][1] = j /\ posts[q].id = <<run, j>> /\ (UpdatesIndex(q) \/ Remove(q))
    BY OwnMarks
  <2> QED BY <1>2, <2>1
<1>4. ASSUME NEW i \in 1 .. Files[run][j].parts, Over(<<j, i>>)', ~Over(<<j, i>>)
      PROVE  FALSE
  <2>1. /\ q[2] = <<j, i>> /\ posts[q].id = <<run, j>>
        /\ Remove(q) \/ Unreadable(q) \/ MarkFirst(q) \/ (MarkNext(q) /\ q \notin DOMAIN pc')
    BY <1>1, <1>4, NewlyOver
  <2> QED BY <1>2, <2>1 DEF UpdatesIndex
<1> QED BY <1>3, <1>4

(* A post of the file that is about to get its marks finds that none of it *)
(* is over.                                                                *)
LEMMA FirstOfFile ==
  ASSUME Given, run \in Runs, Good, NEW q \in DOMAIN posts, q[1] = run,
         NEW j \in DOMAIN Files[run], Unproven(j), q[2][1] = j,
         \/ Index(q) /\ progress[posts[q].name] = NoFile
         \/ StartOver(q)
         \/ MarkFirst(q)
  PROVE  NoneOver(j) /\ SomeNotOver(j)
<1>1. /\ posts[q].name = Files[run][j].name
      /\ Files[run][j].parts \in Nat /\ Files[run][j].parts > 1
  BY PostTyped, FileTyped DEF Given, Unproven
<1>2. CASE Index(q) /\ progress[posts[q].name] = NoFile
  BY <1>1, <1>2, NoFileIsNone DEF Good, OverMarked, LeftShort, SeenFor, HasMarks
<1>3. CASE StartOver(q)
  <2>1. posts[q].id = <<run, j>>
    BY <1>3, IndexSets, SegmentTyped DEF Given, UpdatesIndex
  <2> QED BY <1>1, <1>3, <2>1 DEF Good, OverMarked, LeftShort, SeenFor, StartOver, Readable
<1>4. CASE MarkFirst(q)
  <2>1. HolderAt(q)
    BY <1>4 DEF MarkFirst, At, Good, Holders, Locks
  <2>2. NoneOver(j)
    BY <1>4, <2>1 DEF HolderAt, MarkFirst, At
  <2>3. 1 \in 1 .. Files[run][j].parts
    BY <1>1
  <2> QED BY <2>2, <2>3 DEF NoneOver, SomeNotOver
<1> QED BY <1>2, <1>3, <1>4

LEMMA OverMarkedKept ==
  ASSUME Given, StoreKept, RemovesVerified, LockAlone, ShortMade, run \in Runs, Good,
         restarts' = restarts, NEW q \in DOMAIN posts, Stepped(q)
  PROVE  OverMarked'
<1> SUFFICES ASSUME NEW j \in DOMAIN Files[run], Files[run][j].parts > 1, ~IsLink(run, j),
                    <<run, j>> \notin verified'
             PROVE  LeftShort(j)' \/ (SomeNotOver(j)' /\ (NoneOver(j)' \/ SeenFor(j)'))
  BY DEF OverMarked, Unproven, Stepped
<1> PICK n : n = Files[run][j].name
  OBVIOUS
<1> DEFINE K == Files[run][j].parts
<1>1. q[1] = run /\ run' = run /\ n \in Names /\ K \in Nat
  BY FileTyped DEF Stepped, Late
<1>2. Unproven(j)
  BY DEF Unproven, Stepped, Handle, Accept, Fail, Create, CreateExclusive, Fill, Wait,
         VerifyParent, WriteTorn, Write, MakeLink, Single, Index, Unreadable, StartOver, MarkFirst,
         MarkNext, AddMark, Remove
<1>3. LeftShort(j) \/ (SomeNotOver(j) /\ (NoneOver(j) \/ SeenFor(j)))
  BY <1>2 DEF Good, OverMarked
<1>4. CASE q[2][1] # j \/ ~UpdatesIndex(q)
  <2>1. progress'[n] = progress[n] /\ \A i \in 1 .. K : Over(<<j, i>>)' => Over(<<j, i>>)
    BY <1>2, <1>4, OverMarkedRest
  <2> QED BY <1>1, <1>3, <2>1 DEF LeftShort, SomeNotOver, NoneOver, SeenFor, HasMarks
<1>5. CASE q[2][1] = j /\ UpdatesIndex(q)
  <2>1. posts[q].name = n /\ posts[q].id = <<run, j>> /\ posts[q].count = K
        /\ posts[q].part \in 1 .. K /\ q[2] = <<j, posts[q].part>>
    <3>1. posts[q].name = n /\ q[2] \in Items(run)
      BY <1>1, <1>5, PostTyped DEF Given
    <3>2. /\ posts[q].id = <<run, j>> /\ posts[q].count = K
          /\ posts[q].part \in 1 .. K /\ posts[q].part = q[2][2]
      BY <1>1, <1>5, IndexSets, SegmentTyped DEF Given
    <3> QED BY <1>5, <3>1, <3>2, ItemTyped
  <2>2. \A i \in 1 .. K : Over(<<j, i>>)' =>
          \/ Over(<<j, i>>)
          \/ /\ i = posts[q].part
             /\ Unreadable(q) \/ MarkFirst(q) \/ (MarkNext(q) /\ q \notin DOMAIN pc')
    <3>1. ~Remove(q)
      BY <1>5 DEF UpdatesIndex, Single, Index, Unreadable, StartOver, Readable, MarkFirst, MarkNext,
         AddMark, Remove, At
    <3> QED BY <3>1, NewlyOver
  <2>3. CASE (Index(q) /\ progress[n] = NoFile) \/ StartOver(q)
    <3>1. NoneOver(j) /\ SomeNotOver(j)
      BY <1>1, <1>2, <1>5, <2>1, <2>3, FirstOfFile
    <3>2. ~Unreadable(q) /\ ~MarkFirst(q) /\ ~MarkNext(q)
      BY <2>3 DEF Index, StartOver, Readable, Unreadable, MarkFirst, MarkNext, AddMark, At
    <3> QED BY <1>1, <2>2, <3>1, <3>2 DEF NoneOver, SomeNotOver
  <2>4. CASE Single(q) \/ (Index(q) /\ progress[n] # NoFile)
    <3>1. ~Unreadable(q) /\ ~MarkFirst(q) /\ ~MarkNext(q)
      BY <2>4 DEF Single, Index, Readable, Unreadable, MarkFirst, MarkNext, AddMark, At
    <3>2. UNCHANGED progress
      BY <2>1, <2>4 DEF Single, Index
    <3> QED BY <1>1, <1>3, <2>2, <3>1, <3>2 DEF LeftShort, SomeNotOver, NoneOver, SeenFor, HasMarks
  <2>5. CASE Unreadable(q)
    <3>1. progress[n] = Short /\ pc[q] = "open" /\ UNCHANGED progress
      <4>1. HolderAt(q) /\ pc[q] = "open"
        BY <2>5 DEF Unreadable, At, Good, Holders, Locks
      <4> QED BY <1>1, <1>2, <1>5, <2>1, <2>5, <4>1 DEF HolderAt, Unreadable
    <3>2. restarts > 0
      <4> SUFFICES ASSUME NEW p \in DOMAIN posts, Making(p, n) PROVE FALSE
        BY <1>1, <3>1 DEF ShortMade
      <4> QED BY <3>1 DEF Making, LockAlone, Locks
    <3> QED BY <1>1, <3>1, <3>2 DEF LeftShort
  <2>6. CASE MarkFirst(q)
    <3>1. NoneOver(j)
      BY <1>1, <1>2, <1>5, <2>6, FirstOfFile
    <3>2. progress[n] # NoFile
      <4>1. HolderAt(q)
        BY <2>6 DEF MarkFirst, At, Good, Holders, Locks
      <4> QED BY <1>1, <1>2, <1>5, <4>1 DEF HolderAt
    <3>3. HasMarks(n)' /\ progress'[n].id = <<run, j>> /\ progress'[n].seen = {posts[q].part}
      <4> DEFINE m == [id |-> posts[q].id, seen |-> {posts[q].part}]
      <4>1. progress'[n] = m
        BY <1>1, <2>1, <2>6, <3>2 DEF MarkFirst, Given, FilesInv, ReceiverTypeOK
      <4>2. posts[q].id \in Ids /\ {posts[q].part} \in SUBSET (1 .. IdLength)
        BY <1>5, IndexSets, SegmentTyped DEF Given, IdLength
      <4>3. m \in Marks /\ m.id = posts[q].id /\ m.seen = {posts[q].part}
        BY <4>2, MarksTyped
      <4> HIDE DEF m
      <4> QED BY <2>1, <4>1, <4>3, NoFileIsNone DEF HasMarks
    <3>4. \A i \in 1 .. K : Over(<<j, i>>)' => i = posts[q].part
      BY <2>2, <3>1 DEF NoneOver
    <3>5. \E i \in 1 .. K : i # posts[q].part
      <4>1. 1 \in 1 .. K /\ 2 \in 1 .. K
        BY <1>1
      <4> QED BY <4>1
    <3> QED BY <1>1, <3>3, <3>4, <3>5 DEF SomeNotOver, SeenFor
  <2>7. CASE MarkNext(q)
    <3> PICK S : S = progress[n].seen \cup {posts[q].part}
      OBVIOUS
    <3>1. HasMarks(n) /\ progress[n].id = <<run, j>> /\ progress[n] \in Marks
      BY <1>1, <2>1, <2>7, PostKept DEF MarkNext, AddMark, Readable, HasMarks, Given, StoreInv
    <3>2. progress'[n] = [progress[n] EXCEPT !.seen = S]
      BY <1>1, <2>1, <2>7 DEF MarkNext, AddMark, Given, FilesInv, ReceiverTypeOK
    <3>3. HasMarks(n)' /\ progress'[n].id = <<run, j>> /\ progress'[n].seen = S
      <4>1. S \in SUBSET (1 .. IdLength)
        <5>1. posts[q].part \in 1 .. IdLength
          BY <1>5, IndexSets, SegmentTyped DEF Given, IdLength
        <5> QED BY <3>1, <5>1, MarksTyped
      <4>2. PICK x : x = progress[n]
        OBVIOUS
      <4>3. x \in Marks /\ x.id = <<run, j>>
        BY <3>1, <4>2
      <4>4. LET m == [x EXCEPT !.seen = S] IN m \in Marks /\ m.id = x.id /\ m.seen = S
        BY <4>1, <4>3, SeenGrows
      <4> QED BY <3>2, <4>2, <4>3, <4>4, NoFileIsNone DEF HasMarks
    <3>4. SomeNotOver(j) /\ \A i \in 1 .. K : Over(<<j, i>>) => i \in progress[n].seen
      BY <1>3, <3>1 DEF LeftShort, HasMarks, NoneOver, SeenFor
    <3>5. \A i \in 1 .. K : Over(<<j, i>>)' => i \in S
      BY <2>2, <3>4
    <3>6. SomeNotOver(j)'
      <4>1. CASE q \in DOMAIN pc'
        <5>1. ~Unreadable(q) /\ ~MarkFirst(q)
          BY <2>7, <3>1 DEF MarkNext, AddMark, Readable, Unreadable, MarkFirst, At, HasMarks
        <5> QED BY <1>1, <2>2, <3>4, <4>1, <5>1 DEF SomeNotOver
      <4>2. CASE q \notin DOMAIN pc'
        <5>1. ~Goto(q, "verify")
          BY <4>2 DEF Goto, Given, FilesInv, ReceiverTypeOK
        <5>2. ~(1 .. K \subseteq S)
          BY <2>1, <2>7, <5>1 DEF MarkNext
        <5> QED BY <1>1, <3>5, <5>2 DEF SomeNotOver
      <4> QED BY <4>1, <4>2
    <3> QED BY <1>1, <3>3, <3>5, <3>6 DEF SeenFor
  <2> QED BY <1>5, <2>1, <2>3, <2>4, <2>5, <2>6, <2>7 DEF UpdatesIndex
<1> QED BY <1>4, <1>5

LEMMA HoldersKept ==
  ASSUME Given, RemovesVerified, LockAlone, run \in Runs, Good, NEW q \in DOMAIN posts, Stepped(q)
  PROVE  Holders'
<1> SUFFICES ASSUME NEW p \in DOMAIN posts', Locks(p)', NEW j \in DOMAIN Files[run], Unproven(j)'
             PROVE  IF p[1] = run
                    THEN p[2][1] = j => /\ progress'[Files[run][j].name] # NoFile
                                        /\ pc'[p] = "mark" => NoneOver(j)'
                    ELSE NoneOver(j)'
  BY DEF Holders, HolderAt, Stepped
<1>1. q[1] = run /\ run' = run /\ (Handle(q) \/ Accept(q) \/ Fail(q))
  BY DEF Stepped, Late
<1>2. Unproven(j)
  BY <1>1 DEF Unproven, Handle, Accept, Fail, Create, CreateExclusive, Fill, Wait,
         VerifyParent, WriteTorn, Write, MakeLink, Single, Index, Unreadable, StartOver, MarkFirst,
         MarkNext, AddMark, Remove
<1>3. CASE p # q
  <2>1. p \in DOMAIN posts /\ pc'[p] = pc[p] /\ Locks(p)
    BY <1>1, <1>3, OthersStay DEF Locks
  <2>2. HolderAt(p)
    BY <2>1 DEF Good, Holders
  <2>3. ~Locks(q) /\ ~Index(q)
    BY <1>3, <2>1 DEF LockAlone, Index, Unlocked, Locks, Given, FilesInv, ReceiverTypeOK
  <2>4. UpdatesIndex(q) => Single(q)
    BY <2>3 DEF UpdatesIndex, Unreadable, StartOver, Readable, MarkFirst, MarkNext, AddMark, At, Locks
  <2>5. q[2][1] # j \/ ~UpdatesIndex(q)
    <3> SUFFICES ASSUME q[2][1] = j, Single(q) PROVE FALSE
      BY <2>4
    <3>1. posts[q].count = Files[run][j].parts
      BY <1>1, IndexSets, SegmentTyped DEF Given, UpdatesIndex
    <3> QED BY <1>2, <3>1 DEF Single, Unproven
  <2>6. /\ progress'[Files[run][j].name] = progress[Files[run][j].name]
        /\ \A i \in 1 .. Files[run][j].parts : Over(<<j, i>>)' => Over(<<j, i>>)
    BY <1>2, <2>5, OverMarkedRest
  <2>7. NoneOver(j) => NoneOver(j)'
    BY <1>1, <2>6 DEF NoneOver
  <2> QED BY <1>2, <2>1, <2>2, <2>6, <2>7 DEF HolderAt
<1>4. CASE p = q
  <2> SUFFICES ASSUME q[2][1] = j
               PROVE  /\ progress'[Files[run][j].name] # NoFile
                      /\ pc'[q] = "mark" => NoneOver(j)'
    BY <1>1, <1>4
  <2> PICK n : n = Files[run][j].name
    OBVIOUS
  <2>1. n \in Names /\ posts[q].name = n
    BY <1>1, FileTyped, PostTyped DEF Given
  <2>2. q \in DOMAIN posts /\ ((Index(q) /\ Unlocked) \/ (StartOver(q) /\ Locks(q)))
    BY <1>1, <1>4, LocksFrom
  <2>3. progress'[n] # NoFile
    <3>1. CASE Index(q)
      BY <2>1, <3>1, NoFileIsNone DEF Index, Given, FilesInv, ReceiverTypeOK
    <3>2. CASE StartOver(q)
      <4>1. UNCHANGED progress \/ \E m \in Marks \cup {Short} : Sets(q, m)
        BY <3>2, IndexSets DEF Given, UpdatesIndex
      <4>2. progress[n] # NoFile
        BY <2>1, <3>2 DEF StartOver, Readable
      <4> QED BY <2>1, <4>1, <4>2, NoFileIsNone DEF Sets, Given, FilesInv, ReceiverTypeOK
    <3> QED BY <2>2, <3>1, <3>2
  <2>4. ASSUME pc'[q] = "mark"
        PROVE  NoneOver(j)'
    <3>1. (Index(q) /\ progress[posts[q].name] = NoFile) \/ StartOver(q)
      BY <2>2, <2>4 DEF Index, Goto, Given, FilesInv, ReceiverTypeOK
    <3>2. NoneOver(j)
      BY <1>1, <1>2, <3>1, FirstOfFile
    <3>3. ~Remove(q) /\ ~Unreadable(q) /\ ~MarkFirst(q) /\ ~MarkNext(q)
      BY <3>1 DEF Index, StartOver, Readable, Unreadable, MarkFirst, MarkNext, AddMark, Remove, At
    <3>4. \A i \in 1 .. Files[run][j].parts : Over(<<j, i>>)' => Over(<<j, i>>)
      BY <1>2, <3>3, NewlyOver DEF Unproven
    <3> QED BY <1>1, <3>2, <3>4 DEF NoneOver
  <2> QED BY <2>3, <2>4
<1> QED BY <1>3, <1>4

-----------------------------------------------------------------------------
(* The other steps write nothing. *)
LEMMA GoodStays ==
  ASSUME Good, run \in Runs, run' = run, UNCHANGED <<store, link, progress, verified>>,
         restarts \in Nat, restarts' \in {restarts, restarts + 1},
         \A it \in Items(run) : Over(it)' => Over(it),
         \A p \in DOMAIN posts' : PastWriting(p)' => p \in DOMAIN posts /\ pc'[p] = pc[p]
  PROVE  Good'
<1>1. \A it : Stored(it)' <=> Stored(it)
  BY DEF Stored, InPlace
<1>2. OverStored' /\ WrittenStored'
  BY <1>1 DEF Good, OverStored, WrittenStored, PastWriting
<1>3. MarkedStored'
  BY DEF Good, MarkedStored, HasMarks, InPlace
<1>4. \A j \in DOMAIN Files[run] : Unproven(j)' =>
        /\ Unproven(j) /\ (LeftShort(j) => LeftShort(j)')
        /\ SomeNotOver(j) => SomeNotOver(j)'
        /\ NoneOver(j) => NoneOver(j)'
        /\ SeenFor(j) => SeenFor(j)'
  <2> SUFFICES ASSUME NEW j \in DOMAIN Files[run], Unproven(j)'
               PROVE  /\ Unproven(j) /\ (LeftShort(j) => LeftShort(j)')
                      /\ SomeNotOver(j) => SomeNotOver(j)'
                      /\ NoneOver(j) => NoneOver(j)'
                      /\ SeenFor(j) => SeenFor(j)'
    OBVIOUS
  <2>1. Unproven(j)
    BY DEF Unproven
  <2>2. Files[run][j].parts \in Nat
    BY FileTyped
  <2>3. \A i \in 1 .. Files[run][j].parts : <<j, i>> \in Items(run)
    BY <2>1, <2>2, ItemIs DEF Unproven
  <2>4. \A i \in 1 .. Files[run][j].parts : Over(<<j, i>>)' => Over(<<j, i>>)
    BY <2>3
  <2>5. LeftShort(j) => LeftShort(j)'
    BY DEF LeftShort
  <2> QED BY <2>1, <2>4, <2>5 DEF SomeNotOver, NoneOver, SeenFor, HasMarks
<1>5. OverMarked'
  BY <1>4 DEF Good, OverMarked
<1>6. Holders'
  <2> SUFFICES ASSUME NEW p \in DOMAIN posts', Locks(p)' PROVE HolderAt(p)'
    BY DEF Holders
  <2>1. p \in DOMAIN posts /\ pc'[p] = pc[p]
    BY DEF Locks, PastWriting
  <2>2. HolderAt(p)
    BY <2>1 DEF Good, Holders, Locks
  <2> QED BY <1>4, <2>1, <2>2 DEF HolderAt
<1> QED BY <1>2, <1>3, <1>5, <1>6 DEF Good

LEMMA GoodStarts ==
  ASSUME SenderTypeOK, FilesInv, MarksOwned, StartAgain
  PROVE  Good'
<1>1. /\ run \in Runs /\ run' = run + 1 /\ run' \in Runs /\ ~(run' <= run)
      /\ status' = [it \in Items(run') |-> "todo"]
      /\ UNCHANGED <<store, link, progress, posts, pc, verified>>
  BY RunsAre DEF SenderTypeOK, StartAgain, NewRun, StartOf, receivervars
<1>2. \A it \in Items(run') : ~Over(it)'
  BY <1>1 DEF Over
<1>3. OverStored' /\ WrittenStored'
  BY <1>1, <1>2 DEF OverStored, WrittenStored, FilesInv, PostsSent
<1>4. MarkedStored'
  <2> SUFFICES ASSUME NEW j \in DOMAIN Files[run'], NEW n, n = Files[run'][j].name,
                      HasMarks(n), progress[n].id = <<run', j>>
               PROVE  FALSE
    BY <1>1 DEF MarkedStored, HasMarks
  <2>1. n \in Names
    BY <1>1, FileTyped
  <2>2. run' <= run
    BY <2>1, MarksOf DEF MarkedBy
  <2> QED BY <1>1, <2>2
<1>5. \A j \in DOMAIN Files[run'] : Unproven(j)' => SomeNotOver(j)' /\ NoneOver(j)'
  <2> SUFFICES ASSUME NEW j \in DOMAIN Files[run'], Unproven(j)'
               PROVE  SomeNotOver(j)' /\ NoneOver(j)'
    OBVIOUS
  <2>1. Files[run'][j].parts \in Nat /\ Files[run'][j].parts > 1 /\ ~IsLink(run', j)
    BY <1>1, FileTyped DEF Unproven
  <2>2. \A i \in 1 .. Files[run'][j].parts : <<j, i>> \in Items(run')
    BY <1>1, <2>1, ItemIs
  <2>3. NoneOver(j)'
    BY <1>2, <2>2 DEF NoneOver
  <2>4. 1 \in 1 .. Files[run'][j].parts
    BY <2>1
  <2> QED BY <2>3, <2>4 DEF NoneOver, SomeNotOver
<1>6. OverMarked'
  BY <1>5 DEF OverMarked
<1>7. Holders'
  <2>1. \A q \in DOMAIN posts' : q[1] # run'
    BY <1>1 DEF FilesInv, PostsSent
  <2> QED BY <1>5, <2>1 DEF Holders, HolderAt
<1> QED BY <1>3, <1>4, <1>6, <1>7 DEF Good

LEMMA GoodKept ==
  ASSUME Given, SenderTypeOK, KeptInv, restarts \in Nat, GoodInv, [Next]_vars
  PROVE  GoodInv'
<1> SUFFICES ASSUME failed' = {}, ~late'
             PROVE  Good'
  BY DEF GoodInv
<1> run \in Runs
  BY DEF SenderTypeOK
<1>0. StoreKept /\ MarksOwned /\ RemovesVerified /\ LockAlone /\ ShortMade
  BY DEF KeptInv
<1>1. CASE StartAgain
  BY <1>0, <1>1, GoodStarts DEF Given
<1>2. CASE ~StartAgain
  <2>1. run' = run /\ failed = {} /\ ~late
    <3> USE DEF Next, vars, sendervars, Sender, Try, Begin, Retry, Attempt, GiveUp, GivesUp,
            CheckErr, Check, Die, Fatal, Finish, Done, Handler, Continue, Answer, Refuse,
            Succeeds, Loses, Break, Crash
    <3>1. run' = run
      BY <1>2
    <3>2. failed = {}
      BY <1>2
    <3>3. ~late
      BY <1>2 DEF Late
    <3> QED BY <3>1, <3>2, <3>3
  <2>2. Good
    BY <2>1 DEF GoodInv
  <2>3. ASSUME NEW q \in DOMAIN posts, Handler(q)
        PROVE  Good'
    <3>1. \A it \in Items(run) : Over(it)' => Over(it) \/ (it = q[2] /\ Accept(q))
      BY <2>3 DEF Handler, Continue, Answer, Refuse, sendervars, Succeeds, Loses, Over, SenderTypeOK
    <3>2. Stepped(q)
      BY <2>1, <2>3, <3>1 DEF Handler, Continue, Answer, Refuse, Stepped
    <3>3. restarts' = restarts
      BY <2>3 DEF Handler, Continue, Answer, Refuse, bounded
    <3>4. OverStored' /\ WrittenStored' /\ MarkedStored'
      BY <1>0, <2>2, <3>2, OverStoredKept, WrittenStoredKept, MarkedStoredKept
    <3>5. OverMarked' /\ Holders'
      BY <1>0, <2>2, <3>2, <3>3, OverMarkedKept, HoldersKept
    <3> QED BY <3>4, <3>5 DEF Good
  <2>4. ASSUME NEW it \in Items(run), Try(it)
        PROVE  Good'
    <3>1. UNCHANGED <<store, link, progress, verified, restarts>>
      BY <2>4 DEF Try, bounded
    <3>2. \A jt \in Items(run) : Over(jt)' => Over(jt)
      BY <2>4 DEF Try, Begin, Retry, Attempt, Over, SenderTypeOK
    <3>3. \A p \in DOMAIN posts' : PastWriting(p)' => p \in DOMAIN posts /\ pc'[p] = pc[p]
      BY <2>4 DEF Try, Arrive, PastWriting
    <3> QED BY <2>1, <2>2, <3>1, <3>2, <3>3, GoodStays
  <2>5. CASE UNCHANGED <<store, link, progress, verified, posts, pc, restarts>>
             /\ \A jt \in Items(run) : Over(jt)' => Over(jt)
    BY <2>1, <2>2, <2>5, GoodStays
  <2>6. CASE UNCHANGED vars
    BY <2>5, <2>6 DEF vars, sendervars, receivervars, bounded, Over
  <2>7. ASSUME NEW it \in Items(run), GiveUp(it) \/ CheckErr(it) \/ Die(it)
        PROVE  Good'
    <3>1. ~GiveUp(it)
      BY DEF GiveUp, GivesUp
    <3>2. CASE CheckErr(it)
      BY <2>5, <3>2 DEF CheckErr, Check, receivervars, bounded, Over, SenderTypeOK
    <3>3. CASE Die(it)
      BY <2>5, <3>3 DEF Die, Fatal, Untouched, bounded, Over
    <3> QED BY <2>7, <3>1, <3>2, <3>3
  <2>8. CASE Finish
    BY <2>5, <2>8 DEF Finish, Done, receivervars, bounded, Over
  <2>9. ASSUME NEW q \in DOMAIN posts, Break(q)
        PROVE  Good'
    BY <2>5, <2>9 DEF Break, Loses, Untouched, Over
  <2>10. CASE Crash
    <3>1. UNCHANGED <<store, link, progress, verified>> /\ restarts' = restarts + 1
      BY <2>10 DEF Crash, Restart
    <3>2. \A jt \in Items(run) : Over(jt)' => Over(jt)
      BY <2>10 DEF Crash, Loses, Over
    <3>3. \A p \in DOMAIN posts' : p \in DOMAIN posts /\ pc'[p] = pc[p]
      BY <2>10 DEF Crash, Restart, Ends
    <3> QED BY <2>1, <2>2, <3>1, <3>2, <3>3, GoodStays
  <2> QED BY <1>2, <2>3, <2>4, <2>6, <2>7, <2>8, <2>9, <2>10 DEF Next, Sender
<1> QED BY <1>1, <1>2

-----------------------------------------------------------------------------
(* The invariant of a steady transfer. *)
SafeInv == TypeInv /\ KeptInv /\ GoodInv

LEMMA SafeGiven ==
  ASSUME Steady, DistinctNames, SafeInv
  PROVE  /\ Given /\ SenderTypeOK /\ run \in Runs /\ restarts \in Nat
         /\ KeptInv /\ GoodInv
         /\ StoreKept /\ MarksOwned /\ RemovesVerified /\ AllEnded
         /\ LockAlone /\ TriedPosts /\ ShortMade
<1>1. FilesInv /\ SenderTypeOK /\ run \in Runs /\ restarts \in Nat
  BY DEF SafeInv, TypeInv, TransferTypeOK, FilesInv, SenderTypeOK
<1> QED BY <1>1, SteadyApart DEF Given, SafeInv, KeptInv

LEMMA InitSafe == Init => SafeInv
<1> SUFFICES ASSUME Init PROVE SafeInv
  OBVIOUS
<1>1. TypeInv /\ run \in Runs
  BY InitTyped DEF TypeInv, TransferTypeOK, SenderTypeOK
<1>2. /\ posts = << >> /\ DOMAIN posts = {} /\ stage = "sending"
      /\ \A n \in Names : store[n] = NoFile /\ progress[n] = NoFile
      /\ \A it \in Items(run) : status[it] = "todo"
  BY DEF Init, SenderInit, ReceiverInit
<1>3. StoreKept
  BY <1>2, FileTyped DEF StoreKept, SizesKept, FillsAlone, Sized
<1>4. /\ MarksOwned /\ RemovesVerified /\ AllEnded
      /\ LockAlone /\ TriedPosts /\ ShortMade /\ Holders
  BY <1>2, NoFileIsNone
     DEF MarksOwned, HasMarks, RemovesVerified, AllEnded, LockAlone, TriedPosts, ShortMade, Holders
<1>5. OverStored /\ WrittenStored /\ MarkedStored
  BY <1>1, <1>2, FileTyped DEF OverStored, Over, WrittenStored, MarkedStored, HasMarks
<1>6. OverMarked
  <2> SUFFICES ASSUME NEW j \in DOMAIN Files[run], Files[run][j].parts > 1, ~IsLink(run, j)
               PROVE  SomeNotOver(j) /\ NoneOver(j)
    BY DEF OverMarked, Unproven
  <2>1. Files[run][j].parts \in Nat
    BY <1>1, FileTyped
  <2>2. \A i \in 1 .. Files[run][j].parts : <<j, i>> \in Items(run)
    BY <1>1, <2>1, ItemIs
  <2>3. NoneOver(j)
    BY <1>2, <2>2 DEF NoneOver, Over
  <2>4. 1 \in 1 .. Files[run][j].parts
    BY <2>1
  <2> QED BY <2>3, <2>4 DEF NoneOver, SomeNotOver
<1> QED BY <1>1, <1>3, <1>4, <1>5, <1>6 DEF SafeInv, KeptInv, GoodInv, Good

LEMMA NextSafe ==
  ASSUME Steady, DistinctNames
  PROVE  SafeInv /\ [Next]_vars => SafeInv'
<1> SUFFICES ASSUME SafeInv, [Next]_vars PROVE SafeInv'
  OBVIOUS
<1>1. TypeInv'
  BY SteadyApart, NextTyped DEF SafeInv
<1>2. StoreKept'
  BY SafeGiven, StoreKeptNext
<1>3. MarksOwned' /\ RemovesVerified' /\ LockAlone' /\ TriedPosts' /\ ShortMade'
  <2>1. MarksOwned' /\ RemovesVerified'
    BY SafeGiven, MarksKept
  <2>2. LockAlone'
    BY SafeGiven, LockKept
  <2>3. TriedPosts' /\ ShortMade'
    BY SafeGiven, TriedKept, ShortKept DEF Given
  <2> QED BY <2>1, <2>2, <2>3
<1>4. AllEnded'
  BY SafeGiven, EndedKept
<1>5. GoodInv'
  BY SafeGiven, GoodKept
<1> QED BY <1>1, <1>2, <1>3, <1>4, <1>5 DEF SafeInv, KeptInv

-----------------------------------------------------------------------------
(* What it means for a run that is done. *)
LEMMA FileStored ==
  ASSUME Steady, DistinctNames, SafeInv, Ended, NEW j \in DOMAIN Files[run], ~IsLink(run, j)
  PROVE  store[Files[run][j].name] = FullFile(Files[run][j].data, Files[run][j].parts)
<1> DEFINE f == Files[run][j]
           k == Cells(f)
           s == store[f.name]
<1>1. /\ run \in Runs /\ StoreKept /\ OverStored /\ FilesInv
      /\ \A it \in Items(run) : Over(it)
  BY SafeGiven DEF Given, Ended, Smooth, GoodInv, Good, AllEnded, Over
<1>2. f.parts \in Nat /\ f.name \in Names /\ k \in Nat \ {0}
  BY <1>1, FileTyped DEF Cells
<1>3. \A c \in 1 .. k : InPlace(f, c)
  <2> SUFFICES ASSUME NEW c \in 1 .. k PROVE InPlace(f, c)
    OBVIOUS
  <2>1. CASE f.parts = 0
    <3>1. c = 1
      BY <2>1 DEF Cells
    <3>2. <<j, 0>> \in Items(run)
      BY <1>1, <2>1, ItemIs
    <3>3. Stored(<<j, 0>>)
      BY <1>1, <3>2 DEF OverStored
    <3> QED BY <2>1, <3>1, <3>3 DEF Stored
  <2>2. CASE f.parts # 0
    <3>1. c \in 1 .. f.parts /\ c \in Nat
      BY <1>2, <2>2 DEF Cells
    <3>2. <<j, c>> \in Items(run)
      BY <1>1, <2>2, <3>1, ItemIs
    <3>3. Stored(<<j, c>>)
      BY <1>1, <3>2 DEF OverStored
    <3> QED BY <2>2, <3>3 DEF Stored
  <2> QED BY <2>1, <2>2
<1>4. s # NoFile /\ s # << >> /\ s \in FileContent
  <2>1. 1 \in 1 .. k
    BY <1>2
  <2>2. InPlace(f, 1)
    BY <1>3, <2>1
  <2> QED BY <1>1, <1>2, <2>2 DEF InPlace, FilesInv, ReceiverTypeOK, FileContent
<1>5. Len(s) = k
  <2>1. Len(s) <= k /\ Len(s) \in Nat /\ DOMAIN s = 1 .. Len(s)
    BY <1>1, <1>4 DEF StoreKept, SizesKept, FileContent
  <2>2. k \in DOMAIN s
    <3>1. InPlace(f, k)
      BY <1>2, <1>3
    <3> QED BY <3>1 DEF InPlace
  <2> HIDE DEF f, s, k
  <2>3. PICK l : l = Len(s)
    OBVIOUS
  <2>4. l \in Nat /\ l <= k /\ k \in 1 .. l
    BY <2>1, <2>2, <2>3
  <2> QED BY <1>2, <2>3, <2>4
<1>6. DOMAIN s = 1 .. k /\ s = [i \in 1 .. k |-> s[i]]
  BY <1>4, <1>5 DEF FileContent
<1>7. \A i \in 1 .. k : s[i] = f.data
  BY <1>3 DEF InPlace
<1> HIDE DEF s
<1>8. s = [i \in 1 .. k |-> f.data]
  BY <1>6, <1>7
<1> QED BY <1>8 DEF FullFile, Cells, s

LEMMA DoneStored ==
  ASSUME Steady, DistinctNames, SafeInv
  PROVE  DoneMeansStored
<1> SUFFICES ASSUME Ended, NEW j \in DOMAIN Files[run]
             PROVE  store[real[Files[run][j].name]] =
                      FullFile(Files[run][j].data, Files[run][First(run, j)].parts)
  BY DEF DoneMeansStored
<1> DEFINE f == Files[run][j]
           k == First(run, j)
<1>1. /\ run \in Runs /\ StoreKept /\ OverStored /\ FilesInv /\ LinksApart
      /\ \A it \in Items(run) : Over(it)
  BY SafeGiven DEF Given, Ended, Smooth, GoodInv, Good, AllEnded, Over
<1>2. k \in DOMAIN Files[run] /\ Files[run][k].data = f.data /\ ~IsLink(run, k) /\ f.name \in Names
  BY <1>1, FirstIsFirst, FileTyped
<1>3. real[f.name] = link[f.name]
  BY <1>1, <1>2, LinksFlat, RealIsLink DEF FilesInv, ReceiverTypeOK
<1>4. link[f.name] = Files[run][k].name
  <2>1. CASE IsLink(run, j)
    <3>1. <<j, 0>> \in Items(run)
      BY <1>1, <2>1, ItemIs
    <3>2. Stored(<<j, 0>>)
      BY <1>1, <3>1 DEF OverStored
    <3> QED BY <2>1, <3>2 DEF Stored
  <2>2. CASE ~IsLink(run, j)
    BY <1>1, <2>2, OwnName DEF FilesInv, IsLink
  <2> QED BY <2>1, <2>2
<1>5. store[Files[run][k].name] = FullFile(Files[run][k].data, Files[run][k].parts)
  BY <1>2, FileStored
<1> QED BY <1>2, <1>3, <1>4, <1>5

LEMMA DoneVerified ==
  ASSUME Steady, DistinctNames, SafeInv
  PROVE  DoneMeansVerified
<1> SUFFICES ASSUME Ended, NEW j \in DOMAIN Files[run], Files[run][j].parts > 1, ~IsLink(run, j),
                    <<run, j>> \notin verified
             PROVE  LeftShort(j)
  BY DEF DoneMeansVerified, LeftShort
<1>1. run \in Runs /\ OverMarked /\ \A it \in Items(run) : Over(it)
  BY SafeGiven DEF Ended, Smooth, GoodInv, Good, AllEnded, Over
<1>2. Files[run][j].parts \in Nat
  BY <1>1, FileTyped
<1>3. \A i \in 1 .. Files[run][j].parts : <<j, i>> \in Items(run)
  BY <1>1, <1>2, ItemIs
<1> QED BY <1>1, <1>3 DEF OverMarked, Unproven, SomeNotOver

LEMMA MarkedTrue ==
  ASSUME Steady, DistinctNames, SafeInv
  PROVE  ProgressTellsTruth
<1> SUFFICES ASSUME Smooth, NEW j \in DOMAIN Files[run],
                    HasMarks(Files[run][j].name),
                    progress[Files[run][j].name].id = <<run, j>>,
                    NEW i \in progress[Files[run][j].name].seen
             PROVE  store[real[Files[run][j].name]][i] = Files[run][j].data
  BY DEF ProgressTellsTruth, HasMarks
<1> DEFINE n == Files[run][j].name
<1>1. run \in Runs /\ MarksOwned /\ MarkedStored /\ FilesInv /\ LinksApart
  BY SafeGiven DEF Given, Smooth, GoodInv, Good
<1>2. n \in Names
  BY <1>1, FileTyped
<1>3. ~IsLink(run, j)
  BY <1>1, <1>2, MarksOf DEF MarkedBy
<1>4. real[n] = n
  BY <1>1, <1>2, <1>3, LinksFlat, RealIsLink, OwnName DEF FilesInv, ReceiverTypeOK
<1>5. InPlace(Files[run][j], i)
  BY <1>1 DEF MarkedStored
<1> QED BY <1>4, <1>5 DEF InPlace

(* The three properties are about Steady transfers only. *)
LEMMA SafeWhenSteady ==
  ASSUME DistinctNames, Steady
  PROVE  Spec => []SafeInv
<1>1. Init => SafeInv
  BY InitSafe
<1>2. SafeInv /\ [Next]_vars => SafeInv'
  BY NextSafe
<1> QED BY <1>1, <1>2, PTL DEF Spec

(* When ff-sender is done and no Send has failed, every path it was given  *)
(* holds, through links if need be, the file as it is now, however many    *)
(* segments, goroutines, retries, breaks, restarts and runs there are.     *)
THEOREM StoredWhenDone == ASSUME DistinctNames PROVE Spec => []DoneMeansStored
<1>1. CASE Steady
  <2>1. SafeInv => DoneMeansStored
    BY <1>1, DoneStored
  <2> QED BY <1>1, <2>1, SafeWhenSteady, PTL
<1>2. CASE ~Steady
  <2>1. DoneMeansStored
    BY <1>2 DEF DoneMeansStored, Ended, Smooth
  <2> QED BY <2>1, PTL
<1> QED BY <1>1, <1>2

(* And every file of several segments was verified as a whole: some post   *)
(* found all its marks, however the last segments raced for its .progress, *)
(* unless a restart has cut that off between its creation and its first    *)
(* write: then every mark of the file is refused with an answer of 200.    *)
THEOREM VerifiedWhenDone == ASSUME DistinctNames PROVE Spec => []DoneMeansVerified
<1>1. CASE Steady
  <2>1. SafeInv => DoneMeansVerified
    BY <1>1, DoneVerified
  <2> QED BY <1>1, <2>1, SafeWhenSteady, PTL
<1>2. CASE ~Steady
  <2>1. DoneMeansVerified
    BY <1>2 DEF DoneMeansVerified, Ended, Smooth
  <2> QED BY <2>1, PTL
<1> QED BY <1>1, <1>2

(* A part that a .progress of this run has as seen is in its place in the  *)
(* file, for updateIndexFile comes after the write and nothing is written  *)
(* over it.                                                                *)
THEOREM ProgressTruthful == ASSUME DistinctNames PROVE Spec => []ProgressTellsTruth
<1>1. CASE Steady
  <2>1. SafeInv => ProgressTellsTruth
    BY <1>1, MarkedTrue
  <2> QED BY <1>1, <2>1, SafeWhenSteady, PTL
<1>2. CASE ~Steady
  <2>1. ProgressTellsTruth
    BY <1>2 DEF ProgressTellsTruth, Smooth
  <2> QED BY <2>1, PTL
<1> QED BY <1>1, <1>2

(* Whatever fails or comes late, a path of a steady transfer never has a   *)
(* longer file than the one that is sent to it; only one segment makes it  *)
(* that long (O_EXCL), with nothing but zeros in it until it is; and every *)
(* segment is written into a file that has its size.                       *)
THEOREM PathsKeepTheirSize == ASSUME DistinctNames, Steady PROVE Spec => []StoreKept
<1>1. SafeInv => StoreKept
  BY DEF SafeInv, KeptInv
<1> QED BY <1>1, SafeWhenSteady, PTL
=============================================================================
