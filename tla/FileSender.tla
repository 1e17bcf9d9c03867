------------------------------ MODULE FileSender ------------------------------
(***************************************************************************)
(* ff-sender: a run sends the files it is given, cut into segments where   *)
(* they are too long, some of them at a time, each with retries.  Item     *)
(* <<j, i>> is part i of file j, <<j, 0>> the whole of it or a link.       *)
(***************************************************************************)
EXTENDS FileData

CONSTANTS
  Files,    \* Files[r]: the files of run r, with their number of segments,
            \* 0 for a file shorter than max-partition-size
  Threads,  \* flag -threads
  Retries   \* flag -retries

Runs == DOMAIN Files

ASSUME SenderAssumption ==
  /\ Files \in Seq(Seq([name : Names, data : Data, parts : Nat]))
  /\ Files # << >>
  /\ Threads \in Nat \ {0} /\ Retries \in Nat

VARIABLES
  run,     \* the run that is going on, or was the last one
  stage,   \* what it has come to
  status,  \* status[it]: what the goroutine of it does
  try,     \* try[it]: attempts at it
  err,     \* whether err, which all goroutines share, is an error
  failed   \* history: items hs.Send gave up

sendervars == <<run, stage, status, try, err, failed>>

Same(r, j) == {k \in 1 .. j : Files[r][k].data = Files[r][j].data}

(* Content that was met before is sent as a link to where that was. *)
First(r, j) == CHOOSE k \in Same(r, j) : \A l \in Same(r, j) : k <= l
IsLink(r, j) == First(r, j) # j

Items(r) == UNION {
  {<<j, i>> : i \in IF IsLink(r, j) \/ Files[r][j].parts = 0 THEN {0}
                    ELSE 1 .. Files[r][j].parts} : j \in DOMAIN Files[r]}

Before(it, jt) == it[1] < jt[1] \/ (it[1] = jt[1] /\ it[2] < jt[2])

SenderTypeOK ==
  /\ run \in Runs
  /\ stage \in {"sending", "done", "failed"}
  /\ status \in [Items(run) -> {"todo", "sending", "lost", "check", "ended"}]
  /\ try \in [Items(run) -> 0 .. Retries + 1]
  /\ err \in BOOLEAN
  /\ failed \subseteq Items(run)

StartOf(r) ==
  /\ run' = r
  /\ stage' = "sending"
  /\ status' = [it \in Items(r) |-> "todo"]
  /\ try' = [it \in Items(r) |-> 0]
  /\ err' = FALSE
  /\ failed' = {}

SenderInit ==
  /\ run = 1
  /\ stage = "sending"
  /\ status = [it \in Items(1) |-> "todo"]
  /\ try = [it \in Items(1) |-> 0]
  /\ err = FALSE
  /\ failed = {}

-----------------------------------------------------------------------------
Working == {it \in Items(run) : status[it] \notin {"todo", "ended"}}

(* One attempt at it, which is sending, or lost at once *)
Attempt(it, l) ==
  /\ stage = "sending"
  /\ status' = [status EXCEPT ![it] = l]
  /\ try' = [try EXCEPT ![it] = @ + 1]
  /\ UNCHANGED <<run, stage, err, failed>>

Begin(it, l) ==
  /\ status[it] = "todo"
  /\ \A jt \in Items(run) : Before(jt, it) => status[jt] # "todo"
  /\ Cardinality(Working) < Threads
  /\ Attempt(it, l)

(* Mutant: one more attempt than there should be. *)
Retry_Again(it, l) ==
  /\ status[it] = "lost" /\ try[it] <= Retries + 1
  /\ Attempt(it, l)

Retry(it, l) ==
  /\ status[it] = "lost" /\ try[it] <= Retries
  /\ Attempt(it, l)

(* Mutant: that is not noticed. *)
Loses_Unnoticed(its) ==
  /\ status' = [it \in Items(run) |-> IF it \in its THEN "check" ELSE status[it]]
  /\ UNCHANGED <<run, stage, try, err, failed>>

(* The POSTs of these fail: there is an error, or no answer. *)
Loses(its) ==
  /\ status' = [it \in Items(run) |-> IF it \in its THEN "lost" ELSE status[it]]
  /\ UNCHANGED <<run, stage, try, err, failed>>

(* hs.Send returns, and its result is assigned to err. *)
Succeeds(it) ==
  /\ status' = [status EXCEPT ![it] = "check"]
  /\ err' = FALSE
  /\ UNCHANGED <<run, stage, try, failed>>

GivesUp(it) ==
  /\ stage = "sending" /\ status[it] = "lost"
  /\ try[it] > Retries
  /\ status' = [status EXCEPT ![it] = "check"]
  /\ err' = TRUE
  /\ failed' = failed \cup {it}
  /\ UNCHANGED <<run, stage, try>>

(* err is looked at, by now perhaps that of another goroutine. *)
Check(it) ==
  /\ stage = "sending" /\ status[it] = "check" /\ ~err
  /\ status' = [status EXCEPT ![it] = "ended"]
  /\ UNCHANGED <<run, stage, try, err, failed>>

(* log.Fatal ends the run. *)
Fatal(it) ==
  /\ stage = "sending" /\ status[it] = "check" /\ err
  /\ stage' = "failed"
  /\ UNCHANGED <<run, status, try, err, failed>>

Done ==
  /\ stage = "sending"
  /\ \A it \in Items(run) : status[it] = "ended"
  /\ stage' = "done"
  /\ UNCHANGED <<run, status, try, err, failed>>

(* ff-sender is started again, the files may have changed since. *)
NewRun ==
  /\ stage # "sending"
  /\ run + 1 \in Runs
  /\ StartOf(run + 1)
===============================================================================
