------------------------------- MODULE Unstager -------------------------------
(***************************************************************************)
(* ff-unstager: one loop lists the directory and replays the .dat of every *)
(* .json it found to an HTTP endpoint, with retries.                       *)
(***************************************************************************)
EXTENDS StagingDir

CONSTANTS
  MaxTries,       \* flag -retries
  MaxFaults,      \* bound on the faults: a .dat that does not open, lost
                  \* answers, failed handshakes and crashes
  Unwanted,       \* POSTs the endpoint may answer with an error status
  NoUpload        \* no POST

ASSUME UnstagerAssumption ==
  /\ MaxTries \in Nat \ {0}
  /\ MaxFaults \in Nat
  /\ Unwanted \subseteq Uploads
  /\ NoUpload \notin Uploads

VARIABLES
  step,      \* what the loop is at
  queue,     \* entries of the listing that are left
  cur,       \* the entry that is being replayed
  tries,     \* attempts at it
  received,  \* FlowFiles the endpoint has taken in
  faults,    \* failures so far
  left       \* history: the POSTs whose .json could not be removed

uvars == <<step, queue, cur, tries, received, faults, left>>

UnstagerTypeOK ==
  /\ step \in {"list", "pick", "send", "retry", "clean", "cleaned", "hung",
               "down"}
  /\ queue \subseteq Uploads
  /\ cur \in Uploads \cup {NoUpload}
  /\ cur = NoUpload => step \in {"list", "pick", "down"}
  /\ tries \in 0 .. MaxTries
  /\ received \subseteq FlowFiles
  /\ faults \in 0 .. MaxFaults
  /\ left \subseteq Uploads

UnstagerInit ==
  /\ step = "list"
  /\ queue = {}
  /\ cur = NoUpload
  /\ tries = 0
  /\ received = {}
  /\ faults = 0
  /\ left = {}

-----------------------------------------------------------------------------
Fault == faults < MaxFaults /\ faults' = faults + 1

(* os.ReadDir: the entries there are now. *)
List ==
  /\ step = "list"
  /\ queue' = json
  /\ step' = "pick"
  /\ UNCHANGED <<dirvars, cur, tries, received, faults, left>>

Pick ==
  /\ step = "pick"
  /\ \E u \in queue :
       /\ queue' = queue \ {u}
       /\ cur' = u
  /\ tries' = 1
  /\ step' = "send"
  /\ UNCHANGED <<dirvars, received, faults, left>>

(* The listing is used up; three seconds later the next one is made. *)
Rest ==
  /\ step = "pick"
  /\ queue = {}
  /\ step' = "list"
  /\ UNCHANGED <<dirvars, queue, cur, tries, received, faults, left>>

(* processFile cannot open the .dat, least of all when it is not there. *)
OpenDatFails ==
  /\ step = "send"
  /\ IF dat[cur] = NoFile THEN UNCHANGED faults ELSE Fault
  /\ step' = "retry"
  /\ UNCHANGED <<dirvars, queue, cur, tries, received, left>>

(* There is no FlowFile in the .dat: closing a post writer that was never  *)
(* written to waits for a flush loop that was never started.               *)
Hang ==
  /\ step = "send"
  /\ dat[cur] = << >>
  /\ step' = "hung"
  /\ UNCHANGED <<dirvars, queue, cur, tries, received, faults, left>>

(* The FlowFiles of a .dat that a scanner finds: payloads are read with    *)
(* ReadAt, which leaves the position at their start, where the next header *)
(* is looked for in vain.  FlowFiles without payload are passed over.      *)
Scanned(s) == {i \in DOMAIN s : \A j \in 1 .. i - 1 : s[j] \in Empty}

(* The endpoint takes in those of the first n FlowFiles. *)
TakeIn(n) ==
  received' = received \cup {dat[cur][i] : i \in Scanned(dat[cur]) \cap 1 .. n}

Sendable == step = "send" /\ dat[cur] \notin {NoFile, << >>}

(* The POST is answered 200. *)
Accepted ==
  /\ Sendable
  /\ TakeIn(Len(dat[cur]))
  /\ step' = "clean"
  /\ UNCHANGED <<dirvars, queue, cur, tries, faults, left>>

(* The POST is answered with an error status.  Close returns the error of  *)
(* the request alone, and there is none, unless the endpoint stopped       *)
(* reading while FlowFiles were still being written.                       *)
Refused ==
  /\ Sendable
  /\ cur \in Unwanted
  /\ \E n \in 0 .. Len(dat[cur]) : TakeIn(n)
  /\ step' \in {"clean", "retry"}
  /\ UNCHANGED <<dirvars, queue, cur, tries, faults, left>>

(* Mutant: a POST that was not answered counts as sent. *)
NoAnswer_Cleans ==
  /\ Sendable
  /\ Fault
  /\ \E n \in 0 .. Len(dat[cur]) : TakeIn(n)
  /\ step' = "clean"
  /\ UNCHANGED <<dirvars, queue, cur, tries, left>>

(* The connection fails, before or after the FlowFiles were taken in. *)
NoAnswer ==
  /\ Sendable
  /\ Fault
  /\ \E n \in 0 .. Len(dat[cur]) : TakeIn(n)
  /\ step' = "retry"
  /\ UNCHANGED <<dirvars, queue, cur, tries, left>>

(* Mutant: the tries are not counted. *)
Retry_NoLimit ==
  /\ step = "retry"
  /\ tries' = tries + 1
  /\ \/ step' = "send" /\ UNCHANGED faults
     \/ step' = "retry" /\ Fault
  /\ UNCHANGED <<dirvars, queue, cur, received, left>>

(* After a pause and a handshake the file is tried again; a handshake that *)
(* fails uses up a try.                                                    *)
Retry ==
  /\ step = "retry"
  /\ tries < MaxTries
  /\ tries' = tries + 1
  /\ \/ step' = "send" /\ UNCHANGED faults
     \/ step' = "retry" /\ Fault
  /\ UNCHANGED <<dirvars, queue, cur, received, left>>

(* Mutant: a file that cannot be sent is passed over. *)
GiveUp_Next ==
  /\ step = "retry"
  /\ tries = MaxTries
  /\ step' = "cleaned"
  /\ UNCHANGED <<dirvars, queue, cur, tries, received, faults, left>>

(* log.Fatal *)
GiveUp ==
  /\ step = "retry"
  /\ tries = MaxTries
  /\ step' = "down"
  /\ UNCHANGED <<dirvars, queue, cur, tries, received, faults, left>>

(* Mutant: .dat goes first. *)
RemoveJson_After ==
  /\ step = "clean"
  /\ dat' = [dat EXCEPT ![cur] = NoFile]
  /\ step' = "cleaned"
  /\ UNCHANGED <<tmp, json, queue, cur, tries, received, faults, left>>

(* The errors of both removals are dropped. *)
RemoveJson ==
  /\ step = "clean"
  /\ \/ json' = json \ {cur} /\ UNCHANGED left
     \/ DiskMayFail /\ left' = left \cup {cur} /\ UNCHANGED json
  /\ step' = "cleaned"
  /\ UNCHANGED <<dat, tmp, queue, cur, tries, received, faults>>

RemoveDat ==
  /\ step = "cleaned"
  /\ \/ dat' = [dat EXCEPT ![cur] = NoFile]
     \/ DiskMayFail /\ UNCHANGED dat
  /\ step' = "pick"
  /\ UNCHANGED <<tmp, json, queue, cur, tries, received, faults, left>>

(* ff-unstager is killed. *)
UnstagerCrash ==
  /\ step # "down"
  /\ Fault
  /\ step' = "down"
  /\ UNCHANGED <<dirvars, queue, cur, tries, received, left>>

(* It is started again, by its operator. *)
Restart ==
  /\ step = "down"
  /\ step' = "list"
  /\ queue' = {}
  /\ cur' = NoUpload
  /\ tries' = 0
  /\ UNCHANGED <<dirvars, received, faults, left>>

Work ==
  \/ List \/ Pick \/ Rest \/ OpenDatFails \/ Hang \/ Accepted \/ Refused \/ NoAnswer
  \/ Retry \/ GiveUp \/ RemoveJson \/ RemoveDat
=============================================================================
