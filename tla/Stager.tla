-------------------------------- MODULE Stager --------------------------------
(***************************************************************************)
(* ff-stager: concurrent POSTs are laid down in the directory, one FlowFile*)
(* after the other, and published by renaming .inprogress to .json.        *)
(***************************************************************************)
EXTENDS StagingDir

CONSTANTS
  RemovePartial,   \* flag -rm-partial
  Leaving,         \* POSTs whose client may go away before they are through
  StagerMayCrash   \* whether ff-stager may be killed

ASSUME StagerAssumption ==
  /\ RemovePartial \in BOOLEAN
  /\ Leaving \subseteq Uploads
  /\ StagerMayCrash \in BOOLEAN

VARIABLES
  pc,     \* pc[u]: where post is with u
  taken,  \* taken[u]: FlowFiles of u that were staged
  reply   \* reply[u]: what the client of u was told

svars == <<pc, taken, reply>>

StagerTypeOK ==
  /\ pc \in [Uploads -> {"idle", "open", "stuck", "ended"}]
  /\ taken \in [Uploads -> Nat]
  /\ \A u \in Uploads : taken[u] <= Len(Content[u])
  /\ reply \in [Uploads -> {"none", "ok", "error"}]

StagerInit ==
  /\ pc = [u \in Uploads |-> "idle"]
  /\ taken = [u \in Uploads |-> 0]
  /\ reply = [u \in Uploads |-> "none"]

-----------------------------------------------------------------------------
(* The FlowFile of u that the scanner is at. *)
AtFile(u) == pc[u] = "open" /\ taken[u] < Len(Content[u])
File(u) == Content[u][taken[u] + 1]

(* The .dat with the current FlowFile written to it. *)
DatWith(u) == Append(dat[u], File(u))

End(u, answer) ==
  /\ pc' = [pc EXCEPT ![u] = "ended"]
  /\ reply' = [reply EXCEPT ![u] = answer]

(* post creates .dat and .inprogress. *)
Open(u) ==
  /\ pc[u] = "idle"
  /\ pc' = [pc EXCEPT ![u] = "open"]
  /\ dat' = [dat EXCEPT ![u] = << >>]
  /\ tmp' = tmp \cup {u}
  /\ UNCHANGED <<json, taken, reply>>

OpenFails(u) ==
  /\ DiskMayFail
  /\ pc[u] = "idle"
  /\ dat' \in {dat, [dat EXCEPT ![u] = << >>]}
  /\ End(u, "error")
  /\ UNCHANGED <<tmp, json, taken>>

(* Mutant: a FlowFile that fails its verification is staged all the same. *)
Stage_Unverified(u) ==
  /\ AtFile(u)
  /\ dat' = [dat EXCEPT ![u] = DatWith(u)]
  /\ taken' = [taken EXCEPT ![u] = @ + 1]
  /\ UNCHANGED <<tmp, json, pc, reply>>

(* A FlowFile is written out and verified. *)
Stage(u) ==
  /\ AtFile(u)
  /\ Verified(File(u))
  /\ dat' = [dat EXCEPT ![u] = DatWith(u)]
  /\ taken' = [taken EXCEPT ![u] = @ + 1]
  /\ UNCHANGED <<tmp, json, pc, reply>>

(* Verification fails; .inprogress stays behind, and .dat if it cannot be  *)
(* removed.                                                                *)
Refuse(u) ==
  /\ AtFile(u)
  /\ ~Verified(File(u))
  /\ \/ RemovePartial /\ dat' = [dat EXCEPT ![u] = NoFile]
     \/ (RemovePartial => DiskMayFail) /\ dat' = [dat EXCEPT ![u] = DatWith(u)]
  /\ End(u, "error")
  /\ UNCHANGED <<tmp, json, taken>>

(* Writing a FlowFile or the attributes fails; both files stay behind. *)
WriteFails(u) ==
  /\ DiskMayFail
  /\ pc[u] = "open"
  /\ End(u, "error")
  /\ UNCHANGED <<dirvars, taken>>

(* The client goes away in the middle of a payload.  With a checksum       *)
(* File.Read drops the error of the connection, and io.Copy never ends.    *)
BreakOff(u) ==
  /\ u \in Leaving
  /\ AtFile(u) /\ File(u) \notin Empty
  /\ IF HasSum(File(u)) THEN pc' = [pc EXCEPT ![u] = "stuck"] /\ UNCHANGED reply
     ELSE End(u, "error")
  /\ UNCHANGED <<dirvars, taken>>

(* Mutant: the .json is there from the first FlowFile on. *)
Publish_Early(u) ==
  /\ pc[u] = "open"
  /\ tmp' = tmp \ {u}
  /\ json' = json \cup {u}
  /\ End(u, "ok")
  /\ UNCHANGED <<dat, taken>>

(* Scan finds no further FlowFile, be it the end of the POST or an error   *)
(* nobody looks at: the attributes are written and .inprogress is renamed. *)
(* The error of the rename is dropped, and the client is told the same.    *)
Publish(u) ==
  /\ pc[u] = "open"
  /\ u \in Leaving \/ taken[u] = Len(Content[u])
  /\ \/ tmp' = tmp \ {u} /\ json' = json \cup {u}
     \/ DiskMayFail /\ UNCHANGED <<tmp, json>>
  /\ End(u, IF taken[u] = Len(Content[u]) THEN "ok" ELSE "none")
  /\ UNCHANGED <<dat, taken>>

StagerPost(u) ==
  \/ Open(u) \/ OpenFails(u) \/ Stage(u) \/ Refuse(u) \/ WriteFails(u)
  \/ BreakOff(u) \/ Publish(u)

(* ff-stager is killed: its POSTs end, the directory stays as it is. *)
StagerCrash ==
  /\ StagerMayCrash
  /\ \E u \in Uploads : pc[u] \in {"open", "stuck"}
  /\ pc' = [u \in Uploads |-> IF pc[u] \in {"open", "stuck"} THEN "ended"
                              ELSE pc[u]]
  /\ UNCHANGED <<dirvars, taken, reply>>

=============================================================================
