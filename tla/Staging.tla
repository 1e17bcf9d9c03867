------------------------------- MODULE Staging -------------------------------
(***************************************************************************)
(* ff-stager and ff-unstager at work on one directory.                     *)
(***************************************************************************)
EXTENDS Stager, Unstager

vars == <<dirvars, svars, uvars>>

TypeOK == DirTypeOK /\ StagerTypeOK /\ UnstagerTypeOK

Init == DirInit /\ StagerInit /\ UnstagerInit

Next ==
  \/ (\E u \in Uploads : StagerPost(u)) /\ UNCHANGED uvars
  \/ StagerCrash /\ UNCHANGED uvars
  \/ (Work \/ UnstagerCrash \/ Restart) /\ UNCHANGED svars

(* The goroutines of the stager and the loop of the unstager keep running, *)
(* and an unstager that went down is started again.                        *)
Spec ==
  /\ Init /\ [][Next]_vars
  /\ \A u \in Uploads : WF_vars(StagerPost(u) /\ UNCHANGED uvars)
  /\ WF_vars(Work /\ UNCHANGED svars)
  /\ WF_vars(Restart /\ UNCHANGED svars)

-----------------------------------------------------------------------------
(* The endpoint takes it, and of its FlowFiles at most the last one has a  *)
(* payload, so that all of them are sent.                                  *)
Replayable(u) ==
  u \notin Unwanted /\ DOMAIN Content[u] \subseteq Scanned(Content[u])

(* A .json vouches for its .dat: the FlowFiles of the POST, verified, and  *)
(* all of them if the client was told so, whatever post or removal was cut *)
(* short by a crash (the rename at the end of post, the removal of .json   *)
(* ahead of .dat in processFile).  It has none only when it was to be      *)
(* removed and could not be, and then its FlowFiles are at the endpoint.   *)
Whole(u) ==
  /\ dat[u] = SubSeq(Content[u], 1, taken[u])
  /\ \A i \in DOMAIN dat[u] : Verified(dat[u][i])
  /\ reply[u] = "ok" => dat[u] = Content[u]

Replayed(u) ==
  Replayable(u) => \A i \in 1 .. taken[u] : Content[u][i] \in received

PublishedIsWhole ==
  \A u \in json : Whole(u) \/ (u \in left /\ dat[u] = NoFile /\ Replayed(u))

Taken(u) == reply[u] = "ok" /\ Replayable(u)

(* A FlowFile the stager said it took is at the endpoint or still in the   *)
(* directory, to be replayed: no lost answer, retry or crash of either     *)
(* program loses it, nor what befalls other POSTs or a removal that fails. *)
(* When the rename at the end of post failed it is there all the same, in  *)
(* a .dat with an .inprogress that nobody replays.                         *)
NothingLost ==
  \A u \in Uploads : Taken(u) =>
    \A i \in DOMAIN Content[u] :
      \/ Content[u][i] \in received
      \/ u \in json \cup tmp /\ dat[u] = Content[u]

(* What arrives at the endpoint was posted to the stager and verified      *)
(* there: no part of a POST that failed or was cut short gets past it      *)
(* unverified.                                                             *)
OnlyVerifiedReplayed ==
  \A f \in received : Verified(f)
    /\ \E u \in Uploads : \E i \in 1 .. taken[u] : Content[u][i] = f

(* Every POST the stager took and renamed is replayed in the end, however  *)
(* often the unstager fails, gives up and is started again, unless it hangs*)
(* at the empty .dat of a client that went away or goes down over and over *)
(* for one that is refused or for a .json that has lost its .dat.          *)
Hopeless(u) == u \in Unwanted \/ (u \in left /\ dat[u] = NoFile)

EverythingReplayed ==
  []<>(step # "hung") /\ <>[](step = "retry" => ~Hopeless(cur)) =>
    \A u \in Uploads : Taken(u) /\ u \notin tmp ~>
      \A i \in DOMAIN Content[u] : Content[u][i] \in received
=============================================================================
