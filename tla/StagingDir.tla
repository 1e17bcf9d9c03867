------------------------------ MODULE StagingDir ------------------------------
(***************************************************************************)
(* The directory ff-stager writes and ff-unstager reads.  Every POST the   *)
(* stager takes has a UUID of its own and up to two files: the FlowFiles   *)
(* in .dat, their attributes in .inprogress until all of them are there    *)
(* and in .json from then on.                                              *)
(***************************************************************************)
EXTENDS Sequences, Integers, FiniteSets

CONSTANTS
  Uploads,    \* POSTs to the stager
  FlowFiles,
  Content,    \* Content[u]: the FlowFiles of POST u, in order
  Sum,        \* Sum[f]: "good", "bad" or "missing" checksum attributes
  Empty,      \* the FlowFiles without a payload
  DiskMayFail,   \* whether a file operation may fail
  NoFile      \* a .dat that does not exist

ASSUME ContentAssumption ==
  /\ Content \in [Uploads -> Seq(FlowFiles)]
  /\ Sum \in [FlowFiles -> {"good", "bad", "missing"}]
  /\ Empty \subseteq FlowFiles
  /\ DiskMayFail \in BOOLEAN
  /\ NoFile \notin Seq(FlowFiles)

VARIABLES
  dat,   \* dat[u]: the FlowFiles in the .dat of u, or NoFile
  tmp,   \* the POSTs that have an .inprogress
  json   \* the POSTs that have a .json

dirvars == <<dat, tmp, json>>

DirTypeOK ==
  /\ dat \in [Uploads -> Seq(FlowFiles) \cup {NoFile}]
  /\ tmp \subseteq Uploads
  /\ json \subseteq Uploads

DirInit ==
  /\ dat = [u \in Uploads |-> NoFile]
  /\ tmp = {}
  /\ json = {}

(* File.Verify finds no fault. *)
Verified(f) == f \in Empty \/ Sum[f] = "good"

(* Reading the payload keeps a running checksum. *)
HasSum(f) == f \notin Empty /\ Sum[f] # "missing"
=============================================================================
