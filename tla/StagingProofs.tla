----------------------------- MODULE StagingProofs -----------------------------
(***************************************************************************)
(* The staging directory is safe for every set of POSTs and FlowFiles,     *)
(* every number of retries and every number of crashes and lost answers.   *)
(***************************************************************************)
EXTENDS Staging, TLAPS

-----------------------------------------------------------------------------
(* Prefixes of sequences. *)
LEMMA PrefixGrows ==
  ASSUME NEW S, NEW s \in Seq(S), NEW n \in Nat, n < Len(s)
  PROVE  Append(SubSeq(s, 1, n), s[n + 1]) = SubSeq(s, 1, n + 1)
  OBVIOUS

LEMMA PrefixOfNone ==
  ASSUME NEW S, NEW s \in Seq(S)
  PROVE  SubSeq(s, 1, 0) = << >>
  OBVIOUS

LEMMA PrefixOfAll ==
  ASSUME NEW S, NEW s \in Seq(S)
  PROVE  SubSeq(s, 1, Len(s)) = s
  OBVIOUS

LEMMA PrefixElements ==
  ASSUME NEW S, NEW s \in Seq(S), NEW n \in Nat, n <= Len(s)
  PROVE  /\ SubSeq(s, 1, n) \in Seq(S)
         /\ DOMAIN SubSeq(s, 1, n) = 1 .. n
         /\ \A i \in 1 .. n : SubSeq(s, 1, n)[i] = s[i]
  OBVIOUS

-----------------------------------------------------------------------------
(* Types. *)
LEMMA FileTyped ==
  ASSUME TypeOK, NEW u \in Uploads, AtFile(u)
  PROVE  /\ Content[u] \in Seq(FlowFiles)
         /\ taken[u] \in Nat /\ taken[u] + 1 \in DOMAIN Content[u]
         /\ File(u) \in FlowFiles
  BY ContentAssumption DEF TypeOK, StagerTypeOK, AtFile, File

LEMMA StagerPostTyped ==
  ASSUME TypeOK, NEW u \in Uploads, StagerPost(u),
         pc[u] = "open" => dat[u] \in Seq(FlowFiles)
  PROVE  DirTypeOK' /\ StagerTypeOK'
  <1> USE DEF TypeOK, DirTypeOK, StagerTypeOK
  <1>1. CASE Open(u)
    BY <1>1 DEF Open
  <1>2. CASE OpenFails(u)
    <2>1. << >> \in Seq(FlowFiles)
      OBVIOUS
    <2>2. dat' \in [Uploads -> Seq(FlowFiles) \cup {NoFile}]
      BY <1>2, <2>1 DEF OpenFails
    <2> QED
      BY <1>2, <2>2 DEF OpenFails, End
  <1>3. CASE Stage(u)
    <2>1. pc[u] = "open"
      BY <1>3 DEF Stage, AtFile
    <2>2. DatWith(u) \in Seq(FlowFiles)
      BY <2>1, <1>3, FileTyped DEF Stage, DatWith
    <2>3. taken[u] + 1 <= Len(Content[u])
      BY <1>3, ContentAssumption DEF Stage, AtFile
    <2> QED
      BY <1>3, <2>2, <2>3 DEF Stage
  <1>4. CASE Refuse(u)
    <2>1. pc[u] = "open"
      BY <1>4 DEF Refuse, AtFile
    <2>2. DatWith(u) \in Seq(FlowFiles)
      BY <2>1, <1>4, FileTyped DEF Refuse, DatWith
    <2> QED
      BY <1>4, <2>2 DEF Refuse, End
  <1>5. CASE WriteFails(u)
    BY <1>5 DEF WriteFails, End, dirvars
  <1>6. CASE BreakOff(u)
    BY <1>6 DEF BreakOff, End, dirvars
  <1>7. CASE Publish(u)
    BY <1>7 DEF Publish, End
  <1> QED
    BY <1>1, <1>2, <1>3, <1>4, <1>5, <1>6, <1>7 DEF StagerPost

LEMMA UnstagerStepTyped ==
  ASSUME TypeOK, Work \/ UnstagerCrash \/ Restart,
         step \in {"send", "clean"} => cur \in json,
         queue \subseteq json
  PROVE  DirTypeOK' /\ UnstagerTypeOK'
  <1> USE UnstagerAssumption DEF TypeOK, DirTypeOK, UnstagerTypeOK
  <1>1. CASE List
    BY <1>1 DEF List, dirvars
  <1>2. CASE Pick
    BY <1>2 DEF Pick, dirvars
  <1>3. CASE Rest \/ GiveUp
    BY <1>3 DEF Rest, GiveUp, dirvars
  <1>4. CASE OpenDatFails
    BY <1>4 DEF OpenDatFails, Fault, dirvars
  <1>5. CASE Hang
    BY <1>5 DEF Hang, dirvars
  <1>6. ASSUME Sendable, NEW n \in Nat, TakeIn(n)
        PROVE  received' \subseteq FlowFiles
    <2>1. dat[cur] \in Seq(FlowFiles)
      BY <1>6 DEF Sendable
    <2>2. \A i \in Scanned(dat[cur]) : dat[cur][i] \in FlowFiles
      BY <2>1 DEF Scanned
    <2> QED
      BY <1>6, <2>2 DEF TakeIn
  <1>7. Sendable => Len(dat[cur]) \in Nat
    BY DEF Sendable
  <1>8. CASE Accepted
    BY <1>8, <1>6, <1>7 DEF Accepted, Sendable, dirvars
  <1>9. CASE Refused
    <2>1. PICK n \in 0 .. Len(dat[cur]) : TakeIn(n)
      BY <1>9 DEF Refused
    <2> QED
      BY <1>9, <2>1, <1>6, <1>7 DEF Refused, Sendable, dirvars
  <1>10. CASE NoAnswer
    <2>1. PICK n \in 0 .. Len(dat[cur]) : TakeIn(n)
      BY <1>10 DEF NoAnswer
    <2> QED
      BY <1>10, <2>1, <1>6, <1>7 DEF NoAnswer, Fault, Sendable, dirvars
  <1>11. CASE Retry
    BY <1>11 DEF Retry, Fault, dirvars
  <1>12. CASE RemoveJson
    BY <1>12 DEF RemoveJson
  <1>13. CASE RemoveDat
    BY <1>13 DEF RemoveDat
  <1>14. CASE UnstagerCrash
    BY <1>14 DEF UnstagerCrash, Fault, dirvars
  <1>15. CASE Restart
    BY <1>15 DEF Restart, dirvars
  <1> QED
    BY <1>1, <1>2, <1>3, <1>4, <1>5, <1>8, <1>9, <1>10, <1>11, <1>12, <1>13,
       <1>14, <1>15 DEF Work

-----------------------------------------------------------------------------
(* What holds of the two programs between their steps.                     *)
Prefix(u) == SubSeq(Content[u], 1, taken[u])

(* Its .json could not be removed, its .dat could.                         *)
Bereft(u) == u \in left /\ dat[u] = NoFile

StagedInv(u) ==
  /\ pc[u] = "idle" => taken[u] = 0
  /\ pc[u] # "ended" => u \notin json /\ reply[u] = "none"
  /\ pc[u] = "idle" => u \notin tmp
  /\ pc[u] = "open" => u \in tmp /\ dat[u] = Prefix(u)
  /\ reply[u] = "ok" => taken[u] = Len(Content[u])
  /\ reply[u] = "ok" /\ u \in tmp => dat[u] = Prefix(u)
  /\ \A i \in 1 .. taken[u] : Verified(Content[u][i])
  /\ u \in json => u \notin tmp /\ (dat[u] = Prefix(u) \/ Bereft(u))

StagerInv == \A u \in Uploads : StagedInv(u)

UnstagerInv ==
  /\ queue \subseteq json
  /\ step \notin {"list", "pick", "down"} => cur \notin queue
  /\ cur # NoUpload => cur \in Uploads /\ pc[cur] = "ended" /\ cur \notin tmp
  /\ step \in {"send", "retry", "clean", "hung"} => cur \in json
  /\ step = "cleaned" => cur \notin json \/ cur \in left

IInv == TypeOK /\ StagerInv /\ UnstagerInv /\ OnlyVerifiedReplayed

(* A POST is a sequence, and what is staged of it a prefix. *)
LEMMA PrefixTyped ==
  ASSUME TypeOK, NEW u \in Uploads
  PROVE  /\ Content[u] \in Seq(FlowFiles)
         /\ taken[u] \in Nat /\ taken[u] <= Len(Content[u])
         /\ Prefix(u) \in Seq(FlowFiles)
         /\ Prefix(u) # NoFile
         /\ DOMAIN Prefix(u) = 1 .. taken[u]
         /\ \A i \in 1 .. taken[u] : Prefix(u)[i] = Content[u][i]
  <1>1. Content[u] \in Seq(FlowFiles)
    BY ContentAssumption
  <1>2. taken[u] \in Nat /\ taken[u] <= Len(Content[u])
    BY DEF TypeOK, StagerTypeOK
  <1>3. /\ Prefix(u) \in Seq(FlowFiles)
        /\ DOMAIN Prefix(u) = 1 .. taken[u]
        /\ \A i \in 1 .. taken[u] : Prefix(u)[i] = Content[u][i]
    BY <1>1, <1>2, PrefixElements DEF Prefix
  <1> QED
    BY <1>1, <1>2, <1>3, ContentAssumption

(* A POST touches its own files and nobody else's. *)
LEMMA StagerPostLocal ==
  ASSUME TypeOK, NEW v \in Uploads, StagerPost(v), NEW u \in Uploads, u # v
  PROVE  /\ pc'[u] = pc[u] /\ taken'[u] = taken[u] /\ reply'[u] = reply[u]
         /\ dat'[u] = dat[u] /\ (u \in json' <=> u \in json)
         /\ (u \in tmp' <=> u \in tmp)
  <1> USE DEF TypeOK, DirTypeOK, StagerTypeOK
  <1>1. CASE Open(v)
    BY <1>1 DEF Open
  <1>2. CASE OpenFails(v)
    BY <1>2 DEF OpenFails, End
  <1>3. CASE Stage(v)
    BY <1>3 DEF Stage
  <1>4. CASE Refuse(v)
    BY <1>4 DEF Refuse, End
  <1>5. CASE WriteFails(v)
    BY <1>5 DEF WriteFails, End, dirvars
  <1>6. CASE BreakOff(v)
    BY <1>6 DEF BreakOff, End, dirvars
  <1>7. CASE Publish(v)
    BY <1>7 DEF Publish, End
  <1> QED
    BY <1>1, <1>2, <1>3, <1>4, <1>5, <1>6, <1>7 DEF StagerPost

(* A POST that may step has not ended, and takes nothing off the .json     *)
(* files nor off the FlowFiles staged.                                     *)
LEMMA StagerPostGrows ==
  ASSUME TypeOK, NEW v \in Uploads, StagerPost(v)
  PROVE  /\ pc[v] # "ended"
         /\ json \subseteq json'
         /\ taken'[v] \in Nat /\ taken[v] <= taken'[v]
  <1> USE DEF TypeOK, DirTypeOK, StagerTypeOK
  <1>1. CASE Open(v)
    BY <1>1 DEF Open
  <1>2. CASE OpenFails(v)
    BY <1>2 DEF OpenFails, End
  <1>3. CASE Stage(v)
    BY <1>3 DEF Stage, AtFile
  <1>4. CASE Refuse(v)
    BY <1>4 DEF Refuse, End, AtFile
  <1>5. CASE WriteFails(v)
    BY <1>5 DEF WriteFails, End, dirvars
  <1>6. CASE BreakOff(v)
    BY <1>6 DEF BreakOff, End, dirvars, AtFile
  <1>7. CASE Publish(v)
    BY <1>7 DEF Publish, End
  <1> QED
    BY <1>1, <1>2, <1>3, <1>4, <1>5, <1>6, <1>7 DEF StagerPost

(* What a step of its POST leaves of the invariant of a POST. *)
LEMMA StagerPostStaged ==
  ASSUME TypeOK, NEW u \in Uploads, StagerPost(u), StagedInv(u)
  PROVE  StagedInv(u)'
  <1> USE DEF TypeOK, DirTypeOK, StagerTypeOK
  <1>0. Content[u] \in Seq(FlowFiles) /\ taken[u] \in Nat
    BY PrefixTyped
  <1>1. CASE Open(u)
    <2>1. pc'[u] = "open" /\ dat'[u] = << >> /\ taken'[u] = taken[u]
          /\ reply'[u] = reply[u] /\ json' = json /\ pc[u] = "idle"
          /\ u \in tmp'
      BY <1>1 DEF Open
    <2>2. taken[u] = 0 /\ u \notin json /\ reply[u] = "none"
      BY <2>1 DEF StagedInv
    <2>3. Prefix(u)' = << >>
      BY <2>1, <2>2, <1>0, PrefixOfNone DEF Prefix
    <2> QED
      BY <2>1, <2>2, <2>3 DEF StagedInv
  <1>2. CASE OpenFails(u)
    <2>1. pc'[u] = "ended" /\ reply'[u] = "error" /\ taken'[u] = taken[u]
          /\ json' = json /\ pc[u] = "idle"
      BY <1>2 DEF OpenFails, End
    <2> QED
      BY <2>1 DEF StagedInv
  <1>3. CASE Stage(u)
    <2>1. /\ pc'[u] = "open" /\ pc[u] = "open" /\ reply'[u] = reply[u]
          /\ json' = json /\ tmp' = tmp /\ taken'[u] = taken[u] + 1
          /\ dat'[u] = Append(dat[u], Content[u][taken[u] + 1])
          /\ taken[u] < Len(Content[u])
          /\ Verified(Content[u][taken[u] + 1])
      BY <1>3 DEF Stage, AtFile, File, DatWith
    <2>2. dat[u] = Prefix(u) /\ u \notin json /\ reply[u] = "none"
      BY <2>1 DEF StagedInv
    <2>3. dat'[u] = Prefix(u)'
      <3>1. Append(SubSeq(Content[u], 1, taken[u]), Content[u][taken[u] + 1])
              = SubSeq(Content[u], 1, taken[u] + 1)
        BY <2>1, <1>0, PrefixGrows
      <3> QED BY <2>1, <2>2, <3>1, Zenon DEF Prefix
    <2>4. \A i \in 1 .. taken'[u] : Verified(Content[u][i])
      <3> TAKE i \in 1 .. taken'[u]
      <3>1. i \in 1 .. taken[u] \/ i = taken[u] + 1
        BY <2>1, <1>0
      <3> QED
        BY <3>1, <2>1 DEF StagedInv
    <2> QED
      BY <2>1, <2>2, <2>3, <2>4 DEF StagedInv, Verified
  <1>4. CASE Refuse(u)
    <2>1. pc'[u] = "ended" /\ reply'[u] = "error" /\ taken'[u] = taken[u]
          /\ json' = json /\ pc[u] # "ended"
      BY <1>4 DEF Refuse, End, AtFile
    <2> QED
      BY <2>1 DEF StagedInv
  <1>5. CASE WriteFails(u)
    <2>1. pc'[u] = "ended" /\ reply'[u] = "error" /\ taken'[u] = taken[u]
          /\ json' = json /\ pc[u] # "ended"
      BY <1>5 DEF WriteFails, End, dirvars
    <2> QED
      BY <2>1 DEF StagedInv
  <1>6. CASE BreakOff(u)
    <2>1. /\ \/ pc'[u] = "stuck" /\ reply'[u] = reply[u]
             \/ pc'[u] = "ended" /\ reply'[u] = "error"
          /\ taken'[u] = taken[u] /\ json' = json /\ pc[u] = "open"
      BY <1>6 DEF BreakOff, End, dirvars, AtFile
    <2> QED
      BY <2>1 DEF StagedInv
  <1>7. CASE Publish(u)
    <2>1. /\ pc'[u] = "ended" /\ dat'[u] = dat[u] /\ taken'[u] = taken[u]
          /\ pc[u] = "open"
          /\ reply'[u] = "ok" => taken[u] = Len(Content[u])
          /\ u \in json' => u \in json \/ u \notin tmp'
      BY <1>7 DEF Publish, End
    <2>2. dat'[u] = Prefix(u)'
      BY <2>1 DEF StagedInv, Prefix
    <2> QED
      BY <2>1, <2>2 DEF StagedInv
  <1> QED
    BY <1>1, <1>2, <1>3, <1>4, <1>5, <1>6, <1>7 DEF StagerPost

-----------------------------------------------------------------------------
(* The invariant is kept by the stager...                                  *)
LEMMA StagerPostKeeps ==
  ASSUME IInv, NEW v \in Uploads, StagerPost(v), UNCHANGED uvars
  PROVE  IInv'
  <1> USE DEF IInv
  <1>1. TypeOK'
    <2>1. pc[v] = "open" => dat[v] \in Seq(FlowFiles)
      BY PrefixTyped DEF StagerInv, StagedInv
    <2>2. UnstagerTypeOK'
      BY DEF TypeOK, UnstagerTypeOK, uvars
    <2> QED
      BY <2>1, <2>2, StagerPostTyped DEF TypeOK
  <1>2. StagerInv'
    <2> SUFFICES ASSUME NEW u \in Uploads
                 PROVE  StagedInv(u)'
      BY DEF StagerInv
    <2>1. CASE u = v
      BY <2>1, StagerPostStaged DEF StagerInv
    <2>2. CASE u # v
      <3>1. /\ pc'[u] = pc[u] /\ taken'[u] = taken[u] /\ reply'[u] = reply[u]
            /\ dat'[u] = dat[u] /\ (u \in json' <=> u \in json)
            /\ (u \in tmp' <=> u \in tmp) /\ left' = left
        BY <2>2, StagerPostLocal DEF uvars
      <3>2. StagedInv(u)
        BY DEF StagerInv
      <3> QED
        BY <3>1, <3>2 DEF StagedInv, Bereft, Prefix, Verified
    <2> QED
      BY <2>1, <2>2
  <1>3. UnstagerInv'
    <2>1. pc[v] # "ended" /\ json \subseteq json'
      BY StagerPostGrows
    <2>2. cur # NoUpload => cur \in Uploads /\ cur # v /\ pc'[cur] = "ended"
                            /\ (cur \in json' <=> cur \in json)
                            /\ cur \notin tmp'
      BY <2>1, StagerPostLocal DEF UnstagerInv
    <2>3. cur = NoUpload => cur \notin json'
      BY <1>1, UnstagerAssumption DEF TypeOK, DirTypeOK
    <2>4. queue' = queue /\ cur' = cur /\ step' = step /\ left' = left
      BY DEF uvars
    <2> QED
      BY <2>1, <2>2, <2>3, <2>4 DEF UnstagerInv
  <1>4. OnlyVerifiedReplayed'
    <2> SUFFICES ASSUME NEW f \in received
                 PROVE  /\ Verified(f)
                        /\ \E u \in Uploads :
                             \E i \in 1 .. taken'[u] : Content[u][i] = f
      BY DEF OnlyVerifiedReplayed, uvars, Verified
    <2>1. PICK u \in Uploads : \E i \in 1 .. taken[u] : Content[u][i] = f
      BY DEF OnlyVerifiedReplayed
    <2>2. taken[u] \in Nat /\ taken'[u] \in Nat /\ taken[u] <= taken'[u]
      <3>1. taken[u] \in Nat
        BY DEF TypeOK, StagerTypeOK
      <3>2. CASE u = v
        BY <3>1, <3>2, StagerPostGrows
      <3>3. CASE u # v
        BY <3>1, <3>3, StagerPostLocal
      <3> QED
        BY <3>2, <3>3
    <2>3. \E i \in 1 .. taken'[u] : Content[u][i] = f
      BY <2>1, <2>2
    <2> QED
      BY <2>3 DEF OnlyVerifiedReplayed
  <1> QED
    BY <1>1, <1>2, <1>3, <1>4

LEMMA StagerCrashKeeps ==
  ASSUME IInv, StagerCrash, UNCHANGED uvars
  PROVE  IInv'
  <1> USE DEF IInv
  <1>1. /\ UNCHANGED <<dat, tmp, json, taken, reply>>
        /\ pc' \in [Uploads -> {"idle", "open", "stuck", "ended"}]
        /\ \A u \in Uploads : pc'[u] = pc[u] \/ pc'[u] = "ended"
    BY DEF StagerCrash, dirvars, TypeOK, StagerTypeOK
  <1>2. TypeOK'
    BY <1>1 DEF TypeOK, DirTypeOK, StagerTypeOK, UnstagerTypeOK, uvars
  <1>3. StagerInv'
    BY <1>1 DEF StagerInv, StagedInv, Bereft, Prefix, Verified, uvars
  <1>4. UnstagerInv'
    BY <1>1 DEF UnstagerInv, uvars
  <1>5. OnlyVerifiedReplayed'
    BY <1>1 DEF OnlyVerifiedReplayed, uvars, Verified
  <1> QED
    BY <1>2, <1>3, <1>4, <1>5

(* ... and by the unstager, which replays what is in a .dat, a prefix of   *)
(* a verified POST.                                                        *)
LEMMA TakenInWasStaged ==
  ASSUME IInv, Sendable, NEW n \in Nat, TakeIn(n)
  PROVE  \A f \in received' :
           Verified(f) /\ \E u \in Uploads :
                           \E i \in 1 .. taken[u] : Content[u][i] = f
  <1>1. cur \in Uploads /\ cur \in json
    BY DEF IInv, UnstagerInv, Sendable, TypeOK, DirTypeOK
  <1>2. dat[cur] = Prefix(cur)
    BY <1>1 DEF IInv, StagerInv, StagedInv, Bereft, Sendable
  <1>3. \A i \in DOMAIN dat[cur] :
          i \in 1 .. taken[cur] /\ dat[cur][i] = Content[cur][i]
    BY <1>1, <1>2, PrefixTyped DEF IInv
  <1>4. \A i \in 1 .. taken[cur] : Verified(Content[cur][i])
    BY <1>1 DEF IInv, StagerInv, StagedInv
  <1> TAKE f \in received'
  <1>5. CASE f \in received
    BY <1>5 DEF IInv, OnlyVerifiedReplayed
  <1>6. CASE f \notin received
    <2>1. PICK i \in DOMAIN dat[cur] : f = dat[cur][i]
      BY <1>6 DEF TakeIn, Scanned
    <2> QED
      BY <2>1, <1>1, <1>3, <1>4
  <1> QED
    BY <1>5, <1>6

LEMMA UnstagerStepKeeps ==
  ASSUME IInv, Work \/ UnstagerCrash \/ Restart, UNCHANGED svars
  PROVE  IInv'
  <1> USE DEF IInv
  <1>1. TypeOK'
    <2>1. StagerTypeOK'
      BY DEF TypeOK, StagerTypeOK, svars
    <2>2. (step \in {"send", "clean"} => cur \in json) /\ queue \subseteq json
      BY DEF UnstagerInv
    <2> QED
      BY <2>1, <2>2, UnstagerStepTyped DEF TypeOK
  <1>2. cur # NoUpload => pc[cur] = "ended" /\ cur \in Uploads
    BY DEF UnstagerInv
  <1>3. /\ tmp' = tmp /\ json' \subseteq json /\ left \subseteq left'
        /\ \A u \in Uploads : dat'[u] # dat[u] =>
             u = cur /\ dat'[u] = NoFile /\ (u \notin json \/ u \in left)
    <2> USE DEF TypeOK, DirTypeOK, UnstagerTypeOK
    <2>1. CASE RemoveJson
      BY <2>1 DEF RemoveJson
    <2>2. CASE RemoveDat
      BY <2>2 DEF RemoveDat, UnstagerInv
    <2>3. CASE UNCHANGED <<dirvars, left>>
      BY <2>3 DEF dirvars
    <2> QED
      BY <2>1, <2>2, <2>3 DEF Work, List, Pick, Rest, OpenDatFails, Hang,
         Accepted, Refused, NoAnswer, Retry, GiveUp, UnstagerCrash, Restart
  <1>4. StagerInv'
    <2> SUFFICES ASSUME NEW u \in Uploads
                 PROVE  StagedInv(u)'
      BY DEF StagerInv
    <2>1. StagedInv(u) /\ pc' = pc /\ taken' = taken /\ reply' = reply
      BY DEF StagerInv, svars
    <2>2. pc[u] = "open" \/ u \in tmp => dat'[u] = dat[u]
      BY <1>2, <1>3, UnstagerAssumption DEF UnstagerInv
    <2>3. u \in json' /\ dat[u] = Prefix(u) => dat'[u] = Prefix(u) \/ Bereft(u)'
      BY <1>3 DEF Bereft
    <2>4. Bereft(u) => Bereft(u)'
      BY <1>3 DEF Bereft
    <2>5. Prefix(u)' = Prefix(u)
      BY <2>1 DEF Prefix
    <2> QED
      BY <1>3, <2>1, <2>2, <2>3, <2>4, <2>5 DEF StagedInv, Verified
  <1>5. UnstagerInv'
    <2> USE UnstagerAssumption DEF UnstagerInv, TypeOK, DirTypeOK, StagerTypeOK,
                                   UnstagerTypeOK
    <2>0. pc' = pc
      BY DEF svars
    <2>1. CASE List
      BY <2>0, <2>1 DEF List, dirvars
    <2>2. CASE Pick
      <3>1. PICK u \in queue : queue' = queue \ {u} /\ cur' = u
        BY <2>2 DEF Pick
      <3>2. u \in json /\ u \in Uploads
        BY <3>1
      <3>3. pc[u] = "ended" /\ u \notin tmp
        BY <3>2 DEF StagerInv, StagedInv
      <3> QED
        BY <2>0, <2>2, <3>1, <3>2, <3>3 DEF Pick, dirvars
    <2>3. CASE Rest
      BY <2>0, <2>3 DEF Rest, dirvars
    <2>4. CASE OpenDatFails
      BY <2>0, <2>4 DEF OpenDatFails, dirvars
    <2>5. CASE Hang
      BY <2>0, <2>5 DEF Hang, dirvars
    <2>6. CASE Accepted
      BY <2>0, <2>6 DEF Accepted, Sendable, dirvars
    <2>7. CASE Refused
      BY <2>0, <2>7 DEF Refused, Sendable, dirvars
    <2>8. CASE NoAnswer
      BY <2>0, <2>8 DEF NoAnswer, Sendable, dirvars
    <2>9. CASE Retry
      BY <2>0, <2>9 DEF Retry, dirvars
    <2>10. CASE GiveUp
      BY <2>0, <2>10 DEF GiveUp, dirvars
    <2>11. CASE RemoveJson
      BY <2>0, <2>11 DEF RemoveJson
    <2>12. CASE RemoveDat
      BY <2>0, <2>12 DEF RemoveDat
    <2>13. CASE UnstagerCrash
      BY <2>0, <2>13 DEF UnstagerCrash, dirvars
    <2>14. CASE Restart
      BY <2>0, <2>14 DEF Restart, dirvars
    <2> QED
      BY <2>1, <2>2, <2>3, <2>4, <2>5, <2>6, <2>7, <2>8, <2>9, <2>10, <2>11,
         <2>12, <2>13, <2>14 DEF Work
  <1>6. OnlyVerifiedReplayed'
    <2>1. \A f \in received' :
            Verified(f) /\ \E u \in Uploads :
                            \E i \in 1 .. taken[u] : Content[u][i] = f
      <3>1. CASE received' = received
        BY <3>1 DEF OnlyVerifiedReplayed
      <3>2. CASE Accepted \/ Refused \/ NoAnswer
        <4>1. Sendable /\ Len(dat[cur]) \in Nat
          BY <3>2 DEF Accepted, Refused, NoAnswer, Sendable, TypeOK, DirTypeOK,
                      UnstagerTypeOK
        <4>2. PICK n \in Nat : TakeIn(n)
          BY <3>2, <4>1 DEF Accepted, Refused, NoAnswer
        <4> QED
          BY <4>1, <4>2, TakenInWasStaged
      <3> QED
        BY <3>1, <3>2 DEF Work, List, Pick, Rest, OpenDatFails, Hang, Retry,
           GiveUp, RemoveJson, RemoveDat, UnstagerCrash, Restart
    <2> QED
      BY <2>1 DEF OnlyVerifiedReplayed, svars, Verified
  <1> QED
    BY <1>1, <1>4, <1>5, <1>6

-----------------------------------------------------------------------------
(* Safety of the directory. *)
LEMMA InitEstablishes ==
  ASSUME Init
  PROVE  IInv
  <1> USE DEF Init, DirInit, StagerInit, UnstagerInit
  <1>1. TypeOK
    <2>1. taken \in [Uploads -> Nat] /\ \A u \in Uploads : taken[u] <= Len(Content[u])
      BY ContentAssumption
    <2> QED
      BY <2>1, UnstagerAssumption DEF TypeOK, DirTypeOK, StagerTypeOK, UnstagerTypeOK
  <1>2. StagerInv
    BY DEF StagerInv, StagedInv
  <1>3. UnstagerInv
    BY UnstagerAssumption DEF UnstagerInv
  <1>4. OnlyVerifiedReplayed
    BY DEF OnlyVerifiedReplayed
  <1> QED
    BY <1>1, <1>2, <1>3, <1>4 DEF IInv

LEMMA NextKeeps ==
  ASSUME IInv, [Next]_vars
  PROVE  IInv'
  <1>1. CASE \E u \in Uploads : StagerPost(u) /\ UNCHANGED uvars
    BY <1>1, StagerPostKeeps
  <1>2. CASE StagerCrash /\ UNCHANGED uvars
    BY <1>2, StagerCrashKeeps
  <1>3. CASE (Work \/ UnstagerCrash \/ Restart) /\ UNCHANGED svars
    BY <1>3, UnstagerStepKeeps
  <1>4. CASE UNCHANGED vars
    BY <1>4 DEF vars, dirvars, svars, uvars, IInv, TypeOK, DirTypeOK, StagerTypeOK,
       UnstagerTypeOK, StagerInv, StagedInv, Bereft, Prefix, UnstagerInv,
       OnlyVerifiedReplayed, Verified
  <1> QED
    BY <1>1, <1>2, <1>3, <1>4 DEF Next

LEMMA InvariantHolds == Spec => []IInv
  <1>1. Init => IInv
    BY InitEstablishes
  <1>2. IInv /\ [Next]_vars => IInv'
    BY NextKeeps
  <1> QED
    BY <1>1, <1>2, PTL DEF Spec

(* Both programs keep the types of their state and of the directory. *)
THEOREM StagingTypeCorrect == Spec => []TypeOK
  <1>1. IInv => TypeOK
    BY DEF IInv
  <1> QED
    BY <1>1, InvariantHolds, PTL

(* Nothing reaches the endpoint that the stager did not verify. *)
THEOREM ReplayedIsVerified == Spec => []OnlyVerifiedReplayed
  <1>1. IInv => OnlyVerifiedReplayed
    BY DEF IInv
  <1> QED
    BY <1>1, InvariantHolds, PTL

-----------------------------------------------------------------------------
(* What the unstager removes is at the endpoint, and so is what it has     *)
(* removed while it could not remove the .json.                            *)
CleanInv ==
  /\ step \in {"clean", "cleaned"} => Replayed(cur)
  /\ \A u \in json : dat[u] = NoFile => Replayed(u)

LEMMA ReplayedStays ==
  ASSUME NEW u, Replayed(u), received \subseteq received', taken'[u] = taken[u]
  PROVE  Replayed(u)'
  BY DEF Replayed, Replayable, Scanned

(* Once a file was accepted, all of it is at the endpoint. *)
LEMMA AcceptedWhole ==
  ASSUME Replayable(cur), IInv, Accepted, UNCHANGED svars
  PROVE  Replayed(cur)'
  <1>1. cur \in Uploads /\ cur \in json
    BY DEF IInv, UnstagerInv, Accepted, Sendable, TypeOK, DirTypeOK
  <1>2. dat[cur] = Prefix(cur)
    BY <1>1 DEF IInv, StagerInv, StagedInv, Bereft, Accepted, Sendable
  <1>3. /\ dat[cur] \in Seq(FlowFiles)
        /\ DOMAIN dat[cur] = 1 .. taken[cur]
        /\ DOMAIN dat[cur] \subseteq DOMAIN Content[cur]
        /\ \A i \in DOMAIN dat[cur] : dat[cur][i] = Content[cur][i]
    <2>1. /\ Content[cur] \in Seq(FlowFiles)
          /\ taken[cur] \in Nat /\ taken[cur] <= Len(Content[cur])
          /\ Prefix(cur) \in Seq(FlowFiles)
          /\ DOMAIN Prefix(cur) = 1 .. taken[cur]
          /\ \A i \in 1 .. taken[cur] : Prefix(cur)[i] = Content[cur][i]
      BY <1>1, PrefixTyped DEF IInv
    <2>2. 1 .. taken[cur] \subseteq DOMAIN Content[cur]
      BY <2>1
    <2> QED
      BY <1>2, <2>1, <2>2
  <1>4. \A i \in DOMAIN dat[cur] : i \in Scanned(dat[cur])
    <2> SUFFICES ASSUME NEW i \in DOMAIN dat[cur], NEW j \in 1 .. i - 1
                 PROVE  dat[cur][j] \in Empty
      BY DEF Scanned
    <2>1. j \in DOMAIN dat[cur]
      BY <1>3, <1>1 DEF IInv, TypeOK, StagerTypeOK
    <2>2. i \in Scanned(Content[cur])
      BY <1>1, <1>3 DEF Replayable
    <2>3. Content[cur][j] \in Empty
      BY <2>2 DEF Scanned
    <2> QED
      BY <1>3, <2>1, <2>3
  <1>5. DOMAIN dat[cur] \subseteq 1 .. Len(dat[cur])
    <2>1. \A s \in Seq(FlowFiles) : DOMAIN s = 1 .. Len(s)
      OBVIOUS
    <2> QED
      BY <1>3, <2>1
  <1>6. received' = received \cup
          {dat[cur][i] : i \in Scanned(dat[cur]) \cap 1 .. Len(dat[cur])}
    BY DEF Accepted, TakeIn
  <1>7. cur' = cur /\ taken' = taken
    BY DEF Accepted, svars
  <1>8. \A i \in 1 .. taken[cur] : Content[cur][i] \in received'
    BY <1>3, <1>4, <1>5, <1>6
  <1> QED
    BY <1>7, <1>8 DEF Replayed

LEMMA StagerKeepsClean ==
  ASSUME IInv, CleanInv, NEW v \in Uploads, StagerPost(v), UNCHANGED uvars
  PROVE  CleanInv'
  <1>1. pc[v] # "ended" /\ received' = received
    BY StagerPostGrows DEF IInv, uvars
  <1>2. ASSUME step' \in {"clean", "cleaned"}
        PROVE  Replayed(cur)'
    <2>1. step = step' /\ cur' = cur
      BY DEF uvars
    <2>2. cur \in Uploads /\ pc[cur] = "ended"
      BY <1>2, <2>1 DEF IInv, UnstagerInv, TypeOK, UnstagerTypeOK
    <2>3. taken'[cur] = taken[cur]
      BY <1>1, <2>2, StagerPostLocal DEF IInv
    <2>4. Replayed(cur)
      BY <1>2, <2>1 DEF CleanInv
    <2> QED
      BY <1>1, <2>1, <2>3, <2>4 DEF Replayed, Replayable, Scanned
  <1>3. ASSUME NEW u \in json', dat'[u] = NoFile
        PROVE  Replayed(u)'
    <2>1. u \in Uploads
      <3>1. IInv'
        BY StagerPostKeeps
      <3> QED
        BY <1>3, <3>1 DEF IInv, TypeOK, DirTypeOK
    <2>2. u # v
      <3>1. SUFFICES ASSUME u = v
                     PROVE  FALSE
        OBVIOUS
      <3>2. v \notin json
        BY <1>1 DEF IInv, StagerInv, StagedInv
      <3>3. Publish(v)
        BY <1>3, <3>1, <3>2 DEF StagerPost, Open, OpenFails, Stage, Refuse,
           WriteFails, BreakOff, dirvars
      <3>4. dat'[v] = Prefix(v)
        BY <3>3 DEF Publish, IInv, StagerInv, StagedInv
      <3> QED
        BY <1>3, <3>1, <3>4, PrefixTyped DEF IInv
    <2>3. taken'[u] = taken[u] /\ dat'[u] = dat[u] /\ u \in json
      BY <2>1, <2>2, <1>3, StagerPostLocal DEF IInv
    <2>4. Replayed(u)
      BY <1>3, <2>3 DEF CleanInv
    <2> QED
      BY <1>1, <2>3, <2>4, ReplayedStays
  <1> QED
    BY <1>2, <1>3 DEF CleanInv

LEMMA UnstagerKeepsClean ==
  ASSUME IInv, CleanInv, Work \/ UnstagerCrash \/ Restart, UNCHANGED svars
  PROVE  CleanInv'
  <1>1. received \subseteq received' /\ taken' = taken
    BY DEF Work, List, Pick, Rest, OpenDatFails, Hang, Accepted,
       Refused, NoAnswer, Retry, GiveUp, RemoveJson, RemoveDat, UnstagerCrash,
       Restart, TakeIn, svars
  <1>2. \A u : Replayed(u) => Replayed(u)'
    BY <1>1, ReplayedStays
  <1>3. ASSUME NEW u \in json', dat'[u] = NoFile
        PROVE  Replayed(u)'
    <2>1. CASE RemoveDat
      <3>1. u \in json /\ Replayed(cur) /\ (u # cur => dat'[u] = dat[u])
        BY <1>3, <2>1 DEF RemoveDat, CleanInv, IInv, TypeOK, DirTypeOK
      <3> QED
        BY <1>2, <1>3, <3>1 DEF CleanInv
    <2>2. CASE dat' = dat /\ json' \subseteq json
      BY <1>2, <1>3, <2>2 DEF CleanInv
    <2>3. RemoveDat \/ (dat' = dat /\ json' \subseteq json)
      BY DEF Work, List, Pick, Rest, OpenDatFails, Hang, Accepted,
         Refused, NoAnswer, Retry, GiveUp, RemoveJson, UnstagerCrash,
         Restart, dirvars
    <2> QED
      BY <2>1, <2>2, <2>3
  <1>4. ASSUME step' \in {"clean", "cleaned"}
        PROVE  Replayed(cur)'
    <2>1. CASE Accepted /\ Replayable(cur)
      BY <2>1, AcceptedWhole
    <2>2. CASE ~Replayable(cur) /\ cur' = cur
      BY <2>2 DEF Replayed, Replayable, Scanned
    <2>3. CASE RemoveJson
      <3>1. cur' = cur /\ Replayed(cur)
        BY <2>3 DEF RemoveJson, CleanInv
      <3> QED
        BY <1>1, <3>1 DEF Replayed, Replayable, Scanned
    <2>4. Refused => ~Replayable(cur) /\ cur' = cur
      BY DEF Refused, Replayable
    <2>5. Accepted => cur' = cur
      BY DEF Accepted
    <2>6. Accepted \/ Refused \/ RemoveJson
      BY <1>4 DEF Work, List, Pick, Rest, OpenDatFails, Hang, NoAnswer,
         Retry, GiveUp, RemoveDat, UnstagerCrash, Restart
    <2> QED
      BY <2>1, <2>2, <2>3, <2>4, <2>5, <2>6
  <1> QED
    BY <1>3, <1>4 DEF CleanInv

LEMMA NextKeepsClean ==
  ASSUME IInv, CleanInv, [Next]_vars
  PROVE  CleanInv'
  <1>1. CASE \E v \in Uploads : StagerPost(v) /\ UNCHANGED uvars
    BY <1>1, StagerKeepsClean
  <1>2. CASE StagerCrash /\ UNCHANGED uvars
    BY <1>2 DEF StagerCrash, dirvars, uvars, CleanInv, Replayed, Replayable,
       Scanned
  <1>3. CASE (Work \/ UnstagerCrash \/ Restart) /\ UNCHANGED svars
    BY <1>3, UnstagerKeepsClean
  <1>4. CASE UNCHANGED vars
    BY <1>4 DEF vars, dirvars, svars, uvars, CleanInv, Replayed, Replayable,
       Scanned
  <1> QED
    BY <1>1, <1>2, <1>3, <1>4 DEF Next

LEMMA CleanHolds == Spec => []CleanInv
  <1>1. Init => CleanInv
    BY DEF Init, DirInit, UnstagerInit, CleanInv
  <1>2. IInv /\ CleanInv /\ [Next]_vars => CleanInv'
    BY NextKeepsClean
  <1> QED
    BY <1>1, <1>2, InvariantHolds, PTL DEF Spec

(* The two invariants say all there is to say of a .json.                  *)
LEMMA WholeFromInv == IInv /\ CleanInv => PublishedIsWhole
  <1> SUFFICES ASSUME IInv, CleanInv, NEW u \in json
               PROVE  Whole(u) \/ (Bereft(u) /\ Replayed(u))
    BY DEF PublishedIsWhole, Bereft
  <1>1. u \in Uploads
    BY DEF IInv, TypeOK, DirTypeOK
  <1>2. StagedInv(u)
    BY <1>1 DEF IInv, StagerInv
  <1>3. CASE Bereft(u)
    BY <1>3 DEF Bereft, CleanInv
  <1>4. CASE dat[u] = Prefix(u)
    <2>1. \A i \in DOMAIN dat[u] : Verified(dat[u][i])
      BY <1>1, <1>2, <1>4, PrefixTyped DEF IInv, StagedInv
    <2>2. reply[u] = "ok" => dat[u] = Content[u]
      BY <1>1, <1>2, <1>4, PrefixTyped, PrefixOfAll DEF IInv, StagedInv, Prefix
    <2> QED
      BY <1>4, <2>1, <2>2 DEF Whole, Prefix
  <1> QED
    BY <1>2, <1>3, <1>4 DEF StagedInv

(* Whatever crashes and whatever disk operation fails, a .json has a .dat  *)
(* with the verified FlowFiles of its POST, all of them if the client was  *)
(* told so; it has none only when all of it was replayed.                  *)
THEOREM JsonVouches == Spec => []PublishedIsWhole
  <1>1. IInv /\ CleanInv => PublishedIsWhole
    BY WholeFromInv
  <1> QED
    BY <1>1, InvariantHolds, CleanHolds, PTL

-----------------------------------------------------------------------------
(* Only the end of a POST answers its client "ok", and its .inprogress is  *)
(* then a .json, or as it was.  Only RemoveJson takes a .json away.        *)
LEMMA PublishAnswersOk ==
  ASSUME TypeOK, NEW v \in Uploads, StagerPost(v), NEW u \in Uploads,
         reply[u] # "ok", reply'[u] = "ok", pc[u] = "open" => u \in tmp
  PROVE  u \in json' \cup tmp'
  <1>1. u = v
    BY StagerPostLocal
  <1> USE <1>1 DEF TypeOK, StagerTypeOK
  <1>2. CASE Publish(v)
    BY <1>2 DEF Publish
  <1>3. CASE Open(v) \/ Stage(v)
    BY <1>3 DEF Open, Stage
  <1>4. CASE OpenFails(v) \/ Refuse(v) \/ WriteFails(v) \/ BreakOff(v)
    BY <1>4 DEF OpenFails, Refuse, WriteFails, BreakOff, End
  <1> QED
    BY <1>2, <1>3, <1>4 DEF StagerPost

LEMMA GoneWasRemoved ==
  ASSUME IInv, [Next]_vars, NEW u \in json, u \notin json'
  PROVE  RemoveJson /\ u = cur
  <1>1. \A v \in Uploads : ~StagerPost(v)
    BY StagerPostGrows DEF IInv
  <1>2. json' # json
    OBVIOUS
  <1>3. RemoveJson
    BY <1>1, <1>2 DEF Next, StagerCrash, Work, List, Pick, Rest, OpenDatFails, Hang,
       Accepted, Refused, NoAnswer, Retry, GiveUp, RemoveDat, UnstagerCrash,
       Restart, vars, dirvars
  <1> QED
    BY <1>3 DEF RemoveJson

(* A POST that ended keeps its .inprogress if it has one. *)
LEMMA EndedKeepsTmp ==
  ASSUME IInv, [Next]_vars, NEW u \in tmp, pc[u] = "ended"
  PROVE  u \in tmp'
  <1>1. u \in Uploads
    BY DEF IInv, TypeOK, DirTypeOK
  <1>2. ASSUME NEW v \in Uploads, StagerPost(v)
        PROVE  u \in tmp'
    BY <1>1, <1>2, StagerPostGrows, StagerPostLocal DEF IInv
  <1>3. CASE tmp' = tmp
    BY <1>3
  <1> QED
    BY <1>2, <1>3 DEF Next, StagerCrash, Work, List, Pick, Rest, OpenDatFails,
       Hang, Accepted, Refused, NoAnswer, Retry, GiveUp, RemoveJson, RemoveDat,
       UnstagerCrash, Restart, vars, dirvars

(* What is left of NothingLost once a .dat is replayed whole or not at all *)
(* and the .json goes only after that.                                     *)
LEMMA NothingLostKept ==
  ASSUME IInv, CleanInv, NothingLost, [Next]_vars
  PROVE  NothingLost'
  <1> SUFFICES ASSUME NEW u \in Uploads, reply'[u] = "ok", Replayable(u),
                      NEW i \in DOMAIN Content[u]
               PROVE  \/ Content[u][i] \in received'
                      \/ u \in json' \cup tmp' /\ dat'[u] = Content[u]
    BY DEF NothingLost, Taken, Replayable, Scanned
  <1>1. IInv' /\ CleanInv'
    BY NextKeeps, NextKeepsClean
  <1>2. received \subseteq received'
    BY DEF Next, StagerCrash, Work, List, Pick, Rest, OpenDatFails, Hang, Accepted,
       Refused, NoAnswer, Retry, GiveUp, RemoveJson, RemoveDat, UnstagerCrash,
       Restart, TakeIn, uvars, vars
  <1>3. /\ StagedInv(u)' /\ taken'[u] = Len(Content[u])
        /\ Prefix(u)' = Content[u] /\ DOMAIN Content[u] = 1 .. taken'[u]
    <2>1. StagedInv(u)' /\ taken'[u] = Len(Content[u])
      BY <1>1 DEF IInv, StagerInv, StagedInv
    <2>2. Content[u] \in Seq(FlowFiles)
      BY ContentAssumption
    <2> QED
      BY <2>1, <2>2, PrefixOfAll DEF Prefix
  <1>4. CASE u \in tmp'
    BY <1>3, <1>4 DEF StagedInv
  <1>5. CASE u \in json'
    <2>1. CASE dat'[u] = Prefix(u)'
      BY <1>3, <1>5, <2>1
    <2>2. CASE dat'[u] = NoFile
      <3>1. Replayed(u)'
        BY <1>1, <1>5, <2>2 DEF CleanInv
      <3>2. Replayable(u)'
        BY DEF Replayable, Scanned
      <3> QED
        BY <1>3, <3>1, <3>2 DEF Replayed
    <2> QED
      BY <1>3, <1>5, <2>1, <2>2 DEF StagedInv, Bereft
  <1>6. CASE u \notin json' \cup tmp'
    <2>1. CASE reply[u] = "ok" /\ u \notin json \cup tmp
      BY <1>2, <2>1 DEF NothingLost, Taken
    <2>2. reply[u] = "ok" => u \notin tmp
      BY <1>6, EndedKeepsTmp DEF IInv, StagerInv, StagedInv
    <2>3. CASE reply[u] # "ok"
      <3>1. \E v \in Uploads : StagerPost(v)
        <4>1. ~UNCHANGED svars
          BY <2>3 DEF svars
        <4>2. ~StagerCrash
          BY <2>3 DEF StagerCrash
        <4> QED
          BY <4>1, <4>2 DEF Next, vars
      <3>2. pc[u] = "open" => u \in tmp
        BY DEF IInv, StagerInv, StagedInv
      <3> QED
        BY <1>6, <2>3, <3>1, <3>2, PublishAnswersOk DEF IInv
    <2>4. CASE reply[u] = "ok" /\ u \in json
      <3>1. RemoveJson /\ u = cur
        BY <1>6, <2>4, GoneWasRemoved
      <3>2. Replayed(u)
        BY <3>1 DEF CleanInv, RemoveJson
      <3>3. taken[u] = taken'[u]
        <4>1. IInv /\ reply[u] = "ok" => taken[u] = Len(Content[u])
          BY DEF IInv, StagerInv, StagedInv
        <4> QED
          BY <1>3, <2>4, <4>1
      <3>4. Content[u][i] \in received
        BY <1>3, <3>2, <3>3 DEF Replayed
      <3> QED
        BY <1>2, <3>4
    <2> QED
      BY <2>1, <2>2, <2>3, <2>4
  <1> QED
    BY <1>4, <1>5, <1>6

(* What the stager took is at the endpoint or in the directory, whichever  *)
(* disk operation fails.                                                   *)
THEOREM NoLoss == Spec => []NothingLost
  <1>1. Init => NothingLost
    BY DEF Init, StagerInit, NothingLost, Taken
  <1>2. IInv /\ CleanInv /\ NothingLost /\ [Next]_vars => NothingLost'
    BY NothingLostKept
  <1> QED
    BY <1>1, <1>2, InvariantHolds, CleanHolds, PTL DEF Spec
=============================================================================
