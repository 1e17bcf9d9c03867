------------------------------- MODULE KcpServer -------------------------------
(***************************************************************************)
(* ff-kcp-to-http: a loop per connection passes the FlowFiles up to an end *)
(* mark on in one HTTP POST and answers.                                   *)
(***************************************************************************)
EXTENDS KcpConn

CONSTANT
  MayRefuse  \* whether the endpoint may answer with an error status

ASSUME ServerAssumption == MayRefuse \in BOOLEAN

VARIABLES
  serving,  \* connections whose loop runs
  request,  \* request[c]: what httpWriter of c was given, << >> if there is none
  ended     \* history: the HTTP POSTs that were answered, and how

servervars == <<serving, request, ended>>

Blocks == Seq(Posts \X FlowFiles)

ServerTypeOK ==
  /\ serving \subseteq Conns
  /\ request \in [Conns -> Blocks]
  /\ ended \subseteq [files : Blocks, status : {"accepted", "refused"}]

(* Connections that were made to a server that was stopped since then have *)
(* no loop.                                                                *)
ServerInit(made) ==
  /\ serving \in SUBSET made
  /\ request = [c \in Conns |-> << >>]
  /\ ended = {}

-----------------------------------------------------------------------------
Ends(c, status) ==
  /\ request' = [request EXCEPT ![c] = << >>]
  /\ ended' = IF request[c] = << >> THEN ended
              ELSE ended \cup {[files |-> request[c], status |-> status]}

Reads(c) == up' = [up EXCEPT ![c] = Tail(@)]
Says(c, answer) == down' = [down EXCEPT ![c] = Append(@, answer)]

AtFile(c) == c \in serving /\ up[c] # << >> /\ Head(up[c]) # EOF
AtEnd(c) == c \in serving /\ up[c] # << >> /\ Head(up[c]) = EOF
Fine(c) == "server" \in checks => Passes(Head(up[c])[2])

(* A FlowFile is read, verified and written to httpWriter. *)
Pass(c) ==
  /\ AtFile(c) /\ Fine(c)
  /\ Reads(c)
  /\ request' = [request EXCEPT ![c] = Append(@, Head(up[c]))]
  /\ UNCHANGED <<down, closed, serving, ended>>

(* Mutant: the loop goes on with the next one. *)
Reject_GoesOn(c) ==
  /\ AtFile(c) /\ ~Fine(c)
  /\ Reads(c)
  /\ request' = [request EXCEPT ![c] = << >>]
  /\ UNCHANGED <<down, closed, serving, ended>>

(* Its verification fails: the POST is cut off and the loop ends, without *)
(* a word to the client.                                                   *)
Reject(c) ==
  /\ AtFile(c) /\ ~Fine(c)
  /\ Reads(c)
  /\ request' = [request EXCEPT ![c] = << >>]
  /\ serving' = serving \ {c}
  /\ UNCHANGED <<down, closed, ended>>

(* The endpoint has ended the POST, and httpWriter gets ErrClosedPipe. *)
Broken(c) ==
  /\ MayRefuse
  /\ AtFile(c) /\ Fine(c)
  /\ Reads(c)
  /\ Ends(c, "refused")
  /\ Says(c, "FAIL")
  /\ serving' = serving \ {c}
  /\ UNCHANGED closed

(* Mutant: the end mark is answered as soon as it is seen. *)
Finish_Early(c) ==
  /\ AtEnd(c)
  /\ Reads(c)
  /\ Says(c, "OKAY")
  /\ UNCHANGED <<closed, servervars>>

(* At the end mark httpWriter is closed, and whatever came of the POST the *)
(* answer is OKAY.                                                         *)
Finish(c) ==
  /\ AtEnd(c)
  /\ Reads(c)
  /\ \E status \in {"accepted"} \cup IF MayRefuse THEN {"refused"} ELSE {} :
       Ends(c, status)
  /\ Says(c, "OKAY")
  /\ UNCHANGED <<closed, serving>>

Serve(c) == Pass(c) \/ Reject(c) \/ Broken(c) \/ Finish(c)
===============================================================================
