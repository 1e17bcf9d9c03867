------------------------------- MODULE Delivery -------------------------------
(***************************************************************************)
(* What a one-way transfer promises at best: a FlowFile may be lost, but   *)
(* what is delivered was posted, and every post is delivered a bounded     *)
(* number of times.                                                        *)
(***************************************************************************)
EXTENDS Integers, Sequences

CONSTANTS Posts, Copies

VARIABLES
  posted,     \* posted[f]: how often f was handed over
  delivered   \* delivered[f][n]: how often the n-th post of f that came out
              \* at the far end did so

Init ==
  /\ posted = [f \in Posts |-> 0]
  /\ delivered = [f \in Posts |-> << >>]

Hand(f) ==
  /\ posted' = [posted EXCEPT ![f] = @ + 1]
  /\ UNCHANGED delivered

Deliver(f) ==
  /\ Len(delivered[f]) < posted[f]
  /\ delivered' = [delivered EXCEPT ![f] = Append(@, 1)]
  /\ UNCHANGED posted

Repeat(f) ==
  /\ \E n \in DOMAIN delivered[f] :
       /\ delivered[f][n] < Copies
       /\ delivered' = [delivered EXCEPT ![f][n] = @ + 1]
  /\ UNCHANGED posted

Next == \E f \in Posts : Hand(f) \/ Deliver(f) \/ Repeat(f)

Spec == Init /\ [][Next]_<<posted, delivered>>
=============================================================================
