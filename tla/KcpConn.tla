-------------------------------- MODULE KcpConn --------------------------------
(***************************************************************************)
(* The KCP connections between ff-http-to-kcp and ff-kcp-to-http: FlowFiles*)
(* and end marks one way, OKAY and FAIL the other, in order.  Closing a    *)
(* connection is not noticed at the other end.                             *)
(***************************************************************************)
EXTENDS Sequences, Integers, FiniteSets

CONSTANTS
  Posts,     \* POSTs to ff-http-to-kcp
  Block,     \* Block[p]: the FlowFiles of POST p, in order
  Sum,       \* Sum[f]: "good", "bad" or "missing" checksum attributes
  Conns,     \* bound: the connections there can be at a time, 1, 2, ...
  Checkers,  \* the sets of ends that may verify, not started with -no-checksums
  EOF        \* an end mark

FlowFiles == DOMAIN Sum

ASSUME KcpAssumption ==
  /\ Sum \in [FlowFiles -> {"good", "bad", "missing"}]
  /\ Block \in [Posts -> Seq(FlowFiles)]
  /\ Conns \subseteq Nat \ {0}
  /\ Checkers \subseteq SUBSET {"client", "server"}
  /\ EOF \notin Posts \X FlowFiles

VARIABLES
  up,      \* up[c]: <<p, f>> for FlowFile f of POST p, and EOF
  down,    \* down[c]: answers on their way back
  closed,  \* connections the client has closed
  checks   \* the ends that verify

wire == <<up, down, closed>>

Messages == (Posts \X FlowFiles) \cup {EOF}

WireTypeOK ==
  /\ up \in [Conns -> Seq(Messages)]
  /\ down \in [Conns -> Seq({"OKAY", "FAIL"})]
  /\ closed \subseteq Conns
  /\ checks \in Checkers

(* File.Verify, where a missing checksum is let through. *)
Passes(f) == Sum[f] # "bad"
===============================================================================
