------------------------------ MODULE MCStaging ------------------------------
(* Values for stager and unstager on one directory. *)
EXTENDS Staging

MCContent == [u \in Uploads |->
  CASE u = "u" -> <<"e", "a">> [] u = "v" -> <<"a", "b">> [] OTHER -> <<"e", "c">>]
MCSum == [f \in FlowFiles |-> IF f = "c" THEN "missing" ELSE "good"]
=============================================================================
