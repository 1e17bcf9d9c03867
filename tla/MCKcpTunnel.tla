----------------------------- MODULE MCKcpTunnel -----------------------------
(* Values for three POSTs over a pool for two threads. *)
EXTENDS KcpTunnel

MCBlock == [p \in Posts |->
  CASE p = "p" -> <<"a", "x", "b">> [] p = "q" -> <<"m">> [] OTHER -> << >>]
MCSum == [f \in {"a", "b", "m", "x"} |->
  CASE f = "x" -> "bad" [] f = "m" -> "missing" [] OTHER -> "good"]
MCCheckers == {{"client"}, {"server"}}
===============================================================================
