---------------------------- MODULE MCFileTransfer ----------------------------
(* Values for a file of three segments and one with the same content, then *)
(* the first one changed and a short one.                                  *)
EXTENDS FileTransfer

MCFiles == <<
  << [name |-> "a", data |-> "X", parts |-> 3],
     [name |-> "b", data |-> "X", parts |-> 3] >>,
  << [name |-> "a", data |-> "Y", parts |-> 3],
     [name |-> "c", data |-> "X", parts |-> 0] >> >>

ASSUME FilesAssumption == Steady /\ DistinctNames /\ LinksApart
===============================================================================
