------------------------------- MODULE FileData -------------------------------
(* What ff-sender and ff-receiver have in common: paths and contents.      *)
EXTENDS Integers, Sequences, FiniteSets

CONSTANTS
  Names,  \* paths of files
  Data    \* contents of files

(* A file, by the contents of its segments; a short one counts 0 of them.  *)
FullFile(d, k) == [i \in 1 .. (IF k = 0 THEN 1 ELSE k) |-> d]
===============================================================================
