---- MODULE MCPathExec ----
(* A small instance of PathExec for TLC. *)
EXTENDS PathExec, SequencesExt

MCPaths == BoundedSeq(0..3, 3) \ {<<>>}
====
