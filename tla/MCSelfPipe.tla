---- MODULE MCSelfPipe ----
(* Small instances of SelfPipe for TLC. *)
EXTENDS SelfPipe, TLC

Symmetry == Permutations(Clients) \cup Permutations(Pipes)
====
