----------------------------- MODULE MCSelector -----------------------------
(* A small instance of both selectors for TLC: a pipe or socket that may   *)
(* be closed or lose its other end, and a descriptor that is read only.    *)
EXTENDS SelectorBoth

CONSTANTS f1, f2

MCFd == {f1, f2}
MCSignals == f1 :> {"READ", "WRITE"} @@ f2 :> {"READ"}
MCWanted == f1 :> {{"READ"}, {"READ", "WRITE"}} @@ f2 :> {{"READ"}}
MCFragile == {f1}
=============================================================================
