---- MODULE MCAsyncService ----
(* Small instances of AsyncService for TLC. *)
EXTENDS AsyncService, TLC

\* Every call async_service::open(start, max, spare) with sizes up to n; the
\* two shorter forms are those with spare = max, and start = max = spare.
OpenForms(n) == [start : 0 .. n, max : 0 .. n, spare : 0 .. n]

UpTo2 == OpenForms(2)
UpTo3 == OpenForms(3)

\* max_threads >= 1: with no thread allowed a task may wait for ever.
Working == {l \in OpenForms(2) : l.max >= 1}

Symmetry == Permutations(Threads) \cup Permutations(Tasks)
====
