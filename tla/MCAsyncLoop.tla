---- MODULE MCAsyncLoop ----
(* Small instances of AsyncLoop for TLC. *)
EXTENDS AsyncLoop

\* start threads, at most 2 threads, any number of spare ones.
LoopLimits == [start : 0 .. 2, max : 1 .. 2, spare : 0 .. 2]
====
