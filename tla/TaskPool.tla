---- MODULE TaskPool ----
(***************************************************************************)
(* What src/lib/async_service.cpp promises its client, without threads,    *)
(* locks or counters: submitted tasks start in submission order, a started *)
(* task finishes and is taken once, a task not yet started may be          *)
(* withdrawn, and shutting the pool down drops what has not started and    *)
(* keeps what has finished.                                                *)
(***************************************************************************)
EXTENDS Integers, SequencesExt

CONSTANT Tasks

VARIABLES
  phase,    \* "new", "open" or "shut"
  pending,  \* submitted and not started, oldest first
  running,  \* started and not finished
  done      \* finished and not taken, oldest first

vars == <<phase, pending, running, done>>

Init == phase = "new" /\ pending = <<>> /\ running = {} /\ done = <<>>

Open ==
  /\ phase = "new"
  /\ phase' = "open"
  /\ UNCHANGED <<pending, running, done>>

Submit(t) ==
  /\ phase = "open"
  /\ t \notin Range(pending) \cup running \cup Range(done)
  /\ pending' = Append(pending, t)
  /\ UNCHANGED <<phase, running, done>>

Withdraw(t) ==
  /\ \E i \in DOMAIN pending : pending[i] = t /\ pending' = RemoveAt(pending, i)
  /\ UNCHANGED <<phase, running, done>>

Start ==
  /\ pending # <<>>
  /\ running' = running \cup {Head(pending)}
  /\ pending' = Tail(pending)
  /\ UNCHANGED <<phase, done>>

Finish(t) ==
  /\ t \in running
  /\ running' = running \ {t}
  /\ done' = Append(done, t)
  /\ UNCHANGED <<phase, pending>>

Take ==
  /\ done # <<>>
  /\ done' = Tail(done)
  /\ UNCHANGED <<phase, pending, running>>

Shut ==
  /\ phase = "open"
  /\ phase' = "shut"
  /\ pending' = <<>>
  /\ UNCHANGED <<running, done>>

Next ==
  \/ Open
  \/ \E t \in Tasks : Submit(t) \/ Withdraw(t) \/ Finish(t)
  \/ Start
  \/ Take
  \/ Shut

Spec == Init /\ [][Next]_vars

\* Every pool makes progress; a client need not do anything.
Fairness == WF_vars(Start) /\ \A t \in Tasks : WF_vars(Finish(t))

FairSpec == Spec /\ Fairness
====
