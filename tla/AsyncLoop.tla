---- MODULE AsyncLoop ----
(***************************************************************************)
(* The client of test/lua/test_async2.lua on top of AsyncService: an event *)
(* loop that selects on the notification pipe, reads it empty, pops every  *)
(* ready task, pushes follow-up tasks, and closes the service when all     *)
(* came back.  It never looks at the ready list before the pipe says so,   *)
(* so a notification that goes missing leaves it asleep.                   *)
(***************************************************************************)
EXTENDS AsyncService

VARIABLES
  loop,       \* where the loop is
  remaining,  \* n: tasks pushed and not popped
  todo        \* tasks the program still means to push

loopVars == <<vars, loop, remaining, todo>>
still == UNCHANGED <<loop, remaining, todo>>

LoopInit ==
  /\ Init
  /\ loop = "start" /\ remaining = 0
  /\ todo \in SUBSET Tasks \ {{}}

\* service:push(task), by the first for statement or from the pop loop.
LoopPush(t) ==
  /\ loop \in {"start", "pop"}
  /\ t \in todo
  /\ PushCount(t)
  /\ todo' = todo \ {t}
  /\ remaining' = remaining + 1
  /\ UNCHANGED loop

\* A call the client has begun runs on: the loop waits for it to return.
LoopInCall ==
  /\ OpenReady \/ PushQueue \/ CloseQueue \/ CloseCount \/ CloseCheck
  /\ still

LoopPushed ==
  /\ loop = "start" /\ client = "idle" /\ remaining > 0
  /\ loop' = "select"
  /\ UNCHANGED <<vars, remaining, todo>>

\* select returns once the reader of the pipe is readable.
LoopSelect ==
  /\ loop = "select"
  /\ pipe > 0
  /\ loop' = "read"
  /\ UNCHANGED <<vars, remaining, todo>>

LoopRead ==
  /\ loop = "read"
  /\ \/ ReadByte /\ UNCHANGED loop
     \/ ReadReturn /\ loop' = "pop"
  /\ UNCHANGED <<remaining, todo>>

\* Mutant: one task is popped for a notification.
LoopPopOne ==
  /\ loop = "pop" /\ client = "idle"
  /\ Pop
  /\ remaining' = remaining - 1
  /\ loop' = IF remaining = 1 THEN "close" ELSE "select"
  /\ UNCHANGED todo

LoopPop ==
  /\ loop = "pop" /\ client = "idle"
  /\ Pop
  /\ remaining' = remaining - 1
  /\ UNCHANGED <<loop, todo>>

\* Mutant: the outer loop ends with the first list that was popped empty.
LoopPoppedOnce ==
  /\ loop = "pop" /\ client = "idle"
  /\ ready = <<>>
  /\ loop' = "close"
  /\ UNCHANGED <<vars, remaining, todo>>

\* pop returned nothing: out of the inner loop, and the test of the outer one.
LoopPopped ==
  /\ loop = "pop" /\ client = "idle"
  /\ ready = <<>>
  /\ loop' = IF remaining = 0 THEN "close" ELSE "select"
  /\ UNCHANGED <<vars, remaining, todo>>

LoopClose ==
  /\ loop = "close"
  /\ CloseReady
  /\ still

LoopStep ==
  \/ \E l \in Limits : OpenThreads(l) /\ still
  \/ \E t \in Tasks : LoopPush(t)
  \/ LoopInCall
  \/ LoopPushed \/ LoopSelect \/ LoopRead \/ LoopPop \/ LoopPopped
  \/ LoopClose

LoopNext ==
  \/ LoopStep
  \/ \E w \in Threads : (WorkerStep(w) \/ SpuriousFetch(w)) /\ still
  \/ SpuriousClose /\ still
  \/ client = "closed" /\ UNCHANGED loopVars

LoopSpec ==
  /\ LoopInit /\ [][LoopNext]_loopVars
  /\ WF_loopVars(LoopStep)
  /\ \A w \in Threads : WF_loopVars(WorkerStep(w) /\ still)

----
\* The loop never sleeps in select while a task waits in the ready list: each
\* section that appends a task writes the pipe, and the loop empties the pipe
\* before it empties the list, never after.
NeverMissed == loop = "select" /\ ready # <<>> => pipe > 0

\* The loop leaves nothing for the close after it to cancel: n is zero only
\* when every task, follow-up tasks included, was delivered and popped, though
\* the workers that delivered the last ones may still be counting.
NothingCancelled ==
  /\ \A t \in Tasks : callback[t] # "cancelled"
  /\ loop = "close" => Tasks \cap (Range(queue) \cup Range(held) \cup Range(ready)) = {}

\* Every program of pushes comes to the end of its loop and closes.
LoopEnds == <>(client = "closed")
====
