---- MODULE AsyncService ----
(***************************************************************************)
(* The thread pool of src/lib/async_service.cpp: one client thread drives  *)
(* open, push, cancel, pop, read and close, detached worker threads run    *)
(* tasks.  The code never holds two of its three mutexes at a time, so a   *)
(* critical section is one action, and everything between two sections of  *)
(* a thread interleaves with the other threads.                            *)
(*                                                                         *)
(* The client keeps the contract the tests keep: it pushes a task again    *)
(* only after it was popped or cancelled, and after close it only pops and *)
(* destroys.                                                               *)
(***************************************************************************)
EXTENDS Integers, FiniteSets, SequencesExt

CONSTANTS
  Threads,       \* identities for worker threads, reused after a thread ends
  Tasks,         \* the async_service_task objects
  Null,          \* the null pointer close() leaves in the queue
  Limits,        \* arguments of open: records start, max, spare
  PipeCapacity,  \* bytes the notification pipe holds before a write is dropped
  MaxFailures    \* bound on the thread creations that fail

ASSUME ConstantsAssumption ==
  /\ IsFiniteSet(Threads)
  /\ Null \notin Tasks
  /\ Limits \subseteq [start : 0 .. Cardinality(Threads),
                       max   : 0 .. Cardinality(Threads),
                       spare : Nat]
  /\ PipeCapacity \in Nat \ {0}
  /\ MaxFailures \in Nat

VARIABLES
  maxThreads, maxSpareThreads,                \* fixed by the constructor
  spareThreads, currentThreads, currentTasks, \* under counter_mutex_
  queue, queueIndex,                          \* under queue_mutex_
  ready, opened, pipe,                        \* under ready_mutex_; bytes in the pipe
  pc, held,                                   \* of each worker: place and local task
  client, arg, swept,                         \* place and locals of the client thread
  callback,                                   \* last virtual call on each task object
  failures                                    \* thread creations that threw

limits   == <<maxThreads, maxSpareThreads>>
counters == <<spareThreads, currentThreads, currentTasks>>
lists    == <<queue, queueIndex>>
notice   == <<opened, pipe>>
workers  == <<pc, held>>
locals   == <<client, arg, swept>>
vars == <<limits, counters, lists, ready, notice, workers, locals, callback, failures>>

Absent  == {w \in Threads : pc[w] = "none"}
Live    == {w \in Threads : pc[w] # "none"}
Waiting == {w \in Threads : pc[w] = "waiting"}

\* A task the service holds: the client may not push it again.
Outstanding(t) ==
  \/ t \in queueIndex
  \/ t \in Range(held)
  \/ t \in Range(ready)

Init ==
  /\ maxThreads = 0 /\ maxSpareThreads = 0
  /\ spareThreads = 0 /\ currentThreads = 0 /\ currentTasks = 0
  /\ queue = <<>> /\ queueIndex = {}
  /\ ready = <<>> /\ opened = FALSE /\ pipe = 0
  /\ pc = [w \in Threads |-> "none"]
  /\ held = [w \in Threads |-> Null]
  /\ client = "unopened" /\ arg = Null /\ swept = <<>>
  /\ callback = [t \in Tasks |-> "none"]
  /\ failures = 0

----
(* The client.  open: the counter section that starts the threads, then the *)
(* ready section that installs the pipe.                                    *)

OpenThreads(l) ==
  /\ client = "unopened"
  /\ client' = "open_ready"
  /\ maxThreads' = l.max /\ maxSpareThreads' = l.spare
  /\ spareThreads' = spareThreads + l.start
  /\ currentThreads' = currentThreads + l.start
  /\ \E S \in SUBSET Absent :
       /\ Cardinality(S) = l.start
       /\ pc' = [w \in Threads |-> IF w \in S THEN "fetch" ELSE pc[w]]
  /\ UNCHANGED <<currentTasks, lists, ready, notice, held, arg, swept, callback, failures>>

OpenReady ==
  /\ client = "open_ready"
  /\ client' = "idle"
  /\ opened' = TRUE
  /\ UNCHANGED <<limits, counters, lists, ready, pipe, workers, arg, swept, callback, failures>>

----
(* push: a counter section that may start a thread, then a queue section.   *)

NeedsThread == currentThreads < currentTasks + 1 /\ currentThreads < maxThreads

PushCount(t) ==
  /\ client = "idle" /\ ~Outstanding(t)
  /\ client' = "push_queue" /\ arg' = t
  /\ currentTasks' = currentTasks + 1
  /\ \/ /\ NeedsThread
        /\ spareThreads' = spareThreads + 1
        /\ currentThreads' = currentThreads + 1
        /\ \E w \in Absent : pc' = [pc EXCEPT ![w] = "fetch"]
     \/ /\ ~NeedsThread
        /\ UNCHANGED <<spareThreads, currentThreads, pc>>
  /\ callback' = [callback EXCEPT ![t] = "none"]
  /\ UNCHANGED <<limits, lists, ready, notice, held, swept, failures>>

\* Mutant: the thread counters are incremented after the creation.
PushFailsUncounted(t) ==
  /\ client = "idle" /\ ~Outstanding(t)
  /\ NeedsThread
  /\ failures < MaxFailures
  /\ failures' = failures + 1
  /\ currentTasks' = currentTasks + 1
  /\ UNCHANGED <<limits, spareThreads, currentThreads, lists, ready, notice, workers, locals, callback>>

\* The thread constructor throws inside push: the three increments stay, and
\* the exception leaves push before the task is queued.
PushFails(t) ==
  /\ client = "idle" /\ ~Outstanding(t)
  /\ NeedsThread
  /\ failures < MaxFailures
  /\ failures' = failures + 1
  /\ currentTasks' = currentTasks + 1
  /\ spareThreads' = spareThreads + 1
  /\ currentThreads' = currentThreads + 1
  /\ UNCHANGED <<limits, lists, ready, notice, workers, locals, callback>>

NotifyOne ==
  IF Waiting = {} THEN UNCHANGED pc
  ELSE \E w \in Waiting : pc' = [pc EXCEPT ![w] = "fetch"]

\* Mutant: the task is queued and no worker is told.
PushQueueSilent ==
  /\ client = "push_queue"
  /\ client' = "idle" /\ arg' = Null
  /\ queue' = Append(queue, arg)
  /\ queueIndex' = queueIndex \cup {arg}
  /\ UNCHANGED <<limits, counters, ready, notice, workers, swept, callback, failures>>

PushQueue ==
  /\ client = "push_queue"
  /\ client' = "idle" /\ arg' = Null
  /\ queue' = Append(queue, arg)
  /\ queueIndex' = queueIndex \cup {arg}
  /\ NotifyOne
  /\ UNCHANGED <<limits, counters, ready, notice, held, swept, callback, failures>>

----
(* cancel: a queue section, then task->cancel() and a counter section.  The *)
(* call on the task needs no step of its own: no other thread reaches the   *)
(* task then (OnePlace).  A cancel that finds nothing changes nothing.      *)

CancelQueue(t) ==
  /\ client = "idle"
  /\ t \in queueIndex
  /\ client' = "cancel_count" /\ arg' = t
  /\ \E i \in DOMAIN queue : queue[i] = t /\ queue' = RemoveAt(queue, i)
  /\ queueIndex' = queueIndex \ {t}
  /\ UNCHANGED <<limits, counters, ready, notice, workers, swept, callback, failures>>

CancelCount ==
  /\ client = "cancel_count"
  /\ client' = "idle" /\ arg' = Null
  /\ callback' = [callback EXCEPT ![arg] = "cancelled"]
  /\ currentTasks' = currentTasks - 1
  /\ UNCHANGED <<limits, spareThreads, currentThreads, lists, ready, notice, workers, swept, failures>>

----
(* pop, and read: one read(2) a step until the pipe is empty.               *)

Pop ==
  /\ client \in {"idle", "closed"}
  /\ ready # <<>>
  /\ ready' = Tail(ready)
  /\ UNCHANGED <<limits, counters, lists, notice, workers, locals, callback, failures>>

ReadByte ==
  /\ client \in {"idle", "reading"}
  /\ pipe > 0
  /\ pipe' = pipe - 1
  /\ client' = "reading"
  /\ UNCHANGED <<limits, counters, lists, ready, opened, workers, arg, swept, callback, failures>>

ReadReturn ==
  /\ client = "reading"
  /\ pipe = 0
  /\ client' = "idle"
  /\ UNCHANGED <<limits, counters, lists, ready, notice, workers, arg, swept, callback, failures>>

----
(* close: four sections.  The condition variable counter_condition_ has the *)
(* client as its only waiter.                                               *)

CloseReady ==
  /\ client = "idle"
  /\ client' = "close_queue"
  /\ opened' = FALSE
  /\ UNCHANGED <<limits, counters, lists, ready, pipe, workers, arg, swept, callback, failures>>

\* Mutant: the null pointer is appended, and the tasks close() is about to
\* cancel stay in the queue before it.
CloseQueueAppends ==
  /\ client = "close_queue"
  /\ client' = "close_count"
  /\ swept' = queue
  /\ queue' = Append(queue, Null)
  /\ queueIndex' = {}
  /\ pc' = [w \in Threads |-> IF w \in Waiting THEN "fetch" ELSE pc[w]]
  /\ UNCHANGED <<limits, counters, ready, notice, held, arg, callback, failures>>

\* Mutant: notify_one instead of notify_all.
CloseQueueNotifiesOne ==
  /\ client = "close_queue"
  /\ client' = "close_count"
  /\ swept' = queue
  /\ queue' = <<Null>>
  /\ queueIndex' = {}
  /\ NotifyOne
  /\ UNCHANGED <<limits, counters, ready, notice, held, arg, callback, failures>>

CloseQueue ==
  /\ client = "close_queue"
  /\ client' = "close_count"
  /\ swept' = queue
  /\ queue' = <<Null>>
  /\ queueIndex' = {}
  /\ pc' = [w \in Threads |-> IF w \in Waiting THEN "fetch" ELSE pc[w]]
  /\ UNCHANGED <<limits, counters, ready, notice, held, arg, callback, failures>>

\* The condition of the wait loop: wait, or leave it and close the pipe.
WaitOrFinish ==
  IF currentThreads > 0
  THEN client' = "close_wait" /\ UNCHANGED pipe
  ELSE client' = "closed" /\ pipe' = 0

\* Mutant: the list is counted with the null pointer that was swapped away.
CloseCountWithNull ==
  /\ client = "close_count"
  /\ callback' = [t \in Tasks |-> IF t \in Range(swept) THEN "cancelled" ELSE callback[t]]
  /\ currentTasks' = currentTasks - Len(swept) - 1
  /\ swept' = <<>>
  /\ WaitOrFinish
  /\ UNCHANGED <<limits, spareThreads, currentThreads, lists, ready, opened, workers, arg, failures>>

\* task->cancel() on every swept task, then the counter section.
CloseCount ==
  /\ client = "close_count"
  /\ callback' = [t \in Tasks |-> IF t \in Range(swept) THEN "cancelled" ELSE callback[t]]
  /\ currentTasks' = currentTasks - Len(swept)
  /\ swept' = <<>>
  /\ WaitOrFinish
  /\ UNCHANGED <<limits, spareThreads, currentThreads, lists, ready, opened, workers, arg, failures>>

\* Mutant: the wait is not in a loop.
CloseCheckOnce ==
  /\ client = "close_check"
  /\ client' = "closed" /\ pipe' = 0
  /\ UNCHANGED <<limits, counters, lists, ready, opened, workers, arg, swept, callback, failures>>

CloseCheck ==
  /\ client = "close_check"
  /\ WaitOrFinish
  /\ UNCHANGED <<limits, counters, lists, ready, opened, workers, arg, swept, callback, failures>>

Destroy ==
  /\ client = "closed"
  /\ client' = "destroyed"
  /\ UNCHANGED <<limits, counters, lists, ready, notice, workers, arg, swept, callback, failures>>

----
(* A worker: queue section, counter section, task->dispatch(), ready        *)
(* section, counter section, and again.                                     *)

\* The queue is empty: the worker blocks in queue_condition_.wait.
FetchWait(w) ==
  /\ pc[w] = "fetch"
  /\ queue = <<>>
  /\ pc' = [pc EXCEPT ![w] = "waiting"]
  /\ UNCHANGED <<limits, counters, lists, ready, notice, held, locals, callback, failures>>

\* Mutant: the index keeps the task that was taken.
FetchTaskKeepsIndex(w) ==
  /\ pc[w] = "fetch"
  /\ queue # <<>> /\ Head(queue) # Null
  /\ pc' = [pc EXCEPT ![w] = "fetched"]
  /\ held' = [held EXCEPT ![w] = Head(queue)]
  /\ queue' = Tail(queue)
  /\ UNCHANGED <<limits, counters, queueIndex, ready, notice, locals, callback, failures>>

FetchTask(w) ==
  /\ pc[w] = "fetch"
  /\ queue # <<>> /\ Head(queue) # Null
  /\ pc' = [pc EXCEPT ![w] = "fetched"]
  /\ held' = [held EXCEPT ![w] = Head(queue)]
  /\ queue' = Tail(queue)
  /\ queueIndex' = queueIndex \ {Head(queue)}
  /\ UNCHANGED <<limits, counters, ready, notice, locals, callback, failures>>

\* The null pointer of close() stays in the queue for the other workers.
FetchNull(w) ==
  /\ pc[w] = "fetch"
  /\ queue # <<>> /\ Head(queue) = Null
  /\ pc' = [pc EXCEPT ![w] = "stopping"]
  /\ UNCHANGED <<limits, counters, lists, ready, notice, held, locals, callback, failures>>

NotifyClose == IF client = "close_wait" THEN "close_check" ELSE client

CountFetched(w) ==
  /\ pc[w] = "fetched"
  /\ pc' = [pc EXCEPT ![w] = "dispatch"]
  /\ spareThreads' = spareThreads - 1
  /\ UNCHANGED <<limits, currentThreads, currentTasks, lists, ready, notice, held, locals, callback, failures>>

Stop(w) ==
  /\ pc[w] = "stopping"
  /\ pc' = [pc EXCEPT ![w] = "none"]
  /\ spareThreads' = spareThreads - 1
  /\ currentThreads' = currentThreads - 1
  /\ client' = NotifyClose
  /\ UNCHANGED <<limits, currentTasks, lists, ready, notice, held, arg, swept, callback, failures>>

Dispatch(w) ==
  /\ pc[w] = "dispatch"
  /\ pc' = [pc EXCEPT ![w] = "deliver"]
  /\ callback' = [callback EXCEPT ![held[w]] = "dispatched"]
  /\ UNCHANGED <<limits, counters, lists, ready, notice, held, locals, failures>>

\* Mutant: push_front on the ready list.
DeliverFront(w) ==
  /\ pc[w] = "deliver"
  /\ pc' = [pc EXCEPT ![w] = "account"]
  /\ held' = [held EXCEPT ![w] = Null]
  /\ ready' = <<held[w]>> \o ready
  /\ pipe' = IF opened /\ pipe < PipeCapacity THEN pipe + 1 ELSE pipe
  /\ UNCHANGED <<limits, counters, lists, opened, locals, callback, failures>>

\* The pipe is nonblocking: a write to a full pipe is dropped.
Deliver(w) ==
  /\ pc[w] = "deliver"
  /\ pc' = [pc EXCEPT ![w] = "account"]
  /\ held' = [held EXCEPT ![w] = Null]
  /\ ready' = Append(ready, held[w])
  /\ pipe' = IF opened /\ pipe < PipeCapacity THEN pipe + 1 ELSE pipe
  /\ UNCHANGED <<limits, counters, lists, opened, locals, callback, failures>>

\* Mutant: < for <=.
NeededStrict == currentThreads < currentTasks - 1 \/ spareThreads < maxSpareThreads

\* Mutant: only the spare threads are looked at.
NeededAsSpare == spareThreads < maxSpareThreads

\* The thread stays while there is work for it or a place among the spare ones.
Needed == currentThreads <= currentTasks - 1 \/ spareThreads < maxSpareThreads

AccountStay(w) ==
  /\ pc[w] = "account"
  /\ Needed
  /\ pc' = [pc EXCEPT ![w] = "fetch"]
  /\ currentTasks' = currentTasks - 1
  /\ spareThreads' = spareThreads + 1
  /\ UNCHANGED <<limits, currentThreads, lists, ready, notice, held, locals, callback, failures>>

AccountExit(w) ==
  /\ pc[w] = "account"
  /\ ~Needed
  /\ pc' = [pc EXCEPT ![w] = "none"]
  /\ currentTasks' = currentTasks - 1
  /\ currentThreads' = currentThreads - 1
  /\ client' = NotifyClose
  /\ UNCHANGED <<limits, spareThreads, lists, ready, notice, held, arg, swept, callback, failures>>

----
(* POSIX lets a wait on a condition variable return without a notify.       *)

SpuriousFetch(w) ==
  /\ pc[w] = "waiting"
  /\ pc' = [pc EXCEPT ![w] = "fetch"]
  /\ UNCHANGED <<limits, counters, lists, ready, notice, held, locals, callback, failures>>

SpuriousClose ==
  /\ client = "close_wait"
  /\ client' = "close_check"
  /\ UNCHANGED <<limits, counters, lists, ready, notice, workers, arg, swept, callback, failures>>

----
\* The steps that begin a call, and those that carry a begun call on.
ClientBegin ==
  \/ \E l \in Limits : OpenThreads(l)
  \/ \E t \in Tasks : PushCount(t) \/ PushFails(t) \/ CancelQueue(t)
  \/ Pop
  \/ ReadByte
  \/ CloseReady
  \/ Destroy

ClientContinue ==
  \/ OpenReady
  \/ PushQueue
  \/ CancelCount
  \/ client = "reading" /\ ReadByte
  \/ ReadReturn
  \/ CloseQueue \/ CloseCount \/ CloseCheck

WorkerStep(w) ==
  \/ FetchWait(w) \/ FetchTask(w) \/ FetchNull(w)
  \/ CountFetched(w) \/ Stop(w)
  \/ Dispatch(w) \/ Deliver(w)
  \/ AccountStay(w) \/ AccountExit(w)

Next ==
  \/ ClientBegin
  \/ ClientContinue
  \/ \E w \in Threads : WorkerStep(w) \/ SpuriousFetch(w)
  \/ SpuriousClose
  \/ client = "destroyed" /\ UNCHANGED vars

Spec == Init /\ [][Next]_vars

\* The scheduler runs every thread that can run; nothing forces the client to
\* begin a call, and nothing forces a spurious wake-up.
Fairness ==
  /\ WF_vars(ClientContinue)
  /\ \A w \in Threads : WF_vars(WorkerStep(w))

FairSpec == Spec /\ Fairness

----
(* What holds of every reachable state.                                     *)

\* Threads counted as spare, threads with a task counted in current_tasks_.
SparePlaces == {"fetch", "waiting", "fetched", "stopping"}
BusyPlaces  == {"fetched", "dispatch", "deliver", "account"}
LivePlaces  == SparePlaces \cup BusyPlaces

Count(S) == Cardinality({w \in Threads : pc[w] \in S})

StateOK ==
  /\ maxThreads \in 0 .. Cardinality(Threads) /\ maxSpareThreads \in Nat
  /\ queue \in Seq(Tasks \cup {Null}) /\ queueIndex \in SUBSET Tasks
  /\ ready \in Seq(Tasks)
  /\ opened \in BOOLEAN /\ pipe \in 0 .. PipeCapacity
  /\ pc \in [Threads -> {"none", "fetch", "waiting", "fetched", "stopping",
                         "dispatch", "deliver", "account"}]
  /\ held \in [Threads -> Tasks \cup {Null}]
  /\ client \in {"unopened", "open_ready", "idle", "push_queue", "cancel_count", "reading",
                 "close_queue", "close_count", "close_wait", "close_check", "closed", "destroyed"}
  /\ arg \in Tasks \cup {Null}
  /\ swept \in Seq(Tasks)
  /\ callback \in [Tasks -> {"none", "dispatched", "cancelled"}]
  /\ failures \in 0 .. MaxFailures

\* The variables take the values the code gives them; the unsigned counters
\* of the code never go below zero.
TypeOK ==
  /\ StateOK
  /\ spareThreads \in Nat /\ currentThreads \in Nat /\ currentTasks \in Nat

Queued == IF queue = <<Null>> THEN 0 ELSE Len(queue)

\* Tasks the client has counted and not queued, or unqueued and not yet
\* subtracted.
InTransit == IF client \in {"push_queue", "cancel_count"} THEN 1 ELSE Len(swept)

Work == Count(BusyPlaces) + Queued + InTransit

\* The three counters say how many threads and tasks there are, between any
\* two critical sections of any thread; a thread creation that failed is
\* counted in all three for ever (push increments before it creates).
CountersAccounted ==
  /\ spareThreads = Count(SparePlaces) + failures
  /\ currentThreads = Count(LivePlaces) + failures
  /\ currentTasks = Work + failures

\* notify_one never goes astray: as long as some worker sleeps, every queued
\* task has a woken worker on its way to it.
NoLostWakeup == Waiting # {} => Len(queue) <= Count({"fetch"})

Closing == client \in {"close_count", "close_wait", "close_check", "closed", "destroyed"}

\* Until close empties the queue there is a thread for every task, up to
\* max_threads: the retirement test of a worker and the creation test of push
\* agree.  Each failed creation lowers that ceiling by one, for good.
EnoughThreads ==
  ~Closing => \/ Count(LivePlaces) >= Work
              \/ Count(LivePlaces) >= maxThreads - failures

Transit == IF client \in {"push_queue", "cancel_count"} THEN {arg} ELSE {}

\* A task object is in one place only: counted but not queued, in the queue
\* once, in one worker, in the ready list once, or swept out by close. Two
\* threads never call into the same task.
OnePlace ==
  /\ IsInjective(queue) /\ IsInjective(ready) /\ IsInjective(swept)
  /\ \A v, w \in Threads : held[v] = held[w] /\ held[v] # Null => v = w
  /\ Range(held) \cap (Range(queue) \cup Range(ready) \cup Range(swept) \cup Transit) \subseteq {Null}
  /\ Range(queue) \cap (Range(ready) \cup Range(swept) \cup Transit) = {}
  /\ Range(ready) \cap (Range(swept) \cup Transit) = {}
  /\ queueIndex = Range(queue) \ {Null}

\* A task that was pushed and not called yet is where a worker, cancel or
\* close will find it, and what pop returns was dispatched, never cancelled.
CallbackMatches ==
  \A t \in Tasks :
    /\ t \in Range(queue) \cup Range(swept) \cup Transit => callback[t] = "none"
    /\ t \in Range(ready) => callback[t] = "dispatched"
    /\ \A w \in Threads : held[w] = t =>
         callback[t] = IF pc[w] = "deliver" THEN "dispatched" ELSE "none"

\* When close returns no worker is left to touch the object about to be
\* deleted, nothing is queued or running, and info reports zeros.
CloseLeavesNothing ==
  client \in {"closed", "destroyed"} =>
    /\ Live = {}
    /\ counters = <<0, 0, 0>>
    /\ queueIndex = {} /\ Range(held) \subseteq {Null}

----
(* What no step does, and what must happen.                                 *)

\* A pushed task is eventually dispatched, unless it is cancelled: whoever
\* interleaves with whom, no wake-up is lost and no thread retires too early.
EventuallyCalled ==
  \A t \in Tasks : t \in queueIndex ~> callback[t] # "none"

\* close returns, whatever the workers were doing when it was called.
CloseReturns == client = "close_queue" ~> client = "closed"

\* What the client sees of the tasks: no threads, no null pointer, no counts.
Phase == IF client \in {"unopened", "open_ready"} THEN "new"
         ELSE IF Closing THEN "shut" ELSE "open"
Unstarted == IF queue = <<Null>> THEN <<>> ELSE queue
Running == Range(held) \ {Null}

Pool == INSTANCE TaskPool WITH
  phase   <- Phase,
  pending <- Unstarted,
  running <- Running,
  done    <- ready

\* The service implements the pool of TaskPool, and its progress too.
ImplementsPool == Pool!Spec
ImplementsFairPool == Pool!FairSpec
====
