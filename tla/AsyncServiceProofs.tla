---- MODULE AsyncServiceProofs ----
(***************************************************************************)
(* Theorems about AsyncService for any number of threads, tasks and        *)
(* failures, and at the end about the event loop on top of it: the loop is *)
(* one of the clients AsyncService allows, so what is proved of the        *)
(* service holds under it; and the two facts the loop itself relies on,    *)
(* that the pipe tells of every task that is ready, and that its count n   *)
(* is the number of tasks that have not come back.                         *)
(***************************************************************************)
EXTENDS AsyncLoop, SequenceLemmas, FiniteSetTheorems

----
(* Counting.                                                                *)

\* The number of threads at a set of places is a natural number.
LEMMA CountType ==
  ASSUME NEW S
  PROVE  Count(S) \in Nat /\ IsFiniteSet({w \in Threads : pc[w] \in S})
BY ConstantsAssumption, FS_Subset, FS_CardinalityType DEF Count

\* A thread that goes from a place outside S to one in S adds one to the
\* count of S.
LEMMA Enter ==
  ASSUME StateOK, NEW w \in Threads, NEW b, NEW S,
         pc' = [pc EXCEPT ![w] = b], pc[w] \notin S, b \in S
  PROVE  Count(S)' = Count(S) + 1
<1> DEFINE A == {v \in Threads : pc[v] \in S}
           B == {v \in Threads : pc'[v] \in S}
<1>1. IsFiniteSet(A)
  BY CountType
<1>2. B = A \cup {w} /\ w \notin A
  BY DEF StateOK
<1>3. Cardinality(B) = Cardinality(A) + 1
  BY <1>1, <1>2, FS_AddElement
<1> QED BY <1>3 DEF Count

\* A thread that leaves S takes one away from the count of S.
LEMMA Leave ==
  ASSUME StateOK, NEW w \in Threads, NEW b, NEW S,
         pc' = [pc EXCEPT ![w] = b], pc[w] \in S, b \notin S
  PROVE  Count(S)' = Count(S) - 1
<1> DEFINE A == {v \in Threads : pc[v] \in S}
           B == {v \in Threads : pc'[v] \in S}
<1>1. IsFiniteSet(A)
  BY CountType
<1>2. B = A \ {w} /\ w \in A
  BY DEF StateOK
<1>3. Cardinality(B) = Cardinality(A) - 1
  BY <1>1, <1>2, FS_RemoveElement
<1> QED BY <1>3 DEF Count

\* Any other move of a thread leaves the count of S as it is.
LEMMA Stay ==
  ASSUME StateOK, NEW w \in Threads, NEW b, NEW S,
         pc' = [pc EXCEPT ![w] = b], pc[w] \in S <=> b \in S
  PROVE  Count(S)' = Count(S)
<1> DEFINE A == {v \in Threads : pc[v] \in S}
           B == {v \in Threads : pc'[v] \in S}
<1>1. B = A
  BY DEF StateOK
<1>2. Cardinality(B) = Cardinality(A)
  BY <1>1
<1> QED BY <1>2 DEF Count

\* If no thread moves, no count changes.
LEMMA Still ==
  ASSUME UNCHANGED pc, NEW S
  PROVE  Count(S)' = Count(S)
BY DEF Count

\* More places, more threads.
LEMMA CountMono ==
  ASSUME NEW S, NEW T, S \subseteq T
  PROVE  Count(S) <= Count(T)
BY CountType, FS_Subset DEF Count

----
(* What the steps keep about each variable by itself and about the places   *)
(* of the threads and the client.                                           *)

Shape ==
  /\ client \in {"push_queue", "cancel_count"} => arg \in Tasks
  /\ \A w \in Threads : held[w] \in Tasks <=> pc[w] \in {"fetched", "dispatch", "deliver"}
  /\ Closing => queue = <<Null>> /\ queueIndex = {} /\ \A w \in Threads : pc[w] # "waiting"
  /\ ~Closing => queue \in Seq(Tasks) /\ \A w \in Threads : pc[w] # "stopping"
  /\ client # "close_count" => swept = <<>>
  /\ client = "unopened" => \A w \in Threads : pc[w] = "none"

\* The initial state is one the program is built in: typed and in shape.
LEMMA InitShape == Init => StateOK /\ Shape
<1> SUFFICES ASSUME Init PROVE StateOK /\ Shape
  OBVIOUS
<1>1. Cardinality(Threads) \in Nat
  BY ConstantsAssumption, FS_CardinalityType
<1>2. StateOK
  <2>1. /\ maxThreads \in 0 .. Cardinality(Threads) /\ maxSpareThreads \in Nat
        /\ pipe \in 0 .. PipeCapacity /\ failures \in 0 .. MaxFailures
    BY <1>1, ConstantsAssumption DEF Init
  <2>2. /\ queue \in Seq(Tasks \cup {Null}) /\ ready \in Seq(Tasks) /\ swept \in Seq(Tasks)
        /\ queueIndex \in SUBSET Tasks /\ arg \in Tasks \cup {Null}
    BY DEF Init
  <2>3. opened \in BOOLEAN
    BY DEF Init
  <2>4. /\ pc \in [Threads -> {"none", "fetch", "waiting", "fetched", "stopping",
                               "dispatch", "deliver", "account"}]
        /\ held \in [Threads -> Tasks \cup {Null}]
        /\ callback \in [Tasks -> {"none", "dispatched", "cancelled"}]
    BY DEF Init
  <2> QED BY <2>1, <2>2, <2>3, <2>4 DEF Init, StateOK
<1>3. Shape
  BY ConstantsAssumption DEF Init, Shape, Closing
<1> QED BY <1>2, <1>3

\* A limit read from Limits is small enough.
LEMMA LimitsType ==
  ASSUME NEW l \in Limits
  PROVE  l.max \in 0 .. Cardinality(Threads) /\ l.start \in Nat /\ l.spare \in Nat
BY ConstantsAssumption, FS_CardinalityType

\* Every step of the client and of a worker keeps the variables other than
\* the counters in their types.
LEMMA StateStep ==
  ASSUME StateOK, Shape, [Next]_vars
  PROVE  StateOK'
<1> USE ConstantsAssumption DEF StateOK, Shape, Closing
<1>1. ASSUME NEW l \in Limits, OpenThreads(l) PROVE StateOK'
  BY <1>1, LimitsType DEF vars, limits, counters, lists, notice, workers, locals, OpenThreads
<1>2. ASSUME NEW t \in Tasks, PushCount(t) PROVE StateOK'
  BY <1>2 DEF vars, limits, counters, lists, notice, workers, locals, PushCount
<1>3. ASSUME NEW t \in Tasks, PushFails(t) PROVE StateOK'
  BY <1>3 DEF vars, limits, counters, lists, notice, workers, locals, PushFails
<1>4. ASSUME NEW t \in Tasks, CancelQueue(t) PROVE StateOK'
  BY <1>4, RemoveAtElements DEF vars, limits, counters, lists, notice, workers, locals, CancelQueue
<1>5. CASE Pop
  BY <1>5 DEF vars, limits, counters, lists, notice, workers, locals, Pop
<1>6. CASE ReadByte
  BY <1>6 DEF vars, limits, counters, lists, notice, workers, locals, ReadByte
<1>7. CASE CloseReady
  BY <1>7 DEF vars, limits, counters, lists, notice, workers, locals, CloseReady
<1>8. CASE Destroy
  BY <1>8 DEF vars, limits, counters, lists, notice, workers, locals, Destroy
<1>9. CASE OpenReady
  BY <1>9 DEF vars, limits, counters, lists, notice, workers, locals, OpenReady
<1>10. CASE PushQueue
  BY <1>10 DEF vars, limits, counters, lists, notice, workers, locals, PushQueue, NotifyOne, Waiting
<1>11. CASE CancelCount
  BY <1>11 DEF vars, limits, counters, lists, notice, workers, locals, CancelCount
<1>12. CASE ReadReturn
  BY <1>12 DEF vars, limits, counters, lists, notice, workers, locals, ReadReturn
<1>13. CASE CloseQueue
  BY <1>13 DEF vars, limits, counters, lists, notice, workers, locals, CloseQueue
<1>14. CASE CloseCount
  BY <1>14 DEF vars, limits, counters, lists, notice, workers, locals, CloseCount, WaitOrFinish
<1>15. CASE CloseCheck
  BY <1>15 DEF vars, limits, counters, lists, notice, workers, locals, CloseCheck, WaitOrFinish
<1>16. ASSUME NEW w \in Threads, FetchWait(w) PROVE StateOK'
  BY <1>16 DEF vars, limits, counters, lists, notice, workers, locals, FetchWait
<1>17. ASSUME NEW w \in Threads, FetchTask(w) PROVE StateOK'
  BY <1>17 DEF vars, limits, counters, lists, notice, workers, locals, FetchTask
<1>18. ASSUME NEW w \in Threads, FetchNull(w) PROVE StateOK'
  BY <1>18 DEF vars, limits, counters, lists, notice, workers, locals, FetchNull
<1>19. ASSUME NEW w \in Threads, CountFetched(w) PROVE StateOK'
  BY <1>19 DEF vars, limits, counters, lists, notice, workers, locals, CountFetched
<1>20. ASSUME NEW w \in Threads, Stop(w) PROVE StateOK'
  BY <1>20 DEF vars, limits, counters, lists, notice, workers, locals, Stop, NotifyClose
<1>21. ASSUME NEW w \in Threads, Dispatch(w) PROVE StateOK'
  BY <1>21 DEF vars, limits, counters, lists, notice, workers, locals, Dispatch
<1>22. ASSUME NEW w \in Threads, Deliver(w) PROVE StateOK'
  BY <1>22 DEF vars, limits, counters, lists, notice, workers, locals, Deliver
<1>23. ASSUME NEW w \in Threads, AccountStay(w) PROVE StateOK'
  BY <1>23 DEF vars, limits, counters, lists, notice, workers, locals, AccountStay
<1>24. ASSUME NEW w \in Threads, AccountExit(w) PROVE StateOK'
  BY <1>24 DEF vars, limits, counters, lists, notice, workers, locals, AccountExit, NotifyClose
<1>25. ASSUME NEW w \in Threads, SpuriousFetch(w) PROVE StateOK'
  BY <1>25 DEF vars, limits, counters, lists, notice, workers, locals, SpuriousFetch
<1>26. CASE SpuriousClose
  BY <1>26 DEF vars, limits, counters, lists, notice, workers, locals, SpuriousClose
<1>27. CASE UNCHANGED vars
  BY <1>27 DEF vars, limits, counters, lists, notice, workers, locals
<1> QED
  BY <1>1, <1>2, <1>3, <1>4, <1>5, <1>6, <1>7, <1>8, <1>9, <1>10, <1>11, <1>12, <1>13, <1>14, <1>15, <1>16, <1>17, <1>18, <1>19, <1>20, <1>21, <1>22, <1>23, <1>24, <1>25, <1>26, <1>27 DEF Next, ClientBegin, ClientContinue, WorkerStep

\* Every step keeps the places, the local tasks and the queue in step with
\* each other: after close swaps the queue nobody sleeps and nobody refills it.
LEMMA ShapeStep ==
  ASSUME StateOK, Shape, [Next]_vars
  PROVE  Shape'
<1> USE ConstantsAssumption DEF StateOK, Shape, Closing
<1>1. ASSUME NEW l \in Limits, OpenThreads(l) PROVE Shape'
  BY <1>1 DEF vars, limits, counters, lists, notice, workers, locals, OpenThreads
<1>2. ASSUME NEW t \in Tasks, PushCount(t) PROVE Shape'
  <2>1. /\ client = "idle" /\ client' = "push_queue" /\ arg' = t
        /\ UNCHANGED <<queue, queueIndex, held, swept>>
    BY <1>2 DEF PushCount, lists
  <2>2. UNCHANGED pc \/ \E w \in Absent : pc' = [pc EXCEPT ![w] = "fetch"]
    BY <1>2 DEF PushCount
  <2> QED BY <2>1, <2>2 DEF Absent
<1>3. ASSUME NEW t \in Tasks, PushFails(t) PROVE Shape'
  BY <1>3 DEF vars, limits, counters, lists, notice, workers, locals, PushFails
<1>4. ASSUME NEW t \in Tasks, CancelQueue(t) PROVE Shape'
  BY <1>4, RemoveAtElements DEF vars, limits, counters, lists, notice, workers, locals, CancelQueue
<1>5. CASE Pop
  BY <1>5 DEF vars, limits, counters, lists, notice, workers, locals, Pop
<1>6. CASE ReadByte
  BY <1>6 DEF vars, limits, counters, lists, notice, workers, locals, ReadByte
<1>7. CASE CloseReady
  BY <1>7 DEF vars, limits, counters, lists, notice, workers, locals, CloseReady
<1>8. CASE Destroy
  BY <1>8 DEF vars, limits, counters, lists, notice, workers, locals, Destroy
<1>9. CASE OpenReady
  BY <1>9 DEF vars, limits, counters, lists, notice, workers, locals, OpenReady
<1>10. CASE PushQueue
  BY <1>10 DEF vars, limits, counters, lists, notice, workers, locals, PushQueue, NotifyOne, Waiting
<1>11. CASE CancelCount
  BY <1>11 DEF vars, limits, counters, lists, notice, workers, locals, CancelCount
<1>12. CASE ReadReturn
  BY <1>12 DEF vars, limits, counters, lists, notice, workers, locals, ReadReturn
<1>13. CASE CloseQueue
  BY <1>13 DEF vars, limits, counters, lists, notice, workers, locals, CloseQueue, Waiting
<1>14. CASE CloseCount
  BY <1>14 DEF vars, limits, counters, lists, notice, workers, locals, CloseCount, WaitOrFinish
<1>15. CASE CloseCheck
  BY <1>15 DEF vars, limits, counters, lists, notice, workers, locals, CloseCheck, WaitOrFinish
<1>16. ASSUME NEW w \in Threads, FetchWait(w) PROVE Shape'
  BY <1>16 DEF vars, limits, counters, lists, notice, workers, locals, FetchWait
<1>17. ASSUME NEW w \in Threads, FetchTask(w) PROVE Shape'
  BY <1>17 DEF vars, limits, counters, lists, notice, workers, locals, FetchTask
<1>18. ASSUME NEW w \in Threads, FetchNull(w) PROVE Shape'
  BY <1>18 DEF vars, limits, counters, lists, notice, workers, locals, FetchNull
<1>19. ASSUME NEW w \in Threads, CountFetched(w) PROVE Shape'
  BY <1>19 DEF vars, limits, counters, lists, notice, workers, locals, CountFetched
<1>20. ASSUME NEW w \in Threads, Stop(w) PROVE Shape'
  BY <1>20 DEF vars, limits, counters, lists, notice, workers, locals, Stop, NotifyClose
<1>21. ASSUME NEW w \in Threads, Dispatch(w) PROVE Shape'
  BY <1>21 DEF vars, limits, counters, lists, notice, workers, locals, Dispatch
<1>22. ASSUME NEW w \in Threads, Deliver(w) PROVE Shape'
  BY <1>22 DEF vars, limits, counters, lists, notice, workers, locals, Deliver
<1>23. ASSUME NEW w \in Threads, AccountStay(w) PROVE Shape'
  BY <1>23 DEF vars, limits, counters, lists, notice, workers, locals, AccountStay
<1>24. ASSUME NEW w \in Threads, AccountExit(w) PROVE Shape'
  BY <1>24 DEF vars, limits, counters, lists, notice, workers, locals, AccountExit, NotifyClose
<1>25. ASSUME NEW w \in Threads, SpuriousFetch(w) PROVE Shape'
  BY <1>25 DEF vars, limits, counters, lists, notice, workers, locals, SpuriousFetch
<1>26. CASE SpuriousClose
  BY <1>26 DEF vars, limits, counters, lists, notice, workers, locals, SpuriousClose
<1>27. CASE UNCHANGED vars
  BY <1>27 DEF vars, limits, counters, lists, notice, workers, locals
<1> QED
  BY <1>1, <1>2, <1>3, <1>4, <1>5, <1>6, <1>7, <1>8, <1>9, <1>10, <1>11, <1>12, <1>13, <1>14, <1>15, <1>16, <1>17, <1>18, <1>19, <1>20, <1>21, <1>22, <1>23, <1>24, <1>25, <1>26, <1>27 DEF Next, ClientBegin, ClientContinue, WorkerStep

----
(* The counters.                                                            *)

\* The quantities the counters stand for are natural numbers.
LEMMA CountsInNat ==
  ASSUME StateOK
  PROVE  /\ Count(SparePlaces) \in Nat /\ Count(BusyPlaces) \in Nat /\ Count(LivePlaces) \in Nat
         /\ Queued \in Nat /\ InTransit \in Nat /\ Len(swept) \in Nat /\ failures \in Nat
<1>1. Queued \in Nat /\ Len(swept) \in Nat /\ failures \in Nat
  BY ConstantsAssumption DEF StateOK, Queued
<1>2. InTransit \in Nat
  BY <1>1 DEF InTransit
<1> QED BY <1>1, <1>2, CountType

\* Only close puts the null pointer into the queue.
LEMMA NotNull ==
  ASSUME NEW q \in Seq(Tasks)
  PROVE  q # <<Null>>
<1> SUFFICES ASSUME q = <<Null>> PROVE FALSE
  OBVIOUS
<1>1. 1 \in 1 .. Len(q) /\ q[1] = Null
  OBVIOUS
<1>2. q[1] \in Tasks
  BY <1>1, ElementOfSeq
<1> QED BY <1>1, <1>2, ConstantsAssumption

\* The constructor counts nothing, and there is nothing.
LEMMA InitAccount == Init => CountersAccounted
<1> SUFFICES ASSUME Init PROVE CountersAccounted
  OBVIOUS
<1>1. /\ {w \in Threads : pc[w] \in SparePlaces} = {} /\ {w \in Threads : pc[w] \in BusyPlaces} = {}
      /\ {w \in Threads : pc[w] \in LivePlaces} = {}
  BY DEF Init, SparePlaces, BusyPlaces, LivePlaces
<1>2. Count(SparePlaces) = 0 /\ Count(BusyPlaces) = 0 /\ Count(LivePlaces) = 0
  BY <1>1, FS_EmptySet DEF Count
<1>3. Queued = 0 /\ InTransit = 0
  BY DEF Init, Queued, InTransit
<1> QED BY <1>2, <1>3 DEF Init, CountersAccounted, Work

\* A counter that is accounted for has not wrapped below zero.
LEMMA CountersInNat ==
  ASSUME StateOK, CountersAccounted
  PROVE  spareThreads \in Nat /\ currentThreads \in Nat /\ currentTasks \in Nat /\ Work \in Nat
<1>1. Work \in Nat
  BY CountsInNat DEF Work
<1> QED BY <1>1, CountsInNat DEF CountersAccounted

\* Steps that touch nothing the counters are about.
LEMMA Unmoved ==
  ASSUME CountersAccounted, UNCHANGED <<counters, pc, queue, swept, failures>>, InTransit' = InTransit
  PROVE  CountersAccounted'
<1>1. Queued' = Queued
  BY DEF Queued
<1>2. /\ Count(SparePlaces)' = Count(SparePlaces)
      /\ Count(BusyPlaces)' = Count(BusyPlaces)
      /\ Count(LivePlaces)' = Count(LivePlaces)
  BY Still
<1> QED BY <1>1, <1>2 DEF CountersAccounted, Work, counters

\* Every step changes each counter by exactly what it changes in the threads
\* and tasks the counter stands for.
LEMMA AccountStep ==
  ASSUME StateOK, Shape, CountersAccounted, [Next]_vars
  PROVE  CountersAccounted'
<1>s. spareThreads = Count(SparePlaces) + failures /\ Count(SparePlaces) \in Nat /\ failures \in Nat
  BY CountsInNat DEF CountersAccounted
<1>l. currentThreads = Count(LivePlaces) + failures /\ Count(LivePlaces) \in Nat /\ failures \in Nat
  BY CountsInNat DEF CountersAccounted
<1>k. currentTasks = Work + failures /\ Work \in Nat /\ failures \in Nat
  BY CountsInNat, CountersInNat DEF CountersAccounted
<1>w. Count(BusyPlaces) \in Nat /\ Queued \in Nat /\ InTransit \in Nat /\ Len(swept) \in Nat
  BY CountsInNat
<1>1. ASSUME NEW l \in Limits, OpenThreads(l) PROVE CountersAccounted'
  <2>1. PICK S \in SUBSET Absent :
          /\ Cardinality(S) = l.start
          /\ pc' = [w \in Threads |-> IF w \in S THEN "fetch" ELSE pc[w]]
    BY <1>1 DEF OpenThreads
  <2>2. /\ spareThreads' = spareThreads + l.start /\ currentThreads' = currentThreads + l.start
        /\ UNCHANGED <<currentTasks, failures, queue, swept>>
        /\ client = "unopened" /\ client' = "open_ready"
    BY <1>1 DEF OpenThreads, lists
  <2>3. \A w \in Threads : pc[w] = "none"
    BY <2>2 DEF Shape
  <2>4. /\ {w \in Threads : pc[w] \in SparePlaces} = {} /\ {w \in Threads : pc'[w] \in SparePlaces} = S
        /\ {w \in Threads : pc[w] \in BusyPlaces} = {} /\ {w \in Threads : pc'[w] \in BusyPlaces} = {}
        /\ {w \in Threads : pc[w] \in LivePlaces} = {} /\ {w \in Threads : pc'[w] \in LivePlaces} = S
    BY <2>1, <2>3 DEF Absent, SparePlaces, BusyPlaces, LivePlaces
  <2>5. /\ Count(SparePlaces) = 0 /\ Count(SparePlaces)' = l.start
        /\ Count(BusyPlaces) = 0 /\ Count(BusyPlaces)' = 0
        /\ Count(LivePlaces) = 0 /\ Count(LivePlaces)' = l.start
    BY <2>1, <2>4, FS_EmptySet DEF Count
  <2>6. Queued' = Queued /\ InTransit' = InTransit
    BY <2>2 DEF Queued, InTransit
  <2>7. Work' = Work
    BY <2>5, <2>6, <1>w DEF Work
  <2>8. (spareThreads = Count(SparePlaces) + failures)'
    BY <2>2, LimitsType, <2>5, <1>s
  <2>9. (currentThreads = Count(LivePlaces) + failures)'
    BY <2>2, LimitsType, <2>5, <1>l
  <2>10. (currentTasks = Work + failures)'
    BY <2>2, LimitsType, <2>7, <1>k, <1>w
  <2> QED BY <2>8, <2>9, <2>10 DEF CountersAccounted
<1>2. ASSUME NEW t \in Tasks, PushCount(t) PROVE CountersAccounted'
  <2>1. /\ currentTasks' = currentTasks + 1
        /\ UNCHANGED <<failures, queue, swept>>
        /\ client = "idle" /\ client' = "push_queue"
    BY <1>2 DEF PushCount, lists
  <2>2. Queued' = Queued
    BY <2>1 DEF Queued
  <2>3. InTransit = 0 /\ InTransit' = 1
    BY <2>1 DEF InTransit, Shape
  <2>4. CASE NeedsThread
    <3>1. spareThreads' = spareThreads + 1 /\ currentThreads' = currentThreads + 1
      BY <1>2, <2>4 DEF PushCount
    <3>2. PICK w \in Threads : pc[w] = "none" /\ pc' = [pc EXCEPT ![w] = "fetch"]
      BY <1>2, <2>4 DEF PushCount, Absent
    <3>3. Count(SparePlaces)' = Count(SparePlaces) + 1
      BY <3>2, Enter DEF SparePlaces
    <3>4. Count(BusyPlaces)' = Count(BusyPlaces)
      BY <3>2, Stay DEF BusyPlaces
    <3>5. Count(LivePlaces)' = Count(LivePlaces) + 1
      BY <3>2, Enter DEF LivePlaces, SparePlaces, BusyPlaces
    <3>6. Work' = Work + 1
      BY <2>2, <2>3, <3>4, <1>w DEF Work
    <3>7. (spareThreads = Count(SparePlaces) + failures)'
      BY <2>1, <3>1, <3>3, <1>s
    <3>8. (currentThreads = Count(LivePlaces) + failures)'
      BY <2>1, <3>1, <3>5, <1>l
    <3>9. (currentTasks = Work + failures)'
      BY <2>1, <3>1, <3>6, <1>k, <1>w
    <3> QED BY <3>7, <3>8, <3>9 DEF CountersAccounted
  <2>5. CASE ~NeedsThread
    <3>1. UNCHANGED <<spareThreads, currentThreads, pc>>
      BY <1>2, <2>5 DEF PushCount
    <3>2. Count(SparePlaces)' = Count(SparePlaces) /\ Count(BusyPlaces)' = Count(BusyPlaces)
          /\ Count(LivePlaces)' = Count(LivePlaces)
      BY <3>1, Still
    <3>3. Work' = Work + 1
      BY <2>2, <2>3, <3>2, <1>w DEF Work
    <3>4. (spareThreads = Count(SparePlaces) + failures)'
      BY <2>1, <3>1, <3>2, <1>s
    <3>5. (currentThreads = Count(LivePlaces) + failures)'
      BY <2>1, <3>1, <3>2, <1>l
    <3>6. (currentTasks = Work + failures)'
      BY <2>1, <3>1, <3>3, <1>k, <1>w
    <3> QED BY <3>4, <3>5, <3>6 DEF CountersAccounted
  <2> QED BY <2>4, <2>5
<1>3. ASSUME NEW t \in Tasks, PushFails(t) PROVE CountersAccounted'
  <2>1. /\ spareThreads' = spareThreads + 1 /\ currentThreads' = currentThreads + 1
        /\ currentTasks' = currentTasks + 1 /\ failures' = failures + 1
        /\ UNCHANGED <<pc, queue, client, swept>>
    BY <1>3 DEF PushFails, lists, workers, locals
  <2>2. Count(SparePlaces)' = Count(SparePlaces) /\ Count(BusyPlaces)' = Count(BusyPlaces)
        /\ Count(LivePlaces)' = Count(LivePlaces)
    BY <2>1, Still
  <2>3. Queued' = Queued /\ InTransit' = InTransit
    BY <2>1 DEF Queued, InTransit
  <2>4. Work' = Work
    BY <2>2, <2>3, <1>w DEF Work
  <2>5. (spareThreads = Count(SparePlaces) + failures)'
    BY <2>1, <2>2, <1>s
  <2>6. (currentThreads = Count(LivePlaces) + failures)'
    BY <2>1, <2>2, <1>l
  <2>7. (currentTasks = Work + failures)'
    BY <2>1, <2>4, <1>k, <1>w
  <2> QED BY <2>5, <2>6, <2>7 DEF CountersAccounted
<1>4. ASSUME NEW t \in Tasks, CancelQueue(t) PROVE CountersAccounted'
  <2>1. /\ UNCHANGED <<spareThreads, currentThreads, currentTasks, failures, pc, swept>>
        /\ client = "idle" /\ client' = "cancel_count"
    BY <1>4 DEF CancelQueue, lists, workers, locals, counters
  <2>2. Count(SparePlaces)' = Count(SparePlaces) /\ Count(BusyPlaces)' = Count(BusyPlaces)
        /\ Count(LivePlaces)' = Count(LivePlaces)
    BY <2>1, Still
  <2>3. PICK i \in DOMAIN queue : queue' = RemoveAt(queue, i)
    BY <1>4 DEF CancelQueue
  <2>4. queue \in Seq(Tasks) /\ queue' \in Seq(Tasks) /\ Len(queue') = Len(queue) - 1
    BY <2>1, <2>3, RemoveAtElements DEF Shape, Closing
  <2>5. Queued' = Queued - 1
    BY <2>4, ConstantsAssumption DEF Queued
  <2>6. InTransit = 0 /\ InTransit' = 1
    BY <2>1 DEF InTransit, Shape
  <2>7. Work' = Work
    BY <2>2, <2>5, <2>6, <1>w DEF Work
  <2>8. (spareThreads = Count(SparePlaces) + failures)'
    BY <2>1, <2>2, <1>s
  <2>9. (currentThreads = Count(LivePlaces) + failures)'
    BY <2>1, <2>2, <1>l
  <2>10. (currentTasks = Work + failures)'
    BY <2>1, <2>7, <1>k, <1>w
  <2> QED BY <2>8, <2>9, <2>10 DEF CountersAccounted
<1>5. CASE Pop
  BY <1>5, Unmoved DEF vars, counters, lists, notice, workers, locals, InTransit, Pop
<1>6. CASE ReadByte
  BY <1>6, Unmoved DEF vars, counters, lists, notice, workers, locals, InTransit, ReadByte
<1>7. CASE CloseReady
  BY <1>7, Unmoved DEF vars, counters, lists, notice, workers, locals, InTransit, CloseReady
<1>8. CASE Destroy
  BY <1>8, Unmoved DEF vars, counters, lists, notice, workers, locals, InTransit, Destroy
<1>9. CASE OpenReady
  BY <1>9, Unmoved DEF vars, counters, lists, notice, workers, locals, InTransit, OpenReady
<1>10. CASE PushQueue
  <2>1. /\ UNCHANGED <<spareThreads, currentThreads, currentTasks, failures, swept>>
        /\ queue' = Append(queue, arg)
        /\ client = "push_queue" /\ client' = "idle"
    BY <1>10 DEF PushQueue, counters
  <2>2. queue \in Seq(Tasks) /\ arg \in Tasks
    BY <2>1 DEF Shape, Closing
  <2>3. queue # <<Null>> /\ queue' # <<Null>> /\ Len(queue') = Len(queue) + 1
    BY <2>1, <2>2, NotNull, AppendProperties
  <2>4. Queued' = Queued + 1
    BY <2>3 DEF Queued
  <2>5. InTransit = 1 /\ InTransit' = 0
    BY <2>1 DEF InTransit, Shape
  <2>6. /\ Count(SparePlaces)' = Count(SparePlaces)
        /\ Count(BusyPlaces)' = Count(BusyPlaces)
        /\ Count(LivePlaces)' = Count(LivePlaces)
    <3>1. CASE UNCHANGED pc
      BY <3>1, Still
    <3>2. CASE \E w \in Waiting : pc' = [pc EXCEPT ![w] = "fetch"]
      <4>1. PICK w \in Threads : pc[w] = "waiting" /\ pc' = [pc EXCEPT ![w] = "fetch"]
        BY <3>2 DEF Waiting
      <4>2. Count(SparePlaces)' = Count(SparePlaces)
        BY <4>1, Stay DEF SparePlaces
      <4>3. Count(BusyPlaces)' = Count(BusyPlaces)
        BY <4>1, Stay DEF BusyPlaces
      <4>4. Count(LivePlaces)' = Count(LivePlaces)
        BY <4>1, Stay DEF LivePlaces, SparePlaces, BusyPlaces
      <4> QED BY <4>2, <4>3, <4>4
    <3> QED BY <1>10, <3>1, <3>2 DEF PushQueue, NotifyOne
  <2>7. Work' = Work
    BY <2>4, <2>5, <2>6, <1>w DEF Work
  <2>8. (spareThreads = Count(SparePlaces) + failures)'
    BY <2>1, <2>6, <1>s
  <2>9. (currentThreads = Count(LivePlaces) + failures)'
    BY <2>1, <2>6, <1>l
  <2>10. (currentTasks = Work + failures)'
    BY <2>1, <2>7, <1>k, <1>w
  <2> QED BY <2>8, <2>9, <2>10 DEF CountersAccounted
<1>11. CASE CancelCount
  <2>1. /\ currentTasks' = currentTasks - 1
        /\ UNCHANGED <<spareThreads, currentThreads, failures, pc, queue, swept>>
        /\ client = "cancel_count" /\ client' = "idle"
    BY <1>11 DEF CancelCount, lists, workers, locals, counters
  <2>2. Count(SparePlaces)' = Count(SparePlaces) /\ Count(BusyPlaces)' = Count(BusyPlaces)
        /\ Count(LivePlaces)' = Count(LivePlaces)
    BY <2>1, Still
  <2>3. Queued' = Queued
    BY <2>1 DEF Queued
  <2>4. InTransit = 1 /\ InTransit' = 0
    BY <2>1 DEF InTransit, Shape
  <2>5. Work' = Work - 1
    BY <2>2, <2>3, <2>4, <1>w DEF Work
  <2>6. (spareThreads = Count(SparePlaces) + failures)'
    BY <2>1, <2>2, <1>s
  <2>7. (currentThreads = Count(LivePlaces) + failures)'
    BY <2>1, <2>2, <1>l
  <2>8. (currentTasks = Work + failures)'
    BY <2>1, <2>5, <1>k, <1>w
  <2> QED BY <2>6, <2>7, <2>8 DEF CountersAccounted
<1>12. CASE ReadReturn
  BY <1>12, Unmoved DEF vars, counters, lists, notice, workers, locals, InTransit, ReadReturn
<1>13. CASE CloseQueue
  <2>1. /\ UNCHANGED <<spareThreads, currentThreads, currentTasks, failures>>
        /\ swept' = queue /\ queue' = <<Null>>
        /\ client = "close_queue" /\ client' = "close_count"
        /\ pc' = [w \in Threads |-> IF w \in Waiting THEN "fetch" ELSE pc[w]]
    BY <1>13 DEF CloseQueue, counters
  <2>2. queue \in Seq(Tasks) /\ queue # <<Null>>
    BY <2>1, ConstantsAssumption DEF Shape, Closing
  <2>3. Queued = Len(queue) /\ Queued' = 0
    BY <2>1, <2>2 DEF Queued
  <2>4. InTransit = 0 /\ InTransit' = Len(queue)
    BY <2>1 DEF InTransit, Shape
  <2>5. /\ {w \in Threads : pc'[w] \in SparePlaces} = {w \in Threads : pc[w] \in SparePlaces}
        /\ {w \in Threads : pc'[w] \in BusyPlaces} = {w \in Threads : pc[w] \in BusyPlaces}
        /\ {w \in Threads : pc'[w] \in LivePlaces} = {w \in Threads : pc[w] \in LivePlaces}
    BY <2>1 DEF Waiting, SparePlaces, BusyPlaces, LivePlaces
  <2>6. /\ Count(SparePlaces)' = Count(SparePlaces)
        /\ Count(BusyPlaces)' = Count(BusyPlaces)
        /\ Count(LivePlaces)' = Count(LivePlaces)
    BY <2>5 DEF Count
  <2>7. Work' = Work
    BY <2>1, <2>3, <2>4, <2>6, <1>w DEF Work
  <2>8. (spareThreads = Count(SparePlaces) + failures)'
    BY <2>1, <2>6, <1>s
  <2>9. (currentThreads = Count(LivePlaces) + failures)'
    BY <2>1, <2>6, <1>l
  <2>10. (currentTasks = Work + failures)'
    BY <2>1, <2>7, <1>k, <1>w
  <2> QED BY <2>8, <2>9, <2>10 DEF CountersAccounted
<1>14. CASE CloseCount
  <2>1. /\ currentTasks' = currentTasks - Len(swept)
        /\ UNCHANGED <<spareThreads, currentThreads, failures, pc, queue>>
        /\ swept' = <<>>
        /\ client = "close_count" /\ client' \in {"close_wait", "closed"}
    BY <1>14 DEF CloseCount, WaitOrFinish, lists, workers, locals, counters
  <2>2. Count(SparePlaces)' = Count(SparePlaces) /\ Count(BusyPlaces)' = Count(BusyPlaces)
        /\ Count(LivePlaces)' = Count(LivePlaces)
    BY <2>1, Still
  <2>3. Queued' = Queued
    BY <2>1 DEF Queued
  <2>4. InTransit = Len(swept) /\ InTransit' = 0
    BY <2>1 DEF InTransit
  <2>5. Work' = Work - Len(swept)
    BY <2>2, <2>3, <2>4, <1>w DEF Work
  <2>6. (spareThreads = Count(SparePlaces) + failures)'
    BY <2>1, <2>2, <1>s
  <2>7. (currentThreads = Count(LivePlaces) + failures)'
    BY <2>1, <2>2, <1>l
  <2>8. (currentTasks = Work + failures)'
    BY <2>1, <2>5, <1>k, <1>w
  <2> QED BY <2>6, <2>7, <2>8 DEF CountersAccounted
<1>15. CASE CloseCheck
  BY <1>15, Unmoved DEF vars, counters, lists, notice, workers, locals, InTransit, CloseCheck, WaitOrFinish
<1>16. ASSUME NEW w \in Threads, FetchWait(w) PROVE CountersAccounted'
  <2>1. w \in Threads /\ pc[w] = "fetch" /\ pc' = [pc EXCEPT ![w] = "waiting"]
    BY <1>16 DEF FetchWait
  <2>2. Count(SparePlaces)' = Count(SparePlaces)
    BY <2>1, Stay DEF SparePlaces
  <2>3. Count(BusyPlaces)' = Count(BusyPlaces)
    BY <2>1, Stay DEF BusyPlaces
  <2>4. Count(LivePlaces)' = Count(LivePlaces)
    BY <2>1, Stay DEF LivePlaces, SparePlaces, BusyPlaces
  <2>5. UNCHANGED <<spareThreads, currentThreads, currentTasks, failures, swept, queue, client>>
    BY <1>16 DEF FetchWait, counters, lists, locals
  <2>6. Queued' = Queued /\ InTransit' = InTransit
    BY <2>5 DEF Queued, InTransit
  <2>7. Work' = Work
    BY <2>3, <2>6, <1>w DEF Work
  <2>8. (spareThreads = Count(SparePlaces) + failures)'
    BY <2>5, <2>2, <1>s
  <2>9. (currentThreads = Count(LivePlaces) + failures)'
    BY <2>5, <2>4, <1>l
  <2>10. (currentTasks = Work + failures)'
    BY <2>5, <2>7, <1>k, <1>w
  <2> QED BY <2>8, <2>9, <2>10 DEF CountersAccounted
<1>17. ASSUME NEW w \in Threads, FetchTask(w) PROVE CountersAccounted'
  <2>1. w \in Threads /\ pc[w] = "fetch" /\ pc' = [pc EXCEPT ![w] = "fetched"]
    BY <1>17 DEF FetchTask
  <2>2. Count(SparePlaces)' = Count(SparePlaces)
    BY <2>1, Stay DEF SparePlaces
  <2>3. Count(BusyPlaces)' = Count(BusyPlaces) + 1
    BY <2>1, Enter DEF BusyPlaces
  <2>4. Count(LivePlaces)' = Count(LivePlaces)
    BY <2>1, Stay DEF LivePlaces, SparePlaces, BusyPlaces
  <2>5. UNCHANGED <<spareThreads, currentThreads, currentTasks, failures, swept, client>>
    BY <1>17 DEF FetchTask, counters, lists, locals
  <2>6. queue \in Seq(Tasks) /\ queue # <<>> /\ queue' = Tail(queue)
    BY <1>17 DEF FetchTask, StateOK, Shape, Closing
  <2>7. Queued' = Queued - 1
    BY <2>6, NotNull, HeadTailProperties DEF Queued
  <2>8. InTransit' = InTransit
    BY <2>5 DEF InTransit
  <2>9. Work' = Work
    BY <2>3, <2>7, <2>8, <1>w DEF Work
  <2>10. (spareThreads = Count(SparePlaces) + failures)'
    BY <2>5, <2>2, <1>s
  <2>11. (currentThreads = Count(LivePlaces) + failures)'
    BY <2>5, <2>4, <1>l
  <2>12. (currentTasks = Work + failures)'
    BY <2>5, <2>9, <1>k, <1>w
  <2> QED BY <2>10, <2>11, <2>12 DEF CountersAccounted
<1>18. ASSUME NEW w \in Threads, FetchNull(w) PROVE CountersAccounted'
  <2>1. w \in Threads /\ pc[w] = "fetch" /\ pc' = [pc EXCEPT ![w] = "stopping"]
    BY <1>18 DEF FetchNull
  <2>2. Count(SparePlaces)' = Count(SparePlaces)
    BY <2>1, Stay DEF SparePlaces
  <2>3. Count(BusyPlaces)' = Count(BusyPlaces)
    BY <2>1, Stay DEF BusyPlaces
  <2>4. Count(LivePlaces)' = Count(LivePlaces)
    BY <2>1, Stay DEF LivePlaces, SparePlaces, BusyPlaces
  <2>5. UNCHANGED <<spareThreads, currentThreads, currentTasks, failures, swept, queue, client>>
    BY <1>18 DEF FetchNull, counters, lists, locals
  <2>6. Queued' = Queued /\ InTransit' = InTransit
    BY <2>5 DEF Queued, InTransit
  <2>7. Work' = Work
    BY <2>3, <2>6, <1>w DEF Work
  <2>8. (spareThreads = Count(SparePlaces) + failures)'
    BY <2>5, <2>2, <1>s
  <2>9. (currentThreads = Count(LivePlaces) + failures)'
    BY <2>5, <2>4, <1>l
  <2>10. (currentTasks = Work + failures)'
    BY <2>5, <2>7, <1>k, <1>w
  <2> QED BY <2>8, <2>9, <2>10 DEF CountersAccounted
<1>19. ASSUME NEW w \in Threads, CountFetched(w) PROVE CountersAccounted'
  <2>1. w \in Threads /\ pc[w] = "fetched" /\ pc' = [pc EXCEPT ![w] = "dispatch"]
    BY <1>19 DEF CountFetched
  <2>2. Count(SparePlaces)' = Count(SparePlaces) - 1
    BY <2>1, Leave DEF SparePlaces
  <2>3. Count(BusyPlaces)' = Count(BusyPlaces)
    BY <2>1, Stay DEF BusyPlaces
  <2>4. Count(LivePlaces)' = Count(LivePlaces)
    BY <2>1, Stay DEF LivePlaces, SparePlaces, BusyPlaces
  <2>5. /\ spareThreads' = spareThreads - 1
        /\ UNCHANGED <<currentThreads, currentTasks, failures, swept, queue, client>>
    BY <1>19 DEF CountFetched, counters, lists, locals
  <2>6. Queued' = Queued /\ InTransit' = InTransit
    BY <2>5 DEF Queued, InTransit
  <2>7. Work' = Work
    BY <2>3, <2>6, <1>w DEF Work
  <2>8. (spareThreads = Count(SparePlaces) + failures)'
    BY <2>5, <2>2, <1>s
  <2>9. (currentThreads = Count(LivePlaces) + failures)'
    BY <2>5, <2>4, <1>l
  <2>10. (currentTasks = Work + failures)'
    BY <2>5, <2>7, <1>k, <1>w
  <2> QED BY <2>8, <2>9, <2>10 DEF CountersAccounted
<1>20. ASSUME NEW w \in Threads, Stop(w) PROVE CountersAccounted'
  <2>1. w \in Threads /\ pc[w] = "stopping" /\ pc' = [pc EXCEPT ![w] = "none"]
    BY <1>20 DEF Stop
  <2>2. Count(SparePlaces)' = Count(SparePlaces) - 1
    BY <2>1, Leave DEF SparePlaces
  <2>3. Count(BusyPlaces)' = Count(BusyPlaces)
    BY <2>1, Stay DEF BusyPlaces
  <2>4. Count(LivePlaces)' = Count(LivePlaces) - 1
    BY <2>1, Leave DEF LivePlaces, SparePlaces, BusyPlaces
  <2>5. /\ spareThreads' = spareThreads - 1 /\ currentThreads' = currentThreads - 1
        /\ UNCHANGED <<currentTasks, failures, swept, queue>>
        /\ client' = NotifyClose
    BY <1>20 DEF Stop, counters, lists, locals
  <2>6. Queued' = Queued /\ InTransit' = InTransit
    BY <2>5 DEF Queued, InTransit, NotifyClose
  <2>7. Work' = Work
    BY <2>3, <2>6, <1>w DEF Work
  <2>8. (spareThreads = Count(SparePlaces) + failures)'
    BY <2>5, <2>2, <1>s
  <2>9. (currentThreads = Count(LivePlaces) + failures)'
    BY <2>5, <2>4, <1>l
  <2>10. (currentTasks = Work + failures)'
    BY <2>5, <2>7, <1>k, <1>w
  <2> QED BY <2>8, <2>9, <2>10 DEF CountersAccounted
<1>21. ASSUME NEW w \in Threads, Dispatch(w) PROVE CountersAccounted'
  <2>1. w \in Threads /\ pc[w] = "dispatch" /\ pc' = [pc EXCEPT ![w] = "deliver"]
    BY <1>21 DEF Dispatch
  <2>2. Count(SparePlaces)' = Count(SparePlaces)
    BY <2>1, Stay DEF SparePlaces
  <2>3. Count(BusyPlaces)' = Count(BusyPlaces)
    BY <2>1, Stay DEF BusyPlaces
  <2>4. Count(LivePlaces)' = Count(LivePlaces)
    BY <2>1, Stay DEF LivePlaces, SparePlaces, BusyPlaces
  <2>5. UNCHANGED <<spareThreads, currentThreads, currentTasks, failures, swept, queue, client>>
    BY <1>21 DEF Dispatch, counters, lists, locals
  <2>6. Queued' = Queued /\ InTransit' = InTransit
    BY <2>5 DEF Queued, InTransit
  <2>7. Work' = Work
    BY <2>3, <2>6, <1>w DEF Work
  <2>8. (spareThreads = Count(SparePlaces) + failures)'
    BY <2>5, <2>2, <1>s
  <2>9. (currentThreads = Count(LivePlaces) + failures)'
    BY <2>5, <2>4, <1>l
  <2>10. (currentTasks = Work + failures)'
    BY <2>5, <2>7, <1>k, <1>w
  <2> QED BY <2>8, <2>9, <2>10 DEF CountersAccounted
<1>22. ASSUME NEW w \in Threads, Deliver(w) PROVE CountersAccounted'
  <2>1. w \in Threads /\ pc[w] = "deliver" /\ pc' = [pc EXCEPT ![w] = "account"]
    BY <1>22 DEF Deliver
  <2>2. Count(SparePlaces)' = Count(SparePlaces)
    BY <2>1, Stay DEF SparePlaces
  <2>3. Count(BusyPlaces)' = Count(BusyPlaces)
    BY <2>1, Stay DEF BusyPlaces
  <2>4. Count(LivePlaces)' = Count(LivePlaces)
    BY <2>1, Stay DEF LivePlaces, SparePlaces, BusyPlaces
  <2>5. UNCHANGED <<spareThreads, currentThreads, currentTasks, failures, swept, queue, client>>
    BY <1>22 DEF Deliver, counters, lists, locals
  <2>6. Queued' = Queued /\ InTransit' = InTransit
    BY <2>5 DEF Queued, InTransit
  <2>7. Work' = Work
    BY <2>3, <2>6, <1>w DEF Work
  <2>8. (spareThreads = Count(SparePlaces) + failures)'
    BY <2>5, <2>2, <1>s
  <2>9. (currentThreads = Count(LivePlaces) + failures)'
    BY <2>5, <2>4, <1>l
  <2>10. (currentTasks = Work + failures)'
    BY <2>5, <2>7, <1>k, <1>w
  <2> QED BY <2>8, <2>9, <2>10 DEF CountersAccounted
<1>23. ASSUME NEW w \in Threads, AccountStay(w) PROVE CountersAccounted'
  <2>1. w \in Threads /\ pc[w] = "account" /\ pc' = [pc EXCEPT ![w] = "fetch"]
    BY <1>23 DEF AccountStay
  <2>2. Count(SparePlaces)' = Count(SparePlaces) + 1
    BY <2>1, Enter DEF SparePlaces
  <2>3. Count(BusyPlaces)' = Count(BusyPlaces) - 1
    BY <2>1, Leave DEF BusyPlaces
  <2>4. Count(LivePlaces)' = Count(LivePlaces)
    BY <2>1, Stay DEF LivePlaces, SparePlaces, BusyPlaces
  <2>5. /\ spareThreads' = spareThreads + 1 /\ currentTasks' = currentTasks - 1
        /\ UNCHANGED <<currentThreads, failures, swept, queue, client>>
    BY <1>23 DEF AccountStay, counters, lists, locals
  <2>6. Queued' = Queued /\ InTransit' = InTransit
    BY <2>5 DEF Queued, InTransit
  <2>7. Work' = Work - 1
    BY <2>3, <2>6, <1>w DEF Work
  <2>8. (spareThreads = Count(SparePlaces) + failures)'
    BY <2>5, <2>2, <1>s
  <2>9. (currentThreads = Count(LivePlaces) + failures)'
    BY <2>5, <2>4, <1>l
  <2>10. (currentTasks = Work + failures)'
    BY <2>5, <2>7, <1>k, <1>w
  <2> QED BY <2>8, <2>9, <2>10 DEF CountersAccounted
<1>24. ASSUME NEW w \in Threads, AccountExit(w) PROVE CountersAccounted'
  <2>1. w \in Threads /\ pc[w] = "account" /\ pc' = [pc EXCEPT ![w] = "none"]
    BY <1>24 DEF AccountExit
  <2>2. Count(SparePlaces)' = Count(SparePlaces)
    BY <2>1, Stay DEF SparePlaces
  <2>3. Count(BusyPlaces)' = Count(BusyPlaces) - 1
    BY <2>1, Leave DEF BusyPlaces
  <2>4. Count(LivePlaces)' = Count(LivePlaces) - 1
    BY <2>1, Leave DEF LivePlaces, SparePlaces, BusyPlaces
  <2>5. /\ currentThreads' = currentThreads - 1 /\ currentTasks' = currentTasks - 1
        /\ UNCHANGED <<spareThreads, failures, swept, queue>>
        /\ client' = NotifyClose
    BY <1>24 DEF AccountExit, counters, lists, locals
  <2>6. Queued' = Queued /\ InTransit' = InTransit
    BY <2>5 DEF Queued, InTransit, NotifyClose
  <2>7. Work' = Work - 1
    BY <2>3, <2>6, <1>w DEF Work
  <2>8. (spareThreads = Count(SparePlaces) + failures)'
    BY <2>5, <2>2, <1>s
  <2>9. (currentThreads = Count(LivePlaces) + failures)'
    BY <2>5, <2>4, <1>l
  <2>10. (currentTasks = Work + failures)'
    BY <2>5, <2>7, <1>k, <1>w
  <2> QED BY <2>8, <2>9, <2>10 DEF CountersAccounted
<1>25. ASSUME NEW w \in Threads, SpuriousFetch(w) PROVE CountersAccounted'
  <2>1. w \in Threads /\ pc[w] = "waiting" /\ pc' = [pc EXCEPT ![w] = "fetch"]
    BY <1>25 DEF SpuriousFetch
  <2>2. Count(SparePlaces)' = Count(SparePlaces)
    BY <2>1, Stay DEF SparePlaces
  <2>3. Count(BusyPlaces)' = Count(BusyPlaces)
    BY <2>1, Stay DEF BusyPlaces
  <2>4. Count(LivePlaces)' = Count(LivePlaces)
    BY <2>1, Stay DEF LivePlaces, SparePlaces, BusyPlaces
  <2>5. UNCHANGED <<spareThreads, currentThreads, currentTasks, failures, swept, queue, client>>
    BY <1>25 DEF SpuriousFetch, counters, lists, locals
  <2>6. Queued' = Queued /\ InTransit' = InTransit
    BY <2>5 DEF Queued, InTransit
  <2>7. Work' = Work
    BY <2>3, <2>6, <1>w DEF Work
  <2>8. (spareThreads = Count(SparePlaces) + failures)'
    BY <2>5, <2>2, <1>s
  <2>9. (currentThreads = Count(LivePlaces) + failures)'
    BY <2>5, <2>4, <1>l
  <2>10. (currentTasks = Work + failures)'
    BY <2>5, <2>7, <1>k, <1>w
  <2> QED BY <2>8, <2>9, <2>10 DEF CountersAccounted
<1>26. CASE SpuriousClose
  BY <1>26, Unmoved DEF vars, counters, lists, notice, workers, locals, InTransit, SpuriousClose
<1>27. CASE UNCHANGED vars
  BY <1>27, Unmoved DEF vars, counters, lists, notice, workers, locals, InTransit
<1> QED
  BY <1>1, <1>2, <1>3, <1>4, <1>5, <1>6, <1>7, <1>8, <1>9, <1>10, <1>11, <1>12, <1>13, <1>14, <1>15, <1>16, <1>17, <1>18, <1>19, <1>20, <1>21, <1>22, <1>23, <1>24, <1>25, <1>26, <1>27 DEF Next, ClientBegin, ClientContinue, WorkerStep

----
(* The ceiling: what push and the retirement test of a worker keep of the   *)
(* two counters they compare, and what the wait loop of close leaves.       *)

Ceiling ==
  /\ client = "unopened" => currentTasks = 0
  /\ ~Closing => currentThreads >= currentTasks \/ currentThreads >= maxThreads
  /\ client \in {"closed", "destroyed"} => currentThreads = 0

\* A thread that is alive is counted.
LEMMA LiveCounted ==
  ASSUME StateOK, CountersAccounted, NEW w \in Threads, pc[w] \in LivePlaces
  PROVE  currentThreads > 0
<1> DEFINE A == {v \in Threads : pc[v] \in LivePlaces}
<1>1. IsFiniteSet(A) /\ A # {}
  BY CountType
<1>2. Cardinality(A) \in Nat /\ Cardinality(A) # 0
  BY <1>1, FS_CardinalityType, FS_EmptySet
<1>3. Count(LivePlaces) = Cardinality(A)
  BY DEF Count
<1>4. currentThreads = Count(LivePlaces) + failures /\ failures \in Nat
  BY CountsInNat DEF CountersAccounted
<1> QED BY <1>2, <1>3, <1>4

\* A worker retires only when it leaves a thread for every task, push starts a
\* thread unless it need not or may not, and close does not go on while a
\* thread is counted.
LEMMA CeilingStep ==
  ASSUME StateOK, Shape, CountersAccounted, Ceiling, [Next]_vars
  PROVE  Ceiling'
<1>a. /\ spareThreads \in Nat /\ currentThreads \in Nat /\ currentTasks \in Nat
      /\ maxThreads \in Nat /\ Len(swept) \in Nat
  BY CountersInNat, ConstantsAssumption, FS_CardinalityType DEF StateOK
<1>1. ASSUME NEW l \in Limits, OpenThreads(l) PROVE Ceiling'
  BY <1>1, <1>a, LimitsType DEF Ceiling, Closing, vars, limits, counters, lists, notice, workers, locals, OpenThreads
<1>2. ASSUME NEW t \in Tasks, PushCount(t) PROVE Ceiling'
  BY <1>2, <1>a DEF Ceiling, Closing, vars, limits, counters, lists, notice, workers, locals, PushCount, NeedsThread
<1>3. ASSUME NEW t \in Tasks, PushFails(t) PROVE Ceiling'
  BY <1>3, <1>a DEF Ceiling, Closing, vars, limits, counters, lists, notice, workers, locals, PushFails, NeedsThread
<1>4. ASSUME NEW t \in Tasks, CancelQueue(t) PROVE Ceiling'
  BY <1>4, <1>a DEF Ceiling, Closing, vars, limits, counters, lists, notice, workers, locals, CancelQueue
<1>5. CASE Pop
  BY <1>5, <1>a DEF Ceiling, Closing, vars, limits, counters, lists, notice, workers, locals, Pop
<1>6. CASE ReadByte
  BY <1>6, <1>a DEF Ceiling, Closing, vars, limits, counters, lists, notice, workers, locals, ReadByte
<1>7. CASE CloseReady
  BY <1>7, <1>a DEF Ceiling, Closing, vars, limits, counters, lists, notice, workers, locals, CloseReady
<1>8. CASE Destroy
  BY <1>8, <1>a DEF Ceiling, Closing, vars, limits, counters, lists, notice, workers, locals, Destroy
<1>9. CASE OpenReady
  BY <1>9, <1>a DEF Ceiling, Closing, vars, limits, counters, lists, notice, workers, locals, OpenReady
<1>10. CASE PushQueue
  BY <1>10, <1>a DEF Ceiling, Closing, vars, limits, counters, lists, notice, workers, locals, PushQueue
<1>11. CASE CancelCount
  BY <1>11, <1>a DEF Ceiling, Closing, vars, limits, counters, lists, notice, workers, locals, CancelCount
<1>12. CASE ReadReturn
  BY <1>12, <1>a DEF Ceiling, Closing, vars, limits, counters, lists, notice, workers, locals, ReadReturn
<1>13. CASE CloseQueue
  BY <1>13, <1>a DEF Ceiling, Closing, vars, limits, counters, lists, notice, workers, locals, CloseQueue
<1>14. CASE CloseCount
  BY <1>14, <1>a DEF Ceiling, Closing, vars, limits, counters, lists, notice, workers, locals, CloseCount, WaitOrFinish
<1>15. CASE CloseCheck
  BY <1>15, <1>a DEF Ceiling, Closing, vars, limits, counters, lists, notice, workers, locals, CloseCheck, WaitOrFinish
<1>16. ASSUME NEW w \in Threads, FetchWait(w) PROVE Ceiling'
  BY <1>16, <1>a DEF Ceiling, Closing, vars, limits, counters, lists, notice, workers, locals, FetchWait
<1>17. ASSUME NEW w \in Threads, FetchTask(w) PROVE Ceiling'
  BY <1>17, <1>a DEF Ceiling, Closing, vars, limits, counters, lists, notice, workers, locals, FetchTask
<1>18. ASSUME NEW w \in Threads, FetchNull(w) PROVE Ceiling'
  BY <1>18, <1>a DEF Ceiling, Closing, vars, limits, counters, lists, notice, workers, locals, FetchNull
<1>19. ASSUME NEW w \in Threads, CountFetched(w) PROVE Ceiling'
  BY <1>19, <1>a DEF Ceiling, Closing, vars, limits, counters, lists, notice, workers, locals, CountFetched
<1>20. ASSUME NEW w \in Threads, Stop(w) PROVE Ceiling'
  <2>1. w \in Threads /\ pc[w] = "stopping"
    BY <1>20 DEF Stop
  <2>2. Closing
    BY <2>1 DEF Shape
  <2>3. currentThreads > 0
    BY <2>1, LiveCounted DEF LivePlaces, SparePlaces, BusyPlaces
  <2> QED BY <1>20, <1>a, <2>2, <2>3 DEF Ceiling, Closing, counters, limits, Stop, NotifyClose
<1>21. ASSUME NEW w \in Threads, Dispatch(w) PROVE Ceiling'
  BY <1>21, <1>a DEF Ceiling, Closing, vars, limits, counters, lists, notice, workers, locals, Dispatch
<1>22. ASSUME NEW w \in Threads, Deliver(w) PROVE Ceiling'
  BY <1>22, <1>a DEF Ceiling, Closing, vars, limits, counters, lists, notice, workers, locals, Deliver
<1>23. ASSUME NEW w \in Threads, AccountStay(w) PROVE Ceiling'
  <2>1. client # "unopened"
    BY <1>23 DEF AccountStay, Shape
  <2>2. UNCHANGED <<client, maxThreads, currentThreads>> /\ currentTasks' = currentTasks - 1
    BY <1>23 DEF AccountStay, limits, locals
  <2>3. Closing' <=> Closing
    BY <2>2 DEF Closing
  <2>4. currentThreads >= currentTasks => currentThreads' >= currentTasks'
    BY <2>2, <1>a
  <2> QED BY <2>1, <2>2, <2>3, <2>4 DEF Ceiling
<1>24. ASSUME NEW w \in Threads, AccountExit(w) PROVE Ceiling'
  <2>1. w \in Threads /\ pc[w] = "account"
    BY <1>24 DEF AccountExit
  <2>2. client # "unopened"
    BY <2>1 DEF Shape
  <2>3. currentThreads > 0
    BY <2>1, LiveCounted DEF LivePlaces, SparePlaces, BusyPlaces
  <2>4. /\ currentThreads > currentTasks - 1 /\ maxThreads' = maxThreads
        /\ currentTasks' = currentTasks - 1 /\ currentThreads' = currentThreads - 1
    BY <1>24, <1>a DEF AccountExit, Needed, limits
  <2>5. /\ client' # "unopened" /\ (Closing' <=> Closing)
        /\ client' \in {"closed", "destroyed"} <=> client \in {"closed", "destroyed"}
    BY <1>24, <2>2 DEF AccountExit, NotifyClose, Closing
  <2>6. currentThreads' >= currentTasks'
    BY <1>a, <2>4
  <2>7. ~(client' \in {"closed", "destroyed"})
    BY <2>3, <2>5, <1>a DEF Ceiling
  <2> QED BY <2>5, <2>6, <2>7 DEF Ceiling
<1>25. ASSUME NEW w \in Threads, SpuriousFetch(w) PROVE Ceiling'
  BY <1>25, <1>a DEF Ceiling, Closing, vars, limits, counters, lists, notice, workers, locals, SpuriousFetch
<1>26. CASE SpuriousClose
  BY <1>26, <1>a DEF Ceiling, Closing, vars, limits, counters, lists, notice, workers, locals, SpuriousClose
<1>27. CASE UNCHANGED vars
  BY <1>27, <1>a DEF Ceiling, Closing, vars, limits, counters, lists, notice, workers, locals
<1> QED
  BY <1>1, <1>2, <1>3, <1>4, <1>5, <1>6, <1>7, <1>8, <1>9, <1>10, <1>11, <1>12, <1>13, <1>14, <1>15, <1>16, <1>17, <1>18, <1>19, <1>20, <1>21, <1>22, <1>23, <1>24, <1>25, <1>26, <1>27 DEF Next, ClientBegin, ClientContinue, WorkerStep

----
(* The wake-ups.                                                            *)

\* Whoever takes a task from the queue, puts one in or goes to sleep keeps as
\* many workers on their way to the queue as it holds tasks, if any sleep.
LEMMA WakeupStep ==
  ASSUME StateOK, Shape, NoLostWakeup, [Next]_vars
  PROVE  NoLostWakeup'
<1>a. Count({"fetch"}) \in Nat /\ Len(queue) \in Nat
  <2>1. queue \in Seq(Tasks \cup {Null})
    BY DEF StateOK
  <2>2. Len(queue) \in Nat
    BY <2>1
  <2>3. Count({"fetch"}) \in Nat
    BY CountType
  <2> QED BY <2>2, <2>3
<1>b. Count({"fetch"})' \in Nat
  BY ConstantsAssumption, FS_Subset, FS_CardinalityType DEF Count
<1>1. ASSUME NEW l \in Limits, OpenThreads(l) PROVE NoLostWakeup'
  <2>1. \A w \in Threads : pc'[w] # "waiting"
    BY <1>1 DEF OpenThreads, Shape
  <2> QED BY <2>1 DEF NoLostWakeup, Waiting
<1>2. ASSUME NEW t \in Tasks, PushCount(t) PROVE NoLostWakeup'
  <2>1. CASE UNCHANGED pc
    BY <1>2, <2>1, Still DEF NoLostWakeup, Waiting, PushCount, lists
  <2>2. ASSUME NEW w \in Absent, pc' = [pc EXCEPT ![w] = "fetch"] PROVE NoLostWakeup'
    <3>1. w \in Threads /\ pc[w] = "none"
      BY <2>2 DEF Absent
    <3>2. Count({"fetch"})' = Count({"fetch"}) + 1
      BY <2>2, <3>1, Enter
    <3>3. Waiting' = Waiting /\ queue' = queue
      BY <1>2, <2>2, <3>1 DEF Waiting, PushCount, lists, StateOK
    <3> QED BY <1>a, <3>2, <3>3 DEF NoLostWakeup
  <2> QED BY <1>2, <2>1, <2>2 DEF PushCount
<1>3. ASSUME NEW t \in Tasks, PushFails(t) PROVE NoLostWakeup'
  BY <1>3, Still DEF NoLostWakeup, Waiting, vars, limits, counters, lists, notice, workers, locals, PushFails
<1>4. ASSUME NEW t \in Tasks, CancelQueue(t) PROVE NoLostWakeup'
  <2>1. PICK i \in DOMAIN queue : queue' = RemoveAt(queue, i)
    BY <1>4 DEF CancelQueue
  <2>2. Len(queue') = Len(queue) - 1
    BY <2>1, RemoveAtElements DEF StateOK
  <2>3. UNCHANGED pc
    BY <1>4 DEF CancelQueue, workers
  <2>4. Count({"fetch"})' = Count({"fetch"}) /\ Waiting' = Waiting
    BY <2>3, Still DEF Waiting
  <2> QED BY <1>a, <2>2, <2>4 DEF NoLostWakeup
<1>5. CASE Pop
  BY <1>5, Still DEF NoLostWakeup, Waiting, vars, limits, counters, lists, notice, workers, locals, Pop
<1>6. CASE ReadByte
  BY <1>6, Still DEF NoLostWakeup, Waiting, vars, limits, counters, lists, notice, workers, locals, ReadByte
<1>7. CASE CloseReady
  BY <1>7, Still DEF NoLostWakeup, Waiting, vars, limits, counters, lists, notice, workers, locals, CloseReady
<1>8. CASE Destroy
  BY <1>8, Still DEF NoLostWakeup, Waiting, vars, limits, counters, lists, notice, workers, locals, Destroy
<1>9. CASE OpenReady
  BY <1>9, Still DEF NoLostWakeup, Waiting, vars, limits, counters, lists, notice, workers, locals, OpenReady
<1>10. CASE PushQueue
  <2>1. queue \in Seq(Tasks) /\ queue' = Append(queue, arg) /\ arg \in Tasks
    BY <1>10 DEF PushQueue, Shape, Closing
  <2>2. Len(queue') = Len(queue) + 1
    BY <2>1, AppendProperties
  <2>3. CASE Waiting = {}
    BY <1>10, <2>3 DEF NoLostWakeup, Waiting, PushQueue, NotifyOne
  <2>4. ASSUME NEW w \in Waiting, pc' = [pc EXCEPT ![w] = "fetch"] PROVE NoLostWakeup'
    <3>1. w \in Threads /\ pc[w] = "waiting"
      BY <2>4 DEF Waiting
    <3>2. Count({"fetch"})' = Count({"fetch"}) + 1
      BY <2>4, <3>1, Enter
    <3> QED BY <1>a, <2>2, <2>4, <3>2 DEF NoLostWakeup
  <2> QED BY <1>10, <2>3, <2>4 DEF PushQueue, NotifyOne
<1>11. CASE CancelCount
  BY <1>11, Still DEF NoLostWakeup, Waiting, vars, limits, counters, lists, notice, workers, locals, CancelCount
<1>12. CASE ReadReturn
  BY <1>12, Still DEF NoLostWakeup, Waiting, vars, limits, counters, lists, notice, workers, locals, ReadReturn
<1>13. CASE CloseQueue
  <2>1. Waiting' = {}
    BY <1>13 DEF CloseQueue, Waiting
  <2> QED BY <2>1 DEF NoLostWakeup
<1>14. CASE CloseCount
  BY <1>14, Still DEF NoLostWakeup, Waiting, vars, limits, counters, lists, notice, workers, locals, CloseCount, WaitOrFinish
<1>15. CASE CloseCheck
  BY <1>15, Still DEF NoLostWakeup, Waiting, vars, limits, counters, lists, notice, workers, locals, CloseCheck, WaitOrFinish
<1>16. ASSUME NEW w \in Threads, FetchWait(w) PROVE NoLostWakeup'
  <2>1. queue' = <<>>
    BY <1>16 DEF FetchWait, lists
  <2>2. Len(queue') = 0 /\ Count({"fetch"})' \in Nat
    BY <2>1, <1>b
  <2> QED BY <2>2 DEF NoLostWakeup
<1>17. ASSUME NEW w \in Threads, FetchTask(w) PROVE NoLostWakeup'
  <2>1. w \in Threads /\ pc[w] = "fetch" /\ pc' = [pc EXCEPT ![w] = "fetched"]
    BY <1>17 DEF FetchTask
  <2>2. Count({"fetch"})' = Count({"fetch"}) - 1
    BY <2>1, Leave, "fetched" \notin {"fetch"}
  <2>3. Waiting' = Waiting
    BY <2>1 DEF Waiting, StateOK
  <2>4. Len(queue') = Len(queue) - 1
    BY <1>17, HeadTailProperties DEF FetchTask, StateOK
  <2> QED BY <1>a, <2>2, <2>3, <2>4 DEF NoLostWakeup
<1>18. ASSUME NEW w \in Threads, FetchNull(w) PROVE NoLostWakeup'
  <2>1. Closing
    BY <1>18, ElementOfSeq, ConstantsAssumption DEF FetchNull, Shape
  <2>2. Waiting' = {}
    BY <1>18, <2>1 DEF FetchNull, Shape, StateOK, Waiting
  <2> QED BY <2>2 DEF NoLostWakeup
<1>19. ASSUME NEW w \in Threads, CountFetched(w) PROVE NoLostWakeup'
  <2>1. w \in Threads /\ pc[w] = "fetched" /\ pc' = [pc EXCEPT ![w] = "dispatch"]
    BY <1>19 DEF CountFetched
  <2>2. Count({"fetch"})' = Count({"fetch"})
    BY <2>1, Stay
  <2>3. Waiting' = Waiting
    BY <2>1 DEF Waiting, StateOK
  <2>4. queue' = queue
    BY <1>19 DEF CountFetched, lists
  <2> QED BY <1>a, <2>2, <2>3, <2>4 DEF NoLostWakeup
<1>20. ASSUME NEW w \in Threads, Stop(w) PROVE NoLostWakeup'
  <2>1. w \in Threads /\ pc[w] = "stopping" /\ pc' = [pc EXCEPT ![w] = "none"]
    BY <1>20 DEF Stop
  <2>2. Count({"fetch"})' = Count({"fetch"})
    BY <2>1, Stay
  <2>3. Waiting' = Waiting
    BY <2>1 DEF Waiting, StateOK
  <2>4. queue' = queue
    BY <1>20 DEF Stop, lists
  <2> QED BY <1>a, <2>2, <2>3, <2>4 DEF NoLostWakeup
<1>21. ASSUME NEW w \in Threads, Dispatch(w) PROVE NoLostWakeup'
  <2>1. w \in Threads /\ pc[w] = "dispatch" /\ pc' = [pc EXCEPT ![w] = "deliver"]
    BY <1>21 DEF Dispatch
  <2>2. Count({"fetch"})' = Count({"fetch"})
    BY <2>1, Stay
  <2>3. Waiting' = Waiting
    BY <2>1 DEF Waiting, StateOK
  <2>4. queue' = queue
    BY <1>21 DEF Dispatch, lists
  <2> QED BY <1>a, <2>2, <2>3, <2>4 DEF NoLostWakeup
<1>22. ASSUME NEW w \in Threads, Deliver(w) PROVE NoLostWakeup'
  <2>1. w \in Threads /\ pc[w] = "deliver" /\ pc' = [pc EXCEPT ![w] = "account"]
    BY <1>22 DEF Deliver
  <2>2. Count({"fetch"})' = Count({"fetch"})
    BY <2>1, Stay
  <2>3. Waiting' = Waiting
    BY <2>1 DEF Waiting, StateOK
  <2>4. queue' = queue
    BY <1>22 DEF Deliver, lists
  <2> QED BY <1>a, <2>2, <2>3, <2>4 DEF NoLostWakeup
<1>23. ASSUME NEW w \in Threads, AccountStay(w) PROVE NoLostWakeup'
  <2>1. w \in Threads /\ pc[w] = "account" /\ pc' = [pc EXCEPT ![w] = "fetch"]
    BY <1>23 DEF AccountStay
  <2>2. Count({"fetch"})' = Count({"fetch"}) + 1
    BY <2>1, Enter
  <2>3. Waiting' = Waiting
    BY <2>1 DEF Waiting, StateOK
  <2>4. queue' = queue
    BY <1>23 DEF AccountStay, lists
  <2> QED BY <1>a, <2>2, <2>3, <2>4 DEF NoLostWakeup
<1>24. ASSUME NEW w \in Threads, AccountExit(w) PROVE NoLostWakeup'
  <2>1. w \in Threads /\ pc[w] = "account" /\ pc' = [pc EXCEPT ![w] = "none"]
    BY <1>24 DEF AccountExit
  <2>2. Count({"fetch"})' = Count({"fetch"})
    BY <2>1, Stay
  <2>3. Waiting' = Waiting
    BY <2>1 DEF Waiting, StateOK
  <2>4. queue' = queue
    BY <1>24 DEF AccountExit, lists
  <2> QED BY <1>a, <2>2, <2>3, <2>4 DEF NoLostWakeup
<1>25. ASSUME NEW w \in Threads, SpuriousFetch(w) PROVE NoLostWakeup'
  <2>1. w \in Threads /\ pc[w] = "waiting" /\ pc' = [pc EXCEPT ![w] = "fetch"]
    BY <1>25 DEF SpuriousFetch
  <2>2. Count({"fetch"})' = Count({"fetch"}) + 1
    BY <2>1, Enter
  <2>3. Waiting' \subseteq Waiting
    BY <2>1 DEF Waiting, StateOK
  <2>4. queue' = queue
    BY <1>25 DEF SpuriousFetch, lists
  <2> QED BY <1>a, <2>2, <2>3, <2>4 DEF NoLostWakeup
<1>26. CASE SpuriousClose
  BY <1>26, Still DEF NoLostWakeup, Waiting, vars, limits, counters, lists, notice, workers, locals, SpuriousClose
<1>27. CASE UNCHANGED vars
  BY <1>27, Still DEF NoLostWakeup, Waiting, vars, limits, counters, lists, notice, workers, locals
<1> QED
  BY <1>1, <1>2, <1>3, <1>4, <1>5, <1>6, <1>7, <1>8, <1>9, <1>10, <1>11, <1>12, <1>13, <1>14, <1>15, <1>16, <1>17, <1>18, <1>19, <1>20, <1>21, <1>22, <1>23, <1>24, <1>25, <1>26, <1>27 DEF Next, ClientBegin, ClientContinue, WorkerStep

----
(* The theorems.                                                            *)

IInv == StateOK /\ Shape /\ CountersAccounted /\ Ceiling /\ NoLostWakeup

\* The inductive invariant holds when the service is constructed.
LEMMA InitIInv == Init => IInv
<1> SUFFICES ASSUME Init PROVE IInv
  OBVIOUS
<1>1. Ceiling
  BY DEF Init, Ceiling, Closing
<1>2. NoLostWakeup
  BY DEF Init, NoLostWakeup, Waiting
<1> QED BY <1>1, <1>2, InitShape, InitAccount DEF IInv

\* No step of any thread leaves the inductive invariant.
LEMMA IInvStep == IInv /\ [Next]_vars => IInv'
BY StateStep, ShapeStep, AccountStep, CeilingStep, WakeupStep DEF IInv

\* The inductive invariant of the service: in every reachable state its
\* variables are typed and in shape, its counters are accounted for, threads
\* are enough and no wake-up is lost.
THEOREM Invariance == Spec => []IInv
<1>1. Init => IInv
  BY InitIInv
<1>2. IInv /\ [Next]_vars => IInv'
  BY IInvStep
<1> QED BY <1>1, <1>2, PTL DEF Spec

\* The variables keep their types in every reachable state: the unsigned
\* counters of the code never go below zero.
THEOREM TypeCorrect == Spec => []TypeOK
<1>1. IInv => TypeOK
  BY CountersInNat DEF IInv, TypeOK
<1> QED BY <1>1, Invariance, PTL

\* Between any two critical sections the counters are the numbers of threads
\* and tasks they stand for.
THEOREM CountersCorrect == Spec => []CountersAccounted
<1>1. IInv => CountersAccounted
  BY DEF IInv
<1> QED BY <1>1, Invariance, PTL

\* notify_one after each push is enough: no queued task waits for a sleeper.
THEOREM NoWakeupLost == Spec => []NoLostWakeup
<1>1. IInv => NoLostWakeup
  BY DEF IInv
<1> QED BY <1>1, Invariance, PTL

\* Before close there is a thread for every task, or all the threads allowed.
THEOREM ThreadsSuffice == Spec => []EnoughThreads
<1>1. ASSUME IInv PROVE EnoughThreads
  <2>1. /\ currentThreads = Count(LivePlaces) + failures
        /\ currentTasks = Work + failures
    BY <1>1 DEF IInv, CountersAccounted
  <2>2. Count(LivePlaces) \in Nat /\ Work \in Nat /\ failures \in Nat /\ maxThreads \in Nat
    BY <1>1, CountsInNat, CountersInNat, ConstantsAssumption, FS_CardinalityType DEF IInv, StateOK
  <2>3. ~Closing => currentThreads >= currentTasks \/ currentThreads >= maxThreads
    BY <1>1 DEF IInv, Ceiling
  <2> QED BY <2>1, <2>2, <2>3 DEF EnoughThreads
<1> QED BY <1>1, Invariance, PTL

\* When close returns there is no worker, no task and nothing counted.
THEOREM ClosedIsEmpty == Spec => []CloseLeavesNothing
<1>1. ASSUME IInv, client \in {"closed", "destroyed"}
      PROVE  /\ Live = {} /\ counters = <<0, 0, 0>>
             /\ queueIndex = {} /\ Range(held) \subseteq {Null}
  <2>1. currentThreads = 0
    BY <1>1 DEF IInv, Ceiling
  <2>2. \A w \in Threads : pc[w] \notin LivePlaces
    BY <1>1, <2>1, LiveCounted DEF IInv
  <2>3. \A w \in Threads : pc[w] = "none"
    BY <1>1, <2>2 DEF IInv, StateOK, LivePlaces, SparePlaces, BusyPlaces
  <2>4. failures = 0
    BY <1>1, <2>1, CountsInNat DEF IInv, CountersAccounted
  <2>5. {w \in Threads : pc[w] \in SparePlaces} = {} /\ {w \in Threads : pc[w] \in BusyPlaces} = {}
    BY <2>3 DEF SparePlaces, BusyPlaces
  <2>6. Count(SparePlaces) = 0 /\ Count(BusyPlaces) = 0
    BY <2>5, FS_EmptySet DEF Count
  <2>7. Queued = 0 /\ InTransit = 0 /\ queueIndex = {}
    BY <1>1 DEF IInv, Shape, Closing, Queued, InTransit
  <2>8. spareThreads = 0 /\ currentTasks = 0
    BY <1>1, <2>4, <2>6, <2>7 DEF IInv, CountersAccounted, Work
  <2>9. \A w \in Threads : held[w] = Null
    BY <1>1, <2>3 DEF IInv, StateOK, Shape
  <2> QED BY <1>1, <2>1, <2>3, <2>7, <2>8, <2>9 DEF Live, counters, Range, IInv, StateOK
<1>2. IInv => CloseLeavesNothing
  BY <1>1 DEF CloseLeavesNothing
<1> QED BY <1>2, Invariance, PTL

-----------------------------------------------------------------------------
(* Where the tasks are: each in one place, each called once, and the       *)
(* service is a TaskPool.                                                  *)

----
(* The steps that move a task, and the others.                              *)

\* Nothing that says where a task is, or what it was called with, changes.
Quiet ==
  /\ UNCHANGED <<queue, queueIndex, ready, held, swept, callback>>
  /\ Transit' = Transit
  /\ (client \in {"unopened", "open_ready"})' = (client \in {"unopened", "open_ready"})
  /\ Closing' = Closing
  /\ \A w \in Threads : held[w] \in Tasks => (pc[w] = "deliver")' = (pc[w] = "deliver")

\* The steps of threads that have no task, and the calls that move none.
LEMMA QuietSteps ==
  ASSUME StateOK, Shape,
         \/ \E l \in Limits : OpenThreads(l)
         \/ \E t \in Tasks : PushFails(t)
         \/ ReadByte \/ ReadReturn \/ CloseReady \/ CloseCheck \/ Destroy
         \/ \E w \in Threads : \/ FetchWait(w) \/ FetchNull(w) \/ CountFetched(w) \/ Stop(w)
                               \/ AccountStay(w) \/ AccountExit(w) \/ SpuriousFetch(w)
         \/ SpuriousClose
         \/ UNCHANGED vars
  PROVE  Quiet
<1> USE DEF StateOK, Shape, Quiet, Transit, Closing, limits, counters, lists, notice, workers, locals
<1>1. ASSUME NEW l \in Limits, OpenThreads(l) PROVE Quiet
  BY <1>1, ConstantsAssumption DEF OpenThreads
<1>2. ASSUME NEW t \in Tasks, PushFails(t) PROVE Quiet
  BY <1>2 DEF PushFails
<1>3. CASE ReadByte
  BY <1>3 DEF ReadByte
<1>4. CASE ReadReturn
  BY <1>4 DEF ReadReturn
<1>5. CASE CloseReady
  BY <1>5 DEF CloseReady
<1>6. CASE CloseCheck
  BY <1>6 DEF CloseCheck, WaitOrFinish
<1>7. CASE Destroy
  BY <1>7 DEF Destroy
<1>8. ASSUME NEW w \in Threads, FetchWait(w) PROVE Quiet
  BY <1>8 DEF FetchWait
<1>9. ASSUME NEW w \in Threads, FetchNull(w) PROVE Quiet
  BY <1>9 DEF FetchNull
<1>10. ASSUME NEW w \in Threads, CountFetched(w) PROVE Quiet
  BY <1>10 DEF CountFetched
<1>11. ASSUME NEW w \in Threads, Stop(w) PROVE Quiet
  BY <1>11 DEF Stop, NotifyClose
<1>12. ASSUME NEW w \in Threads, AccountStay(w) PROVE Quiet
  BY <1>12 DEF AccountStay
<1>13. ASSUME NEW w \in Threads, AccountExit(w) PROVE Quiet
  BY <1>13 DEF AccountExit, NotifyClose
<1>14. ASSUME NEW w \in Threads, SpuriousFetch(w) PROVE Quiet
  BY <1>14 DEF SpuriousFetch
<1>15. CASE SpuriousClose
  BY <1>15 DEF SpuriousClose
<1>16. CASE UNCHANGED vars
  BY <1>16 DEF vars
<1> QED
  BY <1>1, <1>2, <1>3, <1>4, <1>5, <1>6, <1>7, <1>8, <1>9, <1>10, <1>11, <1>12, <1>13,
     <1>14, <1>15, <1>16

\* Every step is quiet or one of these.
LEMMA StepKinds ==
  ASSUME StateOK, Shape, [Next]_vars
  PROVE  \/ Quiet
         \/ OpenReady \/ PushQueue \/ CancelCount \/ Pop \/ CloseQueue \/ CloseCount
         \/ \E t \in Tasks : PushCount(t) \/ CancelQueue(t)
         \/ \E w \in Threads : FetchTask(w) \/ Dispatch(w) \/ Deliver(w)
BY QuietSteps DEF Next, ClientBegin, ClientContinue, WorkerStep

----
(* One place.                                                               *)

\* The tasks the workers hold, thread by thread.
LEMMA HeldRange ==
  ASSUME StateOK
  PROVE  Range(held) = {held[w] : w \in Threads}
BY DEF StateOK, Range

\* A worker that takes x or gives its task away holds that, the others what
\* they held.
LEMMA HeldUpdate ==
  ASSUME StateOK, NEW w \in Threads, NEW x, held' = [held EXCEPT ![w] = x]
  PROVE  /\ DOMAIN held' = Threads
         /\ held'[w] = x /\ \A v \in Threads : v # w => held'[v] = held[v]
         /\ Range(held') = {held'[v] : v \in Threads}
BY DEF StateOK, Range

\* What OnePlace says, with the tasks of the workers thread by thread.
OnePlaceEach ==
  /\ IsInjective(queue) /\ IsInjective(ready) /\ IsInjective(swept)
  /\ \A v, w \in Threads : held[v] = held[w] /\ held[v] # Null => v = w
  /\ \A w \in Threads : held[w] # Null =>
       held[w] \notin Range(queue) \cup Range(ready) \cup Range(swept) \cup Transit
  /\ Range(queue) \cap (Range(ready) \cup Range(swept) \cup Transit) = {}
  /\ Range(ready) \cap (Range(swept) \cup Transit) = {}
  /\ queueIndex = Range(queue) \ {Null}

\* The two say the same.
LEMMA SamePlaces == StateOK => (OnePlace <=> OnePlaceEach)
BY HeldRange DEF OnePlace, OnePlaceEach

\* No step puts a task where another thread, list or call has it.
LEMMA OnePlaceStep ==
  ASSUME StateOK, Shape, OnePlaceEach, [Next]_vars
  PROVE  OnePlaceEach'
<1>n. Null \notin Tasks
  BY ConstantsAssumption
<1>q. /\ queue \in Seq(Tasks \cup {Null}) /\ ready \in Seq(Tasks) /\ swept \in Seq(Tasks)
      /\ arg \in Tasks \cup {Null} /\ queueIndex \in SUBSET Tasks
  BY DEF StateOK
<1>t. ~Closing => queue \in Seq(Tasks)
  BY DEF Shape
<1>0. CASE Quiet
  BY <1>0 DEF Quiet, OnePlaceEach
<1>1. CASE OpenReady
  BY <1>1 DEF OpenReady, OnePlaceEach, Transit, lists, workers
<1>2. ASSUME NEW t \in Tasks, PushCount(t) PROVE OnePlaceEach'
  <2>1. /\ UNCHANGED <<queue, queueIndex, ready, held, swept>>
        /\ Transit = {} /\ Transit' = {t} /\ swept = <<>>
    BY <1>2 DEF PushCount, Transit, lists, Shape
  <2>2. t \notin Range(queue) /\ t \notin Range(ready) /\ \A w \in Threads : held[w] # t
    BY <1>2, <1>n, HeldRange DEF PushCount, Outstanding, OnePlaceEach
  <2> QED BY <2>1, <2>2, RangeEmpty DEF OnePlaceEach
<1>3. CASE PushQueue
  <2>1. /\ arg \in Tasks /\ Transit = {arg} /\ Transit' = {} /\ ~Closing
        /\ queue' = Append(queue, arg) /\ queueIndex' = queueIndex \cup {arg}
        /\ UNCHANGED <<ready, held, swept>>
    BY <1>3 DEF PushQueue, Transit, Shape, Closing
  <2>2. arg \notin Range(queue)
    BY <2>1 DEF OnePlaceEach
  <2>3. Range(queue') = Range(queue) \cup {arg} /\ IsInjective(queue')
    BY <1>q, <2>1, <2>2, AppendRange DEF OnePlaceEach
  <2>4. \A w \in Threads : held[w] # Null => held[w] # arg
    BY <2>1 DEF OnePlaceEach
  <2>5. queueIndex' = Range(queue') \ {Null}
    BY <1>n, <2>1, <2>3 DEF OnePlaceEach
  <2>6. arg \notin Range(ready) \cup Range(swept)
    BY <1>3, <2>1, RangeEmpty DEF OnePlaceEach, Shape, PushQueue
  <2> QED BY <2>1, <2>3, <2>4, <2>5, <2>6 DEF OnePlaceEach
<1>4. ASSUME NEW t \in Tasks, CancelQueue(t) PROVE OnePlaceEach'
  <2>1. /\ Transit = {} /\ Transit' = {t} /\ swept = <<>>
        /\ queueIndex' = queueIndex \ {t} /\ UNCHANGED <<ready, held, swept>>
    BY <1>4 DEF CancelQueue, Transit, Shape, workers
  <2>2. PICK i \in DOMAIN queue : queue[i] = t /\ queue' = RemoveAt(queue, i)
    BY <1>4 DEF CancelQueue
  <2>3. Range(queue') = Range(queue) \ {t} /\ IsInjective(queue')
    BY <1>q, <2>2, RemoveAtRange DEF OnePlaceEach
  <2>4. t \in Range(queue)
    BY <2>2 DEF Range
  <2> QED BY <2>1, <2>3, <2>4, RangeEmpty DEF OnePlaceEach
<1>5. CASE CancelCount
  BY <1>5 DEF CancelCount, OnePlaceEach, Transit, lists, workers
<1>6. CASE Pop
  <2>1. /\ ready # <<>> /\ ready' = Tail(ready) /\ Transit' = Transit
        /\ UNCHANGED <<queue, queueIndex, held, swept>>
    BY <1>6 DEF Pop, Transit, lists, workers, locals
  <2>2. Range(ready') \subseteq Range(ready) /\ IsInjective(ready')
    BY <1>q, <2>1, TailRange DEF OnePlaceEach
  <2> QED BY <2>1, <2>2 DEF OnePlaceEach
<1>7. CASE CloseQueue
  <2>1. /\ swept = <<>> /\ swept' = queue /\ queue' = <<Null>> /\ queueIndex' = {}
        /\ Transit = {} /\ Transit' = {} /\ ~Closing /\ UNCHANGED <<ready, held>>
    BY <1>7 DEF CloseQueue, Transit, Shape, Closing
  <2>2. Range(queue') = {Null} /\ IsInjective(queue')
    BY <2>1 DEF Range, IsInjective
  <2>3. Range(queue) \subseteq Tasks /\ Range(ready) \subseteq Tasks
    BY <1>q, <1>t, <2>1, InRangeOf
  <2> QED BY <1>n, <2>1, <2>2, <2>3, RangeEmpty DEF OnePlaceEach
<1>8. CASE CloseCount
  BY <1>8, RangeEmpty DEF CloseCount, WaitOrFinish, OnePlaceEach, Transit, lists, workers
<1>9. ASSUME NEW w \in Threads, FetchTask(w) PROVE OnePlaceEach'
  <2>1. /\ queue # <<>> /\ Head(queue) # Null /\ queue' = Tail(queue)
        /\ queueIndex' = queueIndex \ {Head(queue)}
        /\ held' = [held EXCEPT ![w] = Head(queue)]
        /\ UNCHANGED <<ready, swept>> /\ Transit' = Transit
    BY <1>9 DEF FetchTask, Transit, locals
  <2>2. /\ Range(queue) = Range(queue') \cup {Head(queue)} /\ IsInjective(queue')
        /\ Head(queue) \notin Range(queue')
    BY <1>q, <2>1, TailRange DEF OnePlaceEach
  <2> QED BY <2>1, <2>2, HeldUpdate DEF OnePlaceEach
<1>10. ASSUME NEW w \in Threads, Dispatch(w) PROVE OnePlaceEach'
  BY <1>10 DEF Dispatch, OnePlaceEach, Transit, lists, locals
<1>11. ASSUME NEW w \in Threads, Deliver(w) PROVE OnePlaceEach'
  <2>1. /\ held[w] \in Tasks /\ held' = [held EXCEPT ![w] = Null]
        /\ ready' = Append(ready, held[w])
        /\ UNCHANGED <<queue, queueIndex, swept>> /\ Transit' = Transit
    BY <1>11 DEF Deliver, Shape, Transit, lists, locals
  <2>2. held[w] \notin Range(ready)
    BY <1>n, <2>1 DEF OnePlaceEach
  <2>3. Range(ready') = Range(ready) \cup {held[w]} /\ IsInjective(ready')
    BY <1>q, <2>1, <2>2, AppendRange DEF OnePlaceEach
  <2>4. held[w] \notin Range(queue) \cup Range(swept) \cup Transit
    BY <1>n, <2>1 DEF OnePlaceEach
  <2>5. \A v \in Threads : held'[v] # Null => held'[v] = held[v] /\ held[v] # held[w]
    BY <1>n, <2>1, HeldUpdate DEF OnePlaceEach
  <2> QED BY <2>1, <2>3, <2>4, <2>5 DEF OnePlaceEach
<1> QED
  BY StepKinds, <1>0, <1>1, <1>2, <1>3, <1>4, <1>5, <1>6, <1>7, <1>8, <1>9, <1>10, <1>11

----
(* One call.                                                                *)

\* The threads with a task are at the places Shape names, and no step that
\* starts or wakes a thread moves them.
LEMMA HoldersStay ==
  ASSUME StateOK, Shape,
         \/ UNCHANGED pc
         \/ \E v \in Threads : pc[v] \in {"none", "waiting"} /\ pc' = [pc EXCEPT ![v] = "fetch"]
         \/ pc' = [v \in Threads |-> IF v \in Waiting THEN "fetch" ELSE pc[v]]
  PROVE  \A w \in Threads : held[w] \in Tasks => pc'[w] = pc[w]
BY DEF StateOK, Shape, Waiting

\* Every step calls a task only where the call is due.
LEMMA CallbackStep ==
  ASSUME StateOK, Shape, OnePlaceEach, CallbackMatches, [Next]_vars
  PROVE  CallbackMatches'
<1>n. Null \notin Tasks
  BY ConstantsAssumption
<1>q. /\ queue \in Seq(Tasks \cup {Null}) /\ ready \in Seq(Tasks) /\ swept \in Seq(Tasks)
      /\ arg \in Tasks \cup {Null} /\ callback \in [Tasks -> {"none", "dispatched", "cancelled"}]
      /\ held \in [Threads -> Tasks \cup {Null}]
  BY DEF StateOK
<1>0. CASE Quiet
  BY <1>0 DEF Quiet, CallbackMatches
<1>1. CASE OpenReady
  BY <1>1 DEF OpenReady, CallbackMatches, Transit, lists, workers
<1>2. ASSUME NEW t \in Tasks, PushCount(t) PROVE CallbackMatches'
  <2>1. /\ UNCHANGED <<queue, ready, held, swept>>
        /\ Transit = {} /\ Transit' = {t}
        /\ callback' = [callback EXCEPT ![t] = "none"]
    BY <1>2 DEF PushCount, Transit, lists
  <2>2. t \notin Range(ready) /\ \A w \in Threads : held[w] # t
    BY <1>2, <1>n, HeldRange DEF PushCount, Outstanding
  <2>3. \A w \in Threads : held[w] \in Tasks => pc'[w] = pc[w]
    BY <1>2, HoldersStay DEF PushCount, Absent
  <2> QED BY <1>q, <2>1, <2>2, <2>3 DEF CallbackMatches
<1>3. CASE PushQueue
  <2>1. /\ arg \in Tasks /\ Transit = {arg} /\ Transit' = {} /\ ~Closing
        /\ queue' = Append(queue, arg)
        /\ UNCHANGED <<ready, held, swept, callback>>
    BY <1>3 DEF PushQueue, Transit, Shape, Closing
  <2>2. Range(queue') = Range(queue) \cup {arg}
    BY <1>q, <2>1, AppendRange, SMTT(30)
  <2>3. \A w \in Threads : held[w] \in Tasks => pc'[w] = pc[w]
    BY <1>3, HoldersStay DEF PushQueue, NotifyOne, Waiting
  <2> QED BY <1>q, <2>1, <2>2, <2>3 DEF CallbackMatches
<1>4. ASSUME NEW t \in Tasks, CancelQueue(t) PROVE CallbackMatches'
  <2>1. /\ Transit = {} /\ Transit' = {t}
        /\ UNCHANGED <<ready, held, swept, callback, pc>>
    BY <1>4 DEF CancelQueue, Transit, workers
  <2>2. PICK i \in DOMAIN queue : queue[i] = t /\ queue' = RemoveAt(queue, i)
    BY <1>4 DEF CancelQueue
  <2>3. Range(queue') = Range(queue) \ {t}
    BY <1>q, <2>2, RemoveAtRange DEF OnePlaceEach
  <2>4. t \in Range(queue)
    BY <2>2 DEF Range
  <2> QED BY <2>1, <2>3, <2>4 DEF CallbackMatches
<1>5. CASE CancelCount
  <2>1. /\ arg \in Tasks /\ Transit = {arg} /\ Transit' = {}
        /\ callback' = [callback EXCEPT ![arg] = "cancelled"]
        /\ UNCHANGED <<queue, ready, held, swept, pc>>
    BY <1>5 DEF CancelCount, Transit, Shape, lists, workers
  <2>2. /\ arg \notin Range(queue) \cup Range(ready) \cup Range(swept)
        /\ \A w \in Threads : held[w] # arg
    BY <1>5, <1>n, <2>1, RangeEmpty DEF OnePlaceEach, Shape, CancelCount
  <2> QED BY <1>q, <2>1, <2>2 DEF CallbackMatches
<1>6. CASE Pop
  <2>1. /\ ready # <<>> /\ ready' = Tail(ready) /\ Transit' = Transit
        /\ UNCHANGED <<queue, held, swept, callback, pc>>
    BY <1>6 DEF Pop, Transit, lists, workers, locals
  <2>2. Range(ready') \subseteq Range(ready)
    BY <1>q, <2>1, TailRange
  <2> QED BY <2>1, <2>2 DEF CallbackMatches
<1>7. CASE CloseQueue
  <2>1. /\ swept' = queue /\ queue' = <<Null>> /\ Transit' = {}
        /\ UNCHANGED <<ready, held, callback>>
    BY <1>7 DEF CloseQueue, Transit
  <2>2. Range(queue') = {Null}
    BY <2>1 DEF Range
  <2>3. \A w \in Threads : held[w] \in Tasks => pc'[w] = pc[w]
    BY <1>7, HoldersStay DEF CloseQueue
  <2> QED BY <1>n, <1>q, <2>1, <2>2, <2>3, SMTT(30) DEF CallbackMatches
<1>8. CASE CloseCount
  <2>1. /\ swept' = <<>> /\ Transit' = {}
        /\ callback' = [t \in Tasks |-> IF t \in Range(swept) THEN "cancelled" ELSE callback[t]]
        /\ UNCHANGED <<queue, ready, held, pc>>
    BY <1>8 DEF CloseCount, WaitOrFinish, Transit, lists, workers
  <2>2. \A t \in Tasks : t \in Range(swept) =>
          t \notin Range(queue) /\ t \notin Range(ready) /\ \A w \in Threads : held[w] # t
    BY <1>n DEF OnePlaceEach
  <2> QED BY <2>1, <2>2, RangeEmpty DEF CallbackMatches
<1>9. ASSUME NEW w \in Threads, FetchTask(w) PROVE CallbackMatches'
  <2>1. /\ queue # <<>> /\ Head(queue) # Null /\ queue' = Tail(queue)
        /\ held' = [held EXCEPT ![w] = Head(queue)] /\ pc' = [pc EXCEPT ![w] = "fetched"]
        /\ UNCHANGED <<ready, swept, callback>> /\ Transit' = Transit
    BY <1>9 DEF FetchTask, Transit, locals
  <2>2. Range(queue) = Range(queue') \cup {Head(queue)}
    BY <1>q, <2>1, TailRange
  <2>3. pc'[w] = "fetched" /\ \A v \in Threads : v # w => pc'[v] = pc[v]
    BY <2>1 DEF StateOK
  <2>4. /\ held'[w] = Head(queue) /\ \A v \in Threads : v # w => held'[v] = held[v]
    BY <2>1, HeldUpdate
  <2>5. Head(queue) \in Range(queue) /\ \A t \in Range(queue') : t \in Range(queue)
    BY <2>2
  <2>6. \A t \in Tasks, v \in Threads : held'[v] = t =>
          callback[t] = IF pc'[v] = "deliver" THEN "dispatched" ELSE "none"
    BY <2>3, <2>4, <2>5 DEF CallbackMatches
  <2> QED BY <2>1, <2>5, <2>6 DEF CallbackMatches
<1>10. ASSUME NEW w \in Threads, Dispatch(w) PROVE CallbackMatches'
  <2>1. /\ held[w] \in Tasks /\ callback' = [callback EXCEPT ![held[w]] = "dispatched"]
        /\ pc' = [pc EXCEPT ![w] = "deliver"]
        /\ UNCHANGED <<queue, ready, held, swept>> /\ Transit' = Transit
    BY <1>10 DEF Dispatch, Shape, Transit, lists, locals
  <2>2. /\ held[w] \notin Range(queue) \cup Range(ready) \cup Range(swept) \cup Transit
        /\ \A v \in Threads : held[v] = held[w] => v = w
    BY <1>n, <2>1 DEF OnePlaceEach
  <2>3. pc'[w] = "deliver" /\ \A v \in Threads : v # w => pc'[v] = pc[v]
    BY <2>1 DEF StateOK
  <2> QED BY <1>q, <2>1, <2>2, <2>3 DEF CallbackMatches
<1>11. ASSUME NEW w \in Threads, Deliver(w) PROVE CallbackMatches'
  <2>1. /\ held[w] \in Tasks /\ pc[w] = "deliver" /\ held' = [held EXCEPT ![w] = Null]
        /\ ready' = Append(ready, held[w]) /\ pc' = [pc EXCEPT ![w] = "account"]
        /\ UNCHANGED <<queue, swept, callback>> /\ Transit' = Transit
    BY <1>11 DEF Deliver, Shape, Transit, lists, locals
  <2>2. Range(ready') = Range(ready) \cup {held[w]} /\ callback[held[w]] = "dispatched"
    BY <1>q, <2>1, AppendRange DEF CallbackMatches
  <2>3. \A v \in Threads : v # w => pc'[v] = pc[v]
    BY <2>1 DEF StateOK
  <2>4. /\ held'[w] = Null /\ \A v \in Threads : v # w => held'[v] = held[v]
    BY <2>1, HeldUpdate
  <2>5. \A t \in Tasks, v \in Threads : held'[v] = t =>
          callback[t] = IF pc'[v] = "deliver" THEN "dispatched" ELSE "none"
    BY <1>n, <2>3, <2>4 DEF CallbackMatches
  <2> QED BY <2>1, <2>2, <2>5 DEF CallbackMatches
<1> QED
  BY StepKinds, <1>0, <1>1, <1>2, <1>3, <1>4, <1>5, <1>6, <1>7, <1>8, <1>9, <1>10, <1>11

----
(* The service is the pool it promises.                                     *)

\* Until close empties the queue the pool's list is the queue itself.
LEMMA UnstartedIs ==
  ASSUME StateOK, Shape
  PROVE  Unstarted = IF Closing THEN <<>> ELSE queue
BY NotNull DEF Shape, Unstarted

\* A quiet step is a stutter of the pool.
LEMMA QuietIsStutter ==
  ASSUME Quiet
  PROVE  UNCHANGED Pool!vars
<1>1. UNCHANGED <<Phase, Unstarted, Running, ready>>
  BY DEF Quiet, Phase, Unstarted, Running
<1> QED BY <1>1 DEF Pool!vars

\* The initial state of the service is that of the pool.
LEMMA InitIsPool == Init => Pool!Init
<1> SUFFICES ASSUME Init PROVE Pool!Init
  OBVIOUS
<1>1. Phase = "new" /\ ready = <<>>
  BY DEF Init, Phase
<1>2. Unstarted = <<>>
  BY DEF Init, Unstarted
<1>3. Running = {}
  BY InitShape, HeldRange DEF Init, Running
<1> QED BY <1>1, <1>2, <1>3 DEF Pool!Init

\* Every step of a thread or of the client is a step of the pool or a
\* stutter: the moment a task changes hands is the section that moves it.
LEMMA StepIsPool ==
  ASSUME StateOK, Shape, StateOK', Shape', OnePlaceEach, [Next]_vars
  PROVE  [Pool!Next]_(Pool!vars)
<1>n. Null \notin Tasks
  BY ConstantsAssumption
<1>q. /\ queue \in Seq(Tasks \cup {Null}) /\ ready \in Seq(Tasks) /\ swept \in Seq(Tasks)
      /\ arg \in Tasks \cup {Null}
      /\ held \in [Threads -> Tasks \cup {Null}]
  BY DEF StateOK
<1>u. /\ Unstarted = IF Closing THEN <<>> ELSE queue
      /\ Unstarted' = IF Closing' THEN <<>> ELSE queue'
  BY UnstartedIs, NotNull DEF Shape, Unstarted
<1>r. \A x : x \in Running <=> x # Null /\ \E w \in Threads : held[w] = x
  BY HeldRange DEF Running
<1>0. CASE Quiet
  BY <1>0, QuietIsStutter
<1>1. CASE OpenReady
  <2>1. Phase = "new" /\ Phase' = "open" /\ UNCHANGED <<Unstarted, Running, ready>>
    BY <1>1 DEF OpenReady, Phase, Closing, Unstarted, Running, lists, workers
  <2>2. Pool!Open
    BY <2>1 DEF Pool!Open
  <2> QED BY <2>2 DEF Pool!Next
<1>2. ASSUME NEW t \in Tasks, PushCount(t) PROVE UNCHANGED Pool!vars
  <2>1. UNCHANGED <<Phase, Unstarted, Running, ready>>
    BY <1>2 DEF PushCount, Phase, Closing, Unstarted, Running, lists
  <2> QED BY <2>1 DEF Pool!vars
<1>3. CASE PushQueue
  <2>1. /\ arg \in Tasks /\ Transit = {arg} /\ ~Closing /\ ~Closing'
        /\ Phase = "open" /\ Phase' = "open"
        /\ queue' = Append(queue, arg) /\ UNCHANGED <<Running, ready>>
    BY <1>3 DEF PushQueue, Transit, Shape, Closing, Phase, Running
  <2>2. arg \notin Range(queue) /\ arg \notin Range(ready) /\ arg \notin Running
    BY <1>n, <1>r, <2>1 DEF OnePlaceEach
  <2>3. Pool!Submit(arg)
    BY <1>u, <2>1, <2>2 DEF Pool!Submit, Pool!Range, Range
  <2> QED BY <2>1, <2>3 DEF Pool!Next
<1>4. ASSUME NEW t \in Tasks, CancelQueue(t) PROVE Pool!Next
  <2>1. ~Closing /\ ~Closing' /\ UNCHANGED <<Phase, Running, ready>>
    BY <1>4 DEF CancelQueue, Closing, Phase, Running, workers
  <2>2. \E i \in DOMAIN queue : queue[i] = t /\ queue' = RemoveAt(queue, i)
    BY <1>4 DEF CancelQueue
  <2>3. Pool!Withdraw(t)
    BY <1>u, <2>1, <2>2 DEF Pool!Withdraw, Pool!RemoveAt, RemoveAt
  <2> QED BY <2>3 DEF Pool!Next
<1>5. CASE CancelCount
  <2>1. UNCHANGED <<Phase, Unstarted, Running, ready>>
    BY <1>5 DEF CancelCount, Phase, Closing, Unstarted, Running, lists, workers
  <2> QED BY <2>1 DEF Pool!vars
<1>6. CASE Pop
  <2>1. /\ ready # <<>> /\ ready' = Tail(ready)
        /\ UNCHANGED <<Phase, Unstarted, Running>>
    BY <1>6 DEF Pop, Phase, Closing, Unstarted, Running, lists, workers, locals
  <2>2. Pool!Take
    BY <2>1 DEF Pool!Take
  <2> QED BY <2>2 DEF Pool!Next
<1>7. CASE CloseQueue
  <2>1. /\ Phase = "open" /\ Phase' = "shut" /\ Closing'
        /\ UNCHANGED <<Running, ready>>
    BY <1>7 DEF CloseQueue, Closing, Phase, Running
  <2>2. Pool!Shut
    BY <1>u, <2>1 DEF Pool!Shut
  <2> QED BY <2>2 DEF Pool!Next
<1>8. CASE CloseCount
  <2>1. UNCHANGED <<Phase, Unstarted, Running, ready>>
    BY <1>8 DEF CloseCount, WaitOrFinish, Phase, Closing, Unstarted, Running, lists, workers
  <2> QED BY <2>1 DEF Pool!vars
<1>9. ASSUME NEW w \in Threads, FetchTask(w) PROVE Pool!Next
  <2>1. /\ queue # <<>> /\ Head(queue) # Null /\ queue' = Tail(queue)
        /\ held' = [held EXCEPT ![w] = Head(queue)] /\ held[w] = Null
        /\ UNCHANGED <<Phase, Closing, ready>>
    BY <1>9 DEF FetchTask, Phase, Closing, locals, StateOK, Shape
  <2>2. ~Closing /\ ~Closing'
    BY <2>1 DEF Shape
  <2>3. Running' = Running \cup {Head(queue)}
    <3>1. /\ held'[w] = Head(queue) /\ \A v \in Threads : v # w => held'[v] = held[v]
          /\ Range(held') = {held'[v] : v \in Threads}
      BY <2>1, HeldUpdate
    <3>2. \A x : x \in Running' <=> x # Null /\ \E v \in Threads : held'[v] = x
      BY <3>1 DEF Running
    <3>3. \A x : x \in Running' <=> x \in Running \/ x = Head(queue)
      BY <1>r, <2>1, <3>1, <3>2
    <3> QED BY <3>3
  <2>4. Pool!Start
    BY <1>u, <2>1, <2>2, <2>3 DEF Pool!Start
  <2> QED BY <2>4 DEF Pool!Next
<1>10. ASSUME NEW w \in Threads, Dispatch(w) PROVE UNCHANGED Pool!vars
  <2>1. UNCHANGED <<Phase, Unstarted, Running, ready>>
    BY <1>10 DEF Dispatch, Phase, Closing, Unstarted, Running, lists, locals
  <2> QED BY <2>1 DEF Pool!vars
<1>11. ASSUME NEW w \in Threads, Deliver(w) PROVE Pool!Next
  <2>1. /\ held[w] \in Tasks /\ held' = [held EXCEPT ![w] = Null]
        /\ ready' = Append(ready, held[w])
        /\ UNCHANGED <<Phase, Unstarted>>
    BY <1>11 DEF Deliver, Shape, Phase, Closing, Unstarted, lists, locals
  <2>2. held[w] \in Running
    BY <1>n, <1>r, <2>1
  <2>3. \A v \in Threads : v # w => held[v] # held[w]
    BY <1>n, <2>1 DEF OnePlaceEach
  <2>4. Running' = Running \ {held[w]}
    <3>1. /\ held'[w] = Null /\ \A v \in Threads : v # w => held'[v] = held[v]
          /\ Range(held') = {held'[v] : v \in Threads}
      BY <2>1, HeldUpdate
    <3>2. \A x : x \in Running' <=> x # Null /\ \E v \in Threads : held'[v] = x
      BY <3>1 DEF Running
    <3>3. \A x : x \in Running' <=> x \in Running /\ x # held[w]
      BY <1>n, <1>r, <2>1, <2>3, <3>1, <3>2
    <3> QED BY <3>3
  <2>5. Pool!Finish(held[w])
    BY <2>1, <2>2, <2>4 DEF Pool!Finish
  <2> QED BY <2>1, <2>5 DEF Pool!Next
<1> QED
  BY StepKinds, <1>0, <1>1, <1>2, <1>3, <1>4, <1>5, <1>6, <1>7, <1>8, <1>9, <1>10, <1>11

----
(* The theorems.                                                            *)

\* The counting invariant with the places of the tasks: each is needed for
\* the next, since the lists are sequences of tasks only in Shape.
PlacesInv == IInv /\ OnePlaceEach /\ CallbackMatches

\* No task is anywhere when the service is made.
LEMMA InitPlaces == Init => PlacesInv
<1> SUFFICES ASSUME Init PROVE PlacesInv
  OBVIOUS
<1>1. StateOK /\ IInv
  BY InitShape, InitIInv
<1>2. Transit = {} /\ \A w \in Threads : held[w] = Null
  BY DEF Init, Transit
<1>3. OnePlaceEach
  <2>1. \A v, w \in Threads : held[v] = held[w] /\ held[v] # Null => v = w
    BY <1>2
  <2> QED BY <1>2, <2>1, RangeEmpty DEF Init, OnePlaceEach
<1>4. CallbackMatches
  BY <1>2, RangeEmpty, ConstantsAssumption DEF Init, CallbackMatches
<1> QED BY <1>1, <1>3, <1>4 DEF PlacesInv

\* The places are known in every reachable state.
THEOREM PlacesInvariance == Spec => []PlacesInv
<1>1. Init => PlacesInv
  BY InitPlaces
<1>2. PlacesInv /\ [Next]_vars => PlacesInv'
  BY IInvStep, OnePlaceStep, CallbackStep DEF PlacesInv, IInv
<1> QED BY <1>1, <1>2, PTL DEF Spec

\* A task object is in one place only: two threads never call into one task,
\* and no list has a task twice.
THEOREM TasksInOnePlace == Spec => []OnePlace
<1>1. PlacesInv => OnePlace
  BY SamePlaces DEF PlacesInv, IInv
<1> QED BY <1>1, PlacesInvariance, PTL

\* A task that waits was not called, a task that pop returns was dispatched
\* and never cancelled, whoever interleaves with whom.
THEOREM CallsMatch == Spec => []CallbackMatches
<1>1. PlacesInv => CallbackMatches
  BY DEF PlacesInv
<1> QED BY <1>1, PlacesInvariance, PTL

\* The threads, the locks and the counters implement the pool of TaskPool:
\* tasks start in the order of push, finish once, and close drops only what
\* no worker has taken.
THEOREM ServiceIsAPool == Spec => ImplementsPool
<1>1. PlacesInv /\ PlacesInv' /\ [Next]_vars => [Pool!Next]_(Pool!vars)
  BY StepIsPool DEF PlacesInv, IInv
<1> QED BY <1>1, InitIsPool, PlacesInvariance, PTL DEF Spec, ImplementsPool, Pool!Spec

----
(* The event loop: its inductive invariant.                                 *)

InService == {"fetched", "dispatch", "deliver"}

\* Tasks pushed and not popped.
Away == Count(InService) + Len(queue) + (IF client = "push_queue" THEN 1 ELSE 0) + Len(ready)

Before == {"unopened", "open_ready"}

\* Where the client thread is inside the service, for each place of the loop.
Turn ==
  /\ remaining \in Int
  /\ loop \in {"start", "select", "read", "pop", "close"}
  /\ loop = "start" => client \in Before \cup {"idle", "push_queue"}
  /\ loop = "select" => client = "idle"
  /\ loop = "read" => client \in {"idle", "reading"}
  /\ loop = "pop" => client \in {"idle", "push_queue"}
  /\ loop = "close" => client \in {"idle", "close_queue", "close_count", "close_wait",
                                   "close_check", "closed"}

\* Nothing happens before the pipe is installed, and it stays until close.
Installed ==
  /\ client \in Before => queue = <<>> /\ ready = <<>> /\ \A w \in Threads : held[w] = Null
  /\ loop # "close" /\ client \notin Before => opened

\* What NeverMissed says, from the first push on.
Heard == loop \in {"start", "select"} /\ ready # <<>> => pipe > 0

\* n counts the tasks that are away, and is zero when the loop is left.
Balance ==
  /\ ~Closing => remaining = Away
  /\ loop = "close" => remaining = 0

\* When the loop is left no worker has a task, and none is ready.
Emptied == loop = "close" => ready = <<>> /\ \A w \in Threads : held[w] = Null

Uncancelled == \A t \in Tasks : callback[t] # "cancelled"

LoopInv ==
  /\ IInv
  /\ Turn /\ Installed /\ Heard /\ Balance /\ Emptied
  /\ swept = <<>> /\ Uncancelled

\* The parts of Away are natural numbers.
LEMMA AwayType ==
  ASSUME StateOK
  PROVE  Count(InService) \in Nat /\ Len(queue) \in Nat /\ Len(ready) \in Nat
<1>1. Count(InService) \in Nat
  BY CountType
<1>2. queue \in Seq(Tasks \cup {Null}) /\ ready \in Seq(Tasks)
  BY DEF StateOK
<1> QED BY <1>1, <1>2

----
(* The loop is a client of the service.                                     *)

\* The program starts with a service just made.
LEMMA LoopInitIsInit == LoopInit => Init
BY DEF LoopInit

\* Whatever the loop does is a call the service allows, or no call at all.
LEMMA LoopStepIsStep == [LoopNext]_loopVars => [Next]_vars
<1>1. ASSUME NEW t \in Tasks, LoopPush(t) PROVE Next
  BY <1>1 DEF LoopPush, Next, ClientBegin
<1>2. LoopInCall => Next
  BY DEF LoopInCall, Next, ClientContinue
<1>3. LoopRead => Next
  BY DEF LoopRead, Next, ClientBegin, ClientContinue
<1>4. LoopPop \/ LoopClose => Next
  BY DEF LoopPop, LoopClose, Next, ClientBegin
<1>5. LoopPushed \/ LoopSelect \/ LoopPopped => UNCHANGED vars
  BY DEF LoopPushed, LoopSelect, LoopPopped
<1>6. LoopStep => [Next]_vars
  BY <1>1, <1>2, <1>3, <1>4, <1>5 DEF LoopStep, Next, ClientBegin
<1> QED BY <1>6 DEF LoopNext, Next, loopVars

----
(* The worker threads, as the loop sees them.                               *)

\* A worker leaves the tasks in service alone, or takes one from the queue,
\* or puts one into the ready list and writes the pipe if there is one.
LEMMA WorkerEffect ==
  ASSUME StateOK, Shape, NEW w \in Threads, WorkerStep(w) \/ SpuriousFetch(w)
  PROVE  /\ client' = client \/ (client = "close_wait" /\ client' = "close_check")
         /\ UNCHANGED <<opened, swept>>
         /\ Uncancelled => Uncancelled'
         /\ \/ /\ UNCHANGED <<queue, ready, pipe, held>>
               /\ Count(InService)' = Count(InService)
            \/ /\ ~Closing /\ queue # <<>> /\ queue' = Tail(queue)
               /\ UNCHANGED <<ready, pipe>>
               /\ Count(InService)' = Count(InService) + 1
            \/ /\ held[w] \in Tasks /\ ready' = Append(ready, held[w])
               /\ UNCHANGED queue
               /\ opened => pipe' > 0
               /\ Count(InService)' = Count(InService) - 1
<1> DEFINE Goal == \/ /\ UNCHANGED <<queue, ready, pipe, held>>
                      /\ Count(InService)' = Count(InService)
                   \/ /\ ~Closing /\ queue # <<>> /\ queue' = Tail(queue)
                      /\ UNCHANGED <<ready, pipe>>
                      /\ Count(InService)' = Count(InService) + 1
                   \/ /\ held[w] \in Tasks /\ ready' = Append(ready, held[w])
                      /\ UNCHANGED queue
                      /\ opened => pipe' > 0
                      /\ Count(InService)' = Count(InService) - 1
<1>1. client' = client \/ (client = "close_wait" /\ client' = "close_check")
  BY DEF WorkerStep, FetchWait, FetchTask, FetchNull, CountFetched, Stop, Dispatch, Deliver,
         AccountStay, AccountExit, SpuriousFetch, NotifyClose, locals
<1>2. UNCHANGED <<opened, swept>>
  BY DEF WorkerStep, FetchWait, FetchTask, FetchNull, CountFetched, Stop, Dispatch, Deliver,
         AccountStay, AccountExit, SpuriousFetch, locals, notice
<1>3. callback' = callback \/ callback' = [callback EXCEPT ![held[w]] = "dispatched"]
  BY DEF WorkerStep, FetchWait, FetchTask, FetchNull, CountFetched, Stop, Dispatch, Deliver,
         AccountStay, AccountExit, SpuriousFetch
<1>4. Uncancelled => Uncancelled'
  BY <1>3 DEF Uncancelled, StateOK
<1>5. Goal
  <2>1. CASE FetchWait(w) \/ SpuriousFetch(w) \/ FetchNull(w)
    <3>1. PICK b \in {"waiting", "fetch", "stopping"} : pc' = [pc EXCEPT ![w] = b]
      BY <2>1 DEF FetchWait, SpuriousFetch, FetchNull
    <3>2. pc[w] \notin InService /\ b \notin InService /\ UNCHANGED <<queue, ready, pipe, held>>
      BY <2>1 DEF FetchWait, SpuriousFetch, FetchNull, InService, lists, notice
    <3> QED BY <3>1, <3>2, Stay
  <2>2. CASE Stop(w) \/ AccountStay(w) \/ AccountExit(w)
    <3>1. PICK b \in {"none", "fetch"} : pc' = [pc EXCEPT ![w] = b]
      BY <2>2 DEF Stop, AccountStay, AccountExit
    <3>2. pc[w] \notin InService /\ b \notin InService /\ UNCHANGED <<queue, ready, pipe, held>>
      BY <2>2 DEF Stop, AccountStay, AccountExit, InService, lists, notice
    <3> QED BY <3>1, <3>2, Stay
  <2>3. CASE CountFetched(w) \/ Dispatch(w)
    <3>1. PICK b \in {"dispatch", "deliver"} : pc' = [pc EXCEPT ![w] = b]
      BY <2>3 DEF CountFetched, Dispatch
    <3>2. pc[w] \in InService /\ b \in InService /\ UNCHANGED <<queue, ready, pipe, held>>
      BY <2>3 DEF CountFetched, Dispatch, InService, lists, notice
    <3> QED BY <3>1, <3>2, Stay
  <2>4. CASE FetchTask(w)
    <3>1. Count(InService)' = Count(InService) + 1
      BY <2>4, Enter DEF FetchTask, InService
    <3>2. ~Closing
      BY <2>4 DEF FetchTask, Shape
    <3> QED BY <2>4, <3>1, <3>2 DEF FetchTask, notice
  <2>5. CASE Deliver(w)
    <3>1. Count(InService)' = Count(InService) - 1
      BY <2>5, Leave DEF Deliver, InService
    <3>2. opened => pipe' > 0
      BY <2>5, ConstantsAssumption DEF Deliver, StateOK
    <3> QED BY <2>5, <3>1, <3>2 DEF Deliver, Shape, lists
  <2> QED BY <2>1, <2>2, <2>3, <2>4, <2>5 DEF WorkerStep
<1> QED BY <1>1, <1>2, <1>4, <1>5

\* With no task in the service no worker can have one.
LEMMA WorkersStayEmpty ==
  ASSUME StateOK, Shape, NEW w \in Threads, WorkerStep(w) \/ SpuriousFetch(w),
         queue = <<>>, \A v \in Threads : held[v] = Null
  PROVE  /\ UNCHANGED <<queue, ready>>
         /\ \A v \in Threads : held'[v] = Null
<1>1. pc[w] # "deliver"
  BY ConstantsAssumption DEF Shape
<1> QED BY <1>1 DEF StateOK, WorkerStep, FetchWait, FetchTask, FetchNull, CountFetched, Stop, Dispatch,
         Deliver, AccountStay, AccountExit, SpuriousFetch, lists

----
(* Every step keeps the invariant, conjunct by conjunct.                    *)

\* Each place of the loop has its places of the client thread.
LEMMA TurnStep == LoopInv /\ [LoopNext]_loopVars => Turn'
<1> SUFFICES ASSUME LoopInv, [LoopNext]_loopVars PROVE Turn'
  OBVIOUS
<1> USE DEF LoopInv, Turn, Before
<1>1. ASSUME NEW l \in Limits, OpenThreads(l) /\ still PROVE Turn'
  BY <1>1 DEF OpenThreads, still
<1>2. ASSUME NEW t \in Tasks, LoopPush(t) PROVE Turn'
  BY <1>2 DEF LoopPush, PushCount
<1>3. CASE LoopInCall
  BY <1>3 DEF LoopInCall, still, OpenReady, PushQueue, CloseQueue, CloseCount, CloseCheck, WaitOrFinish
<1>4. CASE LoopPushed \/ LoopSelect \/ LoopPopped
  BY <1>4 DEF LoopPushed, LoopSelect, LoopPopped, vars, locals
<1>5. CASE LoopRead
  BY <1>5 DEF LoopRead, ReadByte, ReadReturn
<1>6. CASE LoopPop \/ LoopClose
  BY <1>6 DEF LoopPop, Pop, LoopClose, CloseReady, still, locals
<1>7. ASSUME NEW w \in Threads, WorkerStep(w) \/ SpuriousFetch(w), still PROVE Turn'
  BY <1>7, WorkerEffect DEF still, IInv
<1>8. CASE SpuriousClose /\ still
  BY <1>8 DEF SpuriousClose, still
<1>9. CASE UNCHANGED loopVars
  BY <1>9 DEF loopVars, vars, locals
<1> QED BY <1>1, <1>2, <1>3, <1>4, <1>5, <1>6, <1>7, <1>8, <1>9 DEF LoopNext, LoopStep

\* Nothing is pushed before open returned, and only close takes the pipe away.
LEMMA InstalledStep == LoopInv /\ [LoopNext]_loopVars => Installed'
<1> SUFFICES ASSUME LoopInv, [LoopNext]_loopVars PROVE Installed'
  OBVIOUS
<1> USE DEF LoopInv, Turn, Before, Installed
<1>1. ASSUME NEW l \in Limits, OpenThreads(l) /\ still PROVE Installed'
  BY <1>1 DEF OpenThreads, still, lists, notice
<1>2. ASSUME NEW t \in Tasks, LoopPush(t) PROVE Installed'
  BY <1>2 DEF LoopPush, PushCount, notice
<1>3. CASE LoopInCall
  BY <1>3 DEF LoopInCall, still, OpenReady, PushQueue, CloseQueue, CloseCount, CloseCheck, WaitOrFinish, notice
<1>4. CASE LoopPushed \/ LoopSelect \/ LoopPopped
  BY <1>4 DEF LoopPushed, LoopSelect, LoopPopped, vars, locals, lists, notice, workers
<1>5. CASE LoopRead
  BY <1>5 DEF LoopRead, ReadByte, ReadReturn, notice
<1>6. CASE LoopPop \/ LoopClose
  BY <1>6 DEF LoopPop, Pop, LoopClose, CloseReady, still, locals, notice
<1>7. ASSUME NEW w \in Threads, WorkerStep(w) \/ SpuriousFetch(w), still PROVE Installed'
  BY <1>7, WorkerEffect, WorkersStayEmpty DEF still, IInv
<1>8. CASE SpuriousClose /\ still
  BY <1>8 DEF SpuriousClose, still, notice
<1>9. CASE UNCHANGED loopVars
  BY <1>9 DEF loopVars, vars, locals, lists, notice, workers
<1> QED BY <1>1, <1>2, <1>3, <1>4, <1>5, <1>6, <1>7, <1>8, <1>9 DEF LoopNext, LoopStep

\* The pipe is written with every task that becomes ready, and read empty only
\* when the list is emptied next.
LEMMA HeardStep == LoopInv /\ [LoopNext]_loopVars => Heard'
<1> SUFFICES ASSUME LoopInv, [LoopNext]_loopVars PROVE Heard'
  OBVIOUS
<1> USE DEF LoopInv, Turn, Before, Installed, Heard
<1>1. ASSUME NEW l \in Limits, OpenThreads(l) /\ still PROVE Heard'
  BY <1>1 DEF OpenThreads, still, notice
<1>2. ASSUME NEW t \in Tasks, LoopPush(t) PROVE Heard'
  BY <1>2 DEF LoopPush, PushCount, notice
<1>3. CASE LoopInCall
  BY <1>3 DEF LoopInCall, still, OpenReady, PushQueue, CloseQueue, CloseCount, CloseCheck, WaitOrFinish, notice
<1>4. CASE LoopPushed \/ LoopSelect \/ LoopPopped
  BY <1>4 DEF LoopPushed, LoopSelect, LoopPopped, vars, notice
<1>5. CASE LoopRead
  BY <1>5 DEF LoopRead
<1>6. CASE LoopPop \/ LoopClose
  BY <1>6 DEF LoopPop, LoopClose, still
<1>7. ASSUME NEW w \in Threads, WorkerStep(w) \/ SpuriousFetch(w), still PROVE Heard'
  <2>1. ASSUME loop \in {"start", "select"}, UNCHANGED <<ready, pipe>> PROVE Heard'
    BY <1>7, <2>1 DEF still
  <2>2. ASSUME held[w] \in Tasks PROVE opened \/ loop \notin {"start", "select"}
    BY <2>2, ConstantsAssumption
  <2> QED BY <1>7, <2>1, <2>2, WorkerEffect DEF still, IInv
<1>8. CASE SpuriousClose /\ still
  BY <1>8 DEF SpuriousClose, still, notice
<1>9. CASE UNCHANGED loopVars
  BY <1>9 DEF loopVars, vars, notice
<1> QED BY <1>1, <1>2, <1>3, <1>4, <1>5, <1>6, <1>7, <1>8, <1>9 DEF LoopNext, LoopStep

\* Close finds the queue empty, so it cancels nothing.
LEMMA UncancelledStep == LoopInv /\ [LoopNext]_loopVars => swept' = <<>> /\ Uncancelled'
<1> SUFFICES ASSUME LoopInv, [LoopNext]_loopVars PROVE swept' = <<>> /\ Uncancelled'
  OBVIOUS
<1> USE DEF LoopInv, Uncancelled
<1>1. ASSUME NEW l \in Limits, OpenThreads(l) PROVE swept' = <<>> /\ Uncancelled'
  BY <1>1 DEF OpenThreads
<1>2. ASSUME NEW t \in Tasks, LoopPush(t) PROVE swept' = <<>> /\ Uncancelled'
  BY <1>2 DEF LoopPush, PushCount, IInv, StateOK
<1>3. CASE OpenReady \/ PushQueue \/ CloseCheck
  BY <1>3 DEF OpenReady, PushQueue, CloseCheck
<1>4. CASE CloseQueue
  <2>1. Away = 0
    BY <1>4 DEF CloseQueue, Balance, Turn, Before, Closing
  <2>2. Count(InService) \in Nat /\ Len(queue) \in Nat /\ Len(ready) \in Nat
    BY AwayType DEF IInv
  <2>3. Len(queue) = 0
    BY <2>1, <2>2 DEF Away
  <2>4. queue = <<>>
    BY <2>3 DEF IInv, StateOK
  <2> QED BY <1>4, <2>4 DEF CloseQueue
<1>5. CASE CloseCount
  BY <1>5, RangeEmpty DEF CloseCount
<1>6. CASE LoopPushed \/ LoopSelect \/ LoopPopped
  BY <1>6 DEF LoopPushed, LoopSelect, LoopPopped, vars, locals
<1>7. CASE LoopRead
  BY <1>7 DEF LoopRead, ReadByte, ReadReturn
<1>8. CASE LoopPop \/ LoopClose
  BY <1>8 DEF LoopPop, Pop, LoopClose, CloseReady, locals
<1>9. ASSUME NEW w \in Threads, WorkerStep(w) \/ SpuriousFetch(w) PROVE swept' = <<>> /\ Uncancelled'
  BY <1>9, WorkerEffect DEF IInv
<1>10. CASE SpuriousClose
  BY <1>10 DEF SpuriousClose
<1>11. CASE UNCHANGED loopVars
  BY <1>11 DEF loopVars, vars, locals
<1> QED BY <1>1, <1>2, <1>3, <1>4, <1>5, <1>6, <1>7, <1>8, <1>9, <1>10, <1>11
        DEF LoopNext, LoopStep, LoopInCall

\* Moves of threads that are all outside the service or all inside it.
LEMMA ServiceStays ==
  ASSUME \A w \in Threads : pc'[w] \in InService <=> pc[w] \in InService
  PROVE  Count(InService)' = Count(InService)
<1>1. {w \in Threads : pc'[w] \in InService} = {w \in Threads : pc[w] \in InService}
  OBVIOUS
<1> QED BY <1>1 DEF Count, InService

\* A step that moves no task into or out of the service.
LEMMA SameBalance ==
  ASSUME Balance, UNCHANGED <<queue, ready, remaining, loop>>,
         Count(InService)' = Count(InService),
         client = "push_queue" <=> client' = "push_queue",
         ~Closing' => ~Closing
  PROVE  Balance'
BY DEF Balance, Away

\* Every push adds one to n and to the tasks away, every pop takes one from
\* both, and no other step changes either.
LEMMA BalanceStep == LoopInv /\ [LoopNext]_loopVars => Balance'
<1> SUFFICES ASSUME LoopInv, [LoopNext]_loopVars PROVE Balance'
  OBVIOUS
<1>a. Balance /\ Turn /\ Installed /\ StateOK /\ Shape
  BY DEF LoopInv, IInv
<1>b. Count(InService) \in Nat /\ Len(queue) \in Nat /\ Len(ready) \in Nat /\ remaining \in Int
  BY <1>a, AwayType DEF Turn
<1>1. ASSUME NEW l \in Limits, OpenThreads(l) /\ still PROVE Balance'
  <2>1. PICK S \in SUBSET Absent : pc' = [w \in Threads |-> IF w \in S THEN "fetch" ELSE pc[w]]
    BY <1>1 DEF OpenThreads
  <2>2. Count(InService)' = Count(InService)
    BY <2>1, ServiceStays DEF Absent, InService
  <2> QED BY <1>a, <1>1, <2>2, SameBalance DEF OpenThreads, still, lists, Closing
<1>2. ASSUME NEW t \in Tasks, LoopPush(t) PROVE Balance'
  <2>1. UNCHANGED pc \/ \E w \in Absent : pc' = [pc EXCEPT ![w] = "fetch"]
    BY <1>2 DEF LoopPush, PushCount
  <2>2. Count(InService)' = Count(InService)
    BY <1>a, <2>1, ServiceStays DEF Absent, InService, StateOK
  <2>3. /\ client = "idle" /\ client' = "push_queue" /\ UNCHANGED <<queue, ready, loop>>
        /\ remaining' = remaining + 1 /\ loop # "close"
    BY <1>2 DEF LoopPush, PushCount, lists
  <2> QED BY <1>a, <1>b, <2>2, <2>3 DEF Balance, Away, Closing
<1>3. CASE OpenReady /\ still
  <2>1. Count(InService)' = Count(InService)
    BY <1>3, Still DEF OpenReady, workers
  <2> QED BY <1>a, <1>3, <2>1, SameBalance DEF OpenReady, still, lists, Closing
<1>4. CASE PushQueue /\ still
  <2>1. UNCHANGED pc \/ \E w \in Waiting : pc' = [pc EXCEPT ![w] = "fetch"]
    BY <1>4 DEF PushQueue, NotifyOne
  <2>2. Count(InService)' = Count(InService)
    BY <1>a, <2>1, ServiceStays DEF Waiting, InService, StateOK
  <2>3. /\ client = "push_queue" /\ client' = "idle" /\ queue' = Append(queue, arg)
        /\ UNCHANGED <<ready, loop, remaining>>
    BY <1>4 DEF PushQueue, still
  <2>4. Len(queue') = Len(queue) + 1
    BY <1>a, <2>3 DEF StateOK
  <2>5. loop # "close"
    BY <1>a, <2>3 DEF Turn
  <2> QED BY <1>a, <1>b, <2>2, <2>3, <2>4, <2>5 DEF Balance, Away, Closing
<1>5. CASE (CloseQueue \/ CloseCount \/ CloseCheck \/ SpuriousClose) /\ still
  <2>1. Closing' /\ UNCHANGED <<loop, remaining>>
    BY <1>5 DEF CloseQueue, CloseCount, CloseCheck, SpuriousClose, WaitOrFinish, still, Closing
  <2> QED BY <1>a, <2>1 DEF Balance
<1>6. CASE LoopPushed \/ LoopSelect \/ LoopPopped
  <2>1. /\ UNCHANGED <<queue, ready, pc, client, remaining>> /\ loop # "close"
        /\ loop' = "close" => remaining = 0
    BY <1>6 DEF LoopPushed, LoopSelect, LoopPopped, vars, lists, workers, locals
  <2>2. Count(InService)' = Count(InService)
    BY <2>1, Still
  <2> QED BY <1>a, <2>1, <2>2 DEF Balance, Away, Closing
<1>7. CASE LoopRead
  <2>1. /\ UNCHANGED <<queue, ready, pc, remaining>> /\ loop' # "close"
        /\ client \in {"idle", "reading"} /\ client' \in {"idle", "reading"}
    BY <1>7 DEF LoopRead, ReadByte, ReadReturn, lists, notice, workers
  <2>2. Count(InService)' = Count(InService)
    BY <2>1, Still
  <2> QED BY <1>a, <2>1, <2>2 DEF Balance, Away, Closing
<1>8. CASE LoopPop
  <2>1. /\ UNCHANGED <<queue, pc, client, loop>> /\ loop # "close" /\ client = "idle"
        /\ ready # <<>> /\ ready' = Tail(ready) /\ remaining' = remaining - 1
    BY <1>8 DEF LoopPop, Pop, lists, workers, locals
  <2>2. Count(InService)' = Count(InService)
    BY <2>1, Still
  <2>3. Len(ready') = Len(ready) - 1
    BY <1>a, <2>1 DEF StateOK
  <2> QED BY <1>a, <1>b, <2>1, <2>2, <2>3 DEF Balance, Away, Closing
<1>9. CASE LoopClose
  <2>1. Count(InService)' = Count(InService)
    BY <1>9, Still DEF LoopClose, CloseReady, workers
  <2> QED BY <1>a, <1>9, <2>1, SameBalance DEF LoopClose, CloseReady, still, lists, Closing
<1>10. ASSUME NEW w \in Threads, WorkerStep(w) \/ SpuriousFetch(w), still PROVE Balance'
  <2>1. /\ client' = client \/ (client = "close_wait" /\ client' = "close_check")
        /\ UNCHANGED <<loop, remaining>>
    BY <1>a, <1>10, WorkerEffect DEF still
  <2>2. CASE /\ UNCHANGED <<queue, ready>>
             /\ Count(InService)' = Count(InService)
    BY <1>a, <2>1, <2>2, SameBalance DEF Closing
  <2>3. CASE /\ queue # <<>> /\ queue' = Tail(queue) /\ UNCHANGED ready
             /\ Count(InService)' = Count(InService) + 1
    <3>1. Len(queue') = Len(queue) - 1
      BY <1>a, <2>3 DEF StateOK
    <3> QED BY <1>a, <1>b, <2>1, <2>3, <3>1 DEF Balance, Away, Closing
  <2>4. CASE /\ held[w] \in Tasks /\ ready' = Append(ready, held[w]) /\ UNCHANGED queue
             /\ Count(InService)' = Count(InService) - 1
    <3>1. Len(ready') = Len(ready) + 1
      BY <1>a, <2>4 DEF StateOK
    <3>2. Count(InService)' = Count(InService) - 1 /\ queue' = queue
      BY <2>4
    <3>3. client = "push_queue" <=> client' = "push_queue"
      BY <2>1
    <3>4. Away' = Away
      BY <1>b, <3>1, <3>2, <3>3 DEF Away
    <3> QED BY <1>a, <2>1, <3>4 DEF Balance, Closing
  <2> QED BY <1>a, <1>10, <2>2, <2>3, <2>4, WorkerEffect
<1>11. CASE UNCHANGED loopVars
  <2>1. UNCHANGED <<queue, ready, pc, client, remaining, loop>>
    BY <1>11 DEF loopVars, vars, lists, workers, locals
  <2>2. Count(InService)' = Count(InService)
    BY <2>1, Still
  <2> QED BY <1>a, <2>1, <2>2, SameBalance DEF Closing
<1> QED BY <1>1, <1>2, <1>3, <1>4, <1>5, <1>6, <1>7, <1>8, <1>9, <1>10, <1>11
        DEF LoopNext, LoopStep, LoopInCall

\* A count of zero means that no worker has a task.
LEMMA NoneInService ==
  ASSUME StateOK, Shape, Count(InService) = 0
  PROVE  \A w \in Threads : held[w] = Null
<1>1. {w \in Threads : pc[w] \in InService} = {}
  BY CountType, FS_EmptySet DEF Count
<1> QED BY <1>1 DEF Shape, StateOK, InService

\* The loop is left with nothing away, and nothing is pushed after it.
LEMMA EmptiedStep == LoopInv /\ [LoopNext]_loopVars => Emptied'
<1> SUFFICES ASSUME LoopInv, [LoopNext]_loopVars, loop' = "close"
             PROVE  ready' = <<>> /\ \A w \in Threads : held'[w] = Null
  BY DEF Emptied
<1>a. Emptied /\ Balance /\ Turn /\ StateOK /\ Shape
  BY DEF LoopInv, IInv
<1>1. CASE loop # "close"
  <2>1. LoopPopped /\ remaining = 0
    BY <1>1, <1>a DEF LoopNext, LoopStep, LoopPush, LoopInCall, LoopPushed, LoopSelect, LoopRead, LoopPop,
          LoopPopped, LoopClose, still, loopVars, Turn
  <2>2. Away = 0 /\ ready = <<>> /\ UNCHANGED <<ready, held>>
    BY <2>1, <1>a DEF LoopPopped, Balance, Closing, vars, workers
  <2>3. Count(InService) = 0
    BY <2>2, <1>a, AwayType DEF Away
  <2> QED BY <2>2, <2>3, <1>a, NoneInService
<1>2. CASE loop = "close"
  <2>1. ready = <<>> /\ \A w \in Threads : held[w] = Null
    BY <1>2, <1>a DEF Emptied
  <2>2. ASSUME NEW w \in Threads, WorkerStep(w) \/ SpuriousFetch(w)
        PROVE  ready' = <<>> /\ \A v \in Threads : held'[v] = Null
    <3>1. CASE Closing
      <4>1. pc[w] # "deliver"
        BY <2>1, <1>a, ConstantsAssumption DEF Shape
      <4>2. ~FetchTask(w)
        BY <3>1, <1>a DEF Shape, FetchTask
      <4> QED BY <2>1, <2>2, <4>1, <4>2
              DEF WorkerStep, FetchWait, FetchNull, CountFetched, Stop, Dispatch, Deliver,
                  AccountStay, AccountExit, SpuriousFetch
    <3>2. CASE ~Closing
      <4>1. Away = 0
        BY <3>2, <1>2, <1>a DEF Balance
      <4>2. queue = <<>>
        BY <4>1, <1>a, AwayType DEF Away, StateOK
      <4> QED BY <2>1, <2>2, <4>2, <1>a, WorkersStayEmpty
    <3> QED BY <3>1, <3>2
  <2>3. CASE LoopInCall \/ LoopClose \/ (SpuriousClose /\ still) \/ UNCHANGED loopVars
    BY <2>1, <2>3, <1>a, <1>2
       DEF LoopInCall, LoopClose, CloseReady, SpuriousClose, OpenReady, PushQueue, CloseQueue, CloseCount,
           CloseCheck, WaitOrFinish, workers, loopVars, vars, Turn
  <2> QED BY <2>2, <2>3, <1>2, <1>a
          DEF LoopNext, LoopStep, LoopPush, LoopPushed, LoopSelect, LoopRead, LoopPop, LoopPopped,
              OpenThreads, Turn, Before, still
<1> QED BY <1>1, <1>2

----
(* The theorems.                                                            *)

\* Before the first call nothing is away.
LEMMA InitLoopInv == LoopInit => LoopInv
<1> SUFFICES ASSUME LoopInit PROVE LoopInv
  OBVIOUS
<1>1. Init /\ IInv /\ loop = "start" /\ remaining = 0
  BY InitIInv DEF LoopInit
<1>2. {w \in Threads : pc[w] \in InService} = {}
  BY <1>1 DEF Init, InService
<1>3. Count(InService) = 0
  BY <1>2, FS_EmptySet DEF Count
<1>4. Away = 0
  BY <1>1, <1>3 DEF Init, Away
<1>5. Turn /\ Installed /\ Heard /\ Balance /\ Emptied
  BY <1>1, <1>4 DEF Init, Turn, Installed, Heard, Balance, Emptied, Before
<1>6. swept = <<>> /\ Uncancelled
  BY <1>1 DEF Init, Uncancelled
<1> QED BY <1>1, <1>5, <1>6 DEF LoopInv

\* The invariant of the loop and of the service below it, in every reachable
\* state.
THEOREM LoopInvariance == LoopSpec => []LoopInv
<1>1. LoopInit => LoopInv
  BY InitLoopInv
<1>2. LoopInv /\ [LoopNext]_loopVars => LoopInv'
  <2>1. LoopInv /\ [LoopNext]_loopVars => IInv'
    BY LoopStepIsStep, IInvStep DEF LoopInv
  <2> QED BY <2>1, TurnStep, InstalledStep, HeardStep, BalanceStep, EmptiedStep, UncancelledStep DEF LoopInv
<1> QED BY <1>1, <1>2, PTL DEF LoopSpec

\* The event loop is a client as AsyncService allows it: every theorem about
\* the service holds of the service under the loop.
THEOREM LoopIsAClient == LoopSpec => Spec
BY LoopInitIsInit, LoopStepIsStep, PTL DEF LoopSpec, Spec

\* The loop never sleeps in select while a task waits in the ready list,
\* although the write of a notification is dropped when the pipe is full.
THEOREM NoNotificationMissed == LoopSpec => []NeverMissed
<1>1. LoopInv => NeverMissed
  BY DEF LoopInv, Heard, NeverMissed
<1> QED BY <1>1, LoopInvariance, PTL

\* When the loop is left every task that was pushed came back, and close finds
\* none to cancel.
THEOREM AllCameBack == LoopSpec => []NothingCancelled
<1>1. ASSUME LoopInv, loop = "close"
      PROVE  Tasks \cap (Range(queue) \cup Range(held) \cup Range(ready)) = {}
  <2>1. ready = <<>> /\ \A w \in Threads : held[w] = Null
    BY <1>1 DEF LoopInv, Emptied
  <2>2. queue = <<>> \/ queue = <<Null>>
    <3>1. CASE Closing
      BY <1>1, <3>1 DEF LoopInv, IInv, Shape
    <3>2. CASE ~Closing
      BY <1>1, <3>2, AwayType DEF LoopInv, IInv, StateOK, Balance, Away
    <3> QED BY <3>1, <3>2
  <2>3. Range(queue) \subseteq {Null}
    BY <2>2 DEF Range
  <2>4. Range(held) \subseteq {Null} /\ Range(ready) = {}
    BY <1>1, <2>1 DEF LoopInv, IInv, StateOK, Range
  <2> QED BY <2>3, <2>4, ConstantsAssumption
<1>2. LoopInv => NothingCancelled
  BY <1>1 DEF LoopInv, Uncancelled, NothingCancelled
<1> QED BY <1>2, LoopInvariance, PTL
=============================================================================
