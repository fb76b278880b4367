------------------------------- MODULE LuaProofs -------------------------------
(***************************************************************************)
(* Theorems about what the bindings do to Lua.  LuaTasks, for any number   *)
(* of tasks: the collector never takes a task the pool has, and the        *)
(* registry keeps no other task.  LuaX, for any tables, keys, names and    *)
(* integer types: every helper does what its name says.                    *)
(***************************************************************************)
EXTENDS LuaTasks, LuaX, SequenceLemmas


----
(* The inductive invariant.  That the collector leaves the tasks in flight *)
(* alone rests on the references being exactly those, that on a task being *)
(* in flight once, and both on who may still run when the service is shut. *)

Typed ==
  /\ phase \in {"new", "open", "shut"}
  /\ pending \in Seq(Tasks) /\ running \in SUBSET Tasks /\ done \in Seq(Tasks)
  /\ service \in {"none", "object", "finalised"}
  /\ alive \in SUBSET Tasks /\ younger \in SUBSET Tasks
  /\ anchored \in SUBSET Tasks /\ stranded \in SUBSET Tasks
  /\ reach \in SUBSET (Tasks \cup {Service})
  /\ caller \in {"program", "close", "gc", "exit", "over"}

\* A task is in flight once.
Once ==
  /\ IsInjective(pending) /\ IsInjective(done)
  /\ Range(pending) \cap running = {}
  /\ (Range(pending) \cup running) \cap Range(done) = {}

\* Who owns the pool, and what has stopped when the owner goes on.
Owned ==
  /\ phase = "new" => pending = <<>> /\ running = {} /\ done = <<>>
  /\ phase = "open" => caller = "program" /\ service = "object"
  /\ phase = "shut" => pending = <<>> /\ (caller \in {"program", "over"} => running = {})
  /\ service = "none" => phase = "new"
  /\ service = "object" => phase # "new"
  /\ caller \in {"close", "gc"} => service = "object" /\ phase = "shut"
  /\ caller \in {"exit", "over"} => reach = {} /\ stranded = {}
  /\ Service \in reach => service = "object"
  /\ caller = "gc" => Service \notin reach

\* What the program reaches and what is stranded is alive, and no task in
\* flight is stranded while a pop can still return it.
Held ==
  /\ reach \ {Service} \subseteq alive
  /\ stranded \subseteq alive
  /\ stranded \cap (Range(pending) \cup running) = {}
  /\ service = "object" => stranded \cap Range(done) = {}

IInv == Typed /\ Once /\ Owned /\ Held /\ AliveWhileInFlight /\ AnchoredExactly

----
(* What the operations of the pool do to the tasks in its three places.     *)

\* push adds a task that was nowhere.
LEMMA SubmitMoves ==
  ASSUME Typed, Once, NEW t \in Tasks, Pool!Submit(t)
  PROVE  /\ phase = "open" /\ UNCHANGED <<phase, running, done>>
         /\ pending' \in Seq(Tasks) /\ Range(pending') = Range(pending) \cup {t}
         /\ t \notin InFlight
         /\ Once'
<1>1. /\ phase = "open" /\ UNCHANGED <<phase, running, done>>
      /\ pending' = Append(pending, t) /\ t \notin InFlight
  BY DEF Pool!Submit, Pool!Range, InFlight, Range
<1>2. /\ pending' \in Seq(Tasks) /\ Range(pending') = Range(pending) \cup {t}
      /\ IsInjective(pending')
  BY <1>1, AppendRange DEF Typed, Once, InFlight
<1> QED BY <1>1, <1>2 DEF Once, InFlight

\* cancel takes a task out of the queue.
LEMMA WithdrawMoves ==
  ASSUME Typed, Once, NEW t \in Tasks, Pool!Withdraw(t)
  PROVE  /\ UNCHANGED <<phase, running, done>> /\ pending # <<>>
         /\ pending' \in Seq(Tasks) /\ Range(pending') = Range(pending) \ {t}
         /\ t \in Range(pending)
         /\ Once'
<1>1. PICK i \in DOMAIN pending : pending[i] = t /\ pending' = RemoveAt(pending, i)
  BY DEF Pool!Withdraw, Pool!RemoveAt, RemoveAt
<1>2. UNCHANGED <<phase, running, done>>
  BY DEF Pool!Withdraw
<1>3. /\ pending' \in Seq(Tasks) /\ Range(pending') = Range(pending) \ {t}
      /\ IsInjective(pending')
  BY <1>1, RemoveAtRange DEF Typed, Once
<1>4. t \in Range(pending) /\ pending # <<>>
  BY <1>1 DEF Range
<1> QED BY <1>2, <1>3, <1>4 DEF Once

\* A worker starts the oldest task of the queue.
LEMMA StartMoves ==
  ASSUME Typed, Once, Pool!Start
  PROVE  \E t \in Tasks :
           /\ UNCHANGED <<phase, done>> /\ pending # <<>>
           /\ pending' \in Seq(Tasks) /\ Range(pending) = Range(pending') \cup {t}
           /\ t \notin Range(pending') /\ running' = running \cup {t}
           /\ Once'
<1>1. /\ UNCHANGED <<phase, done>> /\ pending # <<>> /\ pending' = Tail(pending)
      /\ running' = running \cup {Head(pending)}
  BY DEF Pool!Start
<1>2. /\ Head(pending) \in Tasks /\ pending' \in Seq(Tasks)
      /\ Range(pending) = Range(pending') \cup {Head(pending)}
      /\ Head(pending) \notin Range(pending') /\ IsInjective(pending')
  BY <1>1, TailRange DEF Typed, Once
<1>3. Once'
  BY <1>1, <1>2 DEF Once
<1> QED BY <1>1, <1>2, <1>3

\* A worker finishes a task.
LEMMA FinishMoves ==
  ASSUME Typed, Once, NEW t \in Tasks, Pool!Finish(t)
  PROVE  /\ UNCHANGED <<phase, pending>>
         /\ t \in running /\ running' = running \ {t}
         /\ done' \in Seq(Tasks) /\ Range(done') = Range(done) \cup {t}
         /\ Once'
<1>1. /\ UNCHANGED <<phase, pending>> /\ t \in running /\ running' = running \ {t}
      /\ done' = Append(done, t)
  BY DEF Pool!Finish
<1>2. t \notin Range(done)
  BY <1>1 DEF Once
<1>3. /\ done' \in Seq(Tasks) /\ Range(done') = Range(done) \cup {t}
      /\ IsInjective(done')
  BY <1>1, <1>2, AppendRange DEF Typed, Once
<1> QED BY <1>1, <1>3 DEF Once

\* pop takes the oldest finished task.
LEMMA TakeMoves ==
  ASSUME Typed, Once, Pool!Take
  PROVE  /\ UNCHANGED <<phase, pending, running>> /\ done # <<>> /\ Head(done) \in Tasks
         /\ done' \in Seq(Tasks) /\ Range(done) = Range(done') \cup {Head(done)}
         /\ Head(done) \notin Range(done')
         /\ Once'
<1>1. /\ UNCHANGED <<phase, pending, running>> /\ done # <<>> /\ done' = Tail(done)
  BY DEF Pool!Take
<1>2. /\ Head(done) \in Tasks /\ done' \in Seq(Tasks)
      /\ Range(done) = Range(done') \cup {Head(done)}
      /\ Head(done) \notin Range(done') /\ IsInjective(done')
  BY <1>1, TailRange DEF Typed, Once
<1> QED BY <1>1, <1>2 DEF Once

\* close empties the queue.
LEMMA ShutMoves ==
  ASSUME Typed, Once, Pool!Shut
  PROVE  /\ phase = "open" /\ phase' = "shut" /\ UNCHANGED <<running, done>>
         /\ pending' = <<>> /\ pending' \in Seq(Tasks) /\ Range(pending') = {}
         /\ Once'
<1>1. /\ phase = "open" /\ phase' = "shut" /\ UNCHANGED <<running, done>> /\ pending' = <<>>
  BY DEF Pool!Shut
<1> QED BY <1>1, RangeEmpty DEF Once

----
(* One step at a time.                                                      *)

\* Nothing was made yet.
LEMMA InitInvariant == Init => IInv
<1> SUFFICES ASSUME Init PROVE IInv
  OBVIOUS
<1>1. /\ phase = "new" /\ pending = <<>> /\ running = {} /\ done = <<>>
      /\ Range(pending) = {} /\ Range(done) = {} /\ IsInjective(pending) /\ IsInjective(done)
  BY RangeEmpty DEF Init, Pool!Init
<1>2. Typed /\ Once
  BY <1>1 DEF Init, Typed, Once
<1>3. Owned /\ Held
  BY <1>1 DEF Init, Owned, Held
<1>4. AliveWhileInFlight /\ AnchoredExactly
  BY <1>1 DEF Init, AliveWhileInFlight, AnchoredExactly, InFlight
<1> QED BY <1>2, <1>3, <1>4 DEF IInv

\* The operations of the program on the service and its tasks.
LEMMA ProgramStep ==
  ASSUME IInv,
         \/ impl_call \/ Pop
         \/ \E t \in Tasks : NewTask(t) \/ Push(t) \/ PushFails(t) \/ Cancel(t)
         \/ \E x \in Tasks \cup {Service} : Forget(x)
  PROVE  IInv'
<1> USE DEF InFlight
<1>s. Service \notin Tasks
  BY LuaTasksAssumption
<1>1. CASE impl_call
  <2>1. /\ phase = "new" /\ phase' = "open" /\ UNCHANGED <<pending, running, done>>
        /\ service = "none" /\ service' = "object" /\ reach' = reach \cup {Service}
        /\ UNCHANGED <<alive, younger, anchored, caller, stranded>> /\ caller = "program"
    BY <1>1 DEF impl_call, Pool!Open
  <2>2. Range(done) = {}
    BY <2>1, RangeEmpty DEF IInv, Owned
  <2>3. Typed' /\ Once'
    BY <2>1 DEF IInv, Typed, Once
  <2>4. Owned' /\ Held'
    BY <2>1, <2>2 DEF IInv, Owned, Held
  <2>5. AliveWhileInFlight' /\ AnchoredExactly'
    BY <2>1, <2>2 DEF IInv, AliveWhileInFlight, AnchoredExactly
  <2> QED BY <2>3, <2>4, <2>5 DEF IInv
<1>2. CASE Pop
  <2>1. /\ caller = "program" /\ Service \in reach /\ Pool!Take
        /\ reach' = reach \cup {Head(done)} /\ anchored' = anchored \ {Head(done)}
        /\ UNCHANGED <<service, alive, younger, caller, stranded>>
    BY <1>2 DEF Pop, unref
  <2>2. /\ UNCHANGED <<phase, pending, running>> /\ done # <<>> /\ Head(done) \in Tasks
        /\ done' \in Seq(Tasks) /\ Range(done) = Range(done') \cup {Head(done)}
        /\ Head(done) \notin Range(done')
        /\ Once'
    BY <2>1, TakeMoves DEF IInv
  <2>3. Typed'
    BY <2>1, <2>2 DEF IInv, Typed
  <2>4. Head(done) \in alive /\ service = "object"
    BY <2>1, <2>2 DEF IInv, AliveWhileInFlight, Owned
  <2>5. Owned' /\ Held'
    BY <1>s, <2>1, <2>2, <2>4 DEF IInv, Owned, Held
  <2>6. AliveWhileInFlight' /\ AnchoredExactly'
    BY <2>1, <2>2, <2>4 DEF IInv, AliveWhileInFlight, AnchoredExactly, Held, Once
  <2> QED BY <2>2, <2>3, <2>5, <2>6 DEF IInv
<1>3. ASSUME NEW t \in Tasks, NewTask(t) PROVE IInv'
  <2>1. /\ caller = "program" /\ t \notin alive /\ alive' = alive \cup {t}
        /\ younger' \in SUBSET Tasks /\ reach' = reach \cup {t}
        /\ UNCHANGED <<phase, pending, running, done, service, anchored, caller, stranded>>
    BY <1>3 DEF NewTask, poolVars, IInv, Typed
  <2>2. Typed' /\ Once'
    BY <2>1 DEF IInv, Typed, Once
  <2>3. Owned' /\ Held'
    BY <1>s, <2>1 DEF IInv, Owned, Held
  <2>4. AliveWhileInFlight' /\ AnchoredExactly'
    BY <2>1 DEF IInv, AliveWhileInFlight, AnchoredExactly, Held
  <2> QED BY <2>2, <2>3, <2>4 DEF IInv
<1>4. ASSUME NEW t \in Tasks, Push(t) PROVE IInv'
  <2>1. /\ caller = "program" /\ t \in reach /\ Service \in reach /\ Pool!Submit(t)
        /\ anchored' = anchored \cup {t} /\ stranded' = stranded \ {t}
        /\ UNCHANGED <<service, alive, younger, reach, caller>>
    BY <1>4 DEF Push, CanPush, ref
  <2>2. /\ phase = "open" /\ UNCHANGED <<phase, running, done>>
        /\ pending' \in Seq(Tasks) /\ Range(pending') = Range(pending) \cup {t}
        /\ t \notin Range(pending) \cup running \cup Range(done)
        /\ Once'
    BY <2>1, SubmitMoves DEF IInv
  <2>3. Typed' /\ t \in alive
    BY <1>s, <2>1, <2>2 DEF IInv, Typed, Held
  <2>4. Owned' /\ Held'
    BY <2>1, <2>2, <2>3 DEF IInv, Owned, Held
  <2>5. AliveWhileInFlight' /\ AnchoredExactly'
    BY <2>1, <2>2, <2>3 DEF IInv, AliveWhileInFlight, AnchoredExactly
  <2> QED BY <2>2, <2>3, <2>4, <2>5 DEF IInv
<1>5. ASSUME NEW t \in Tasks, PushFails(t) PROVE IInv'
  <2>1. /\ caller = "program" /\ t \in reach
        /\ t \notin Range(pending) \cup running \cup Range(done)
        /\ anchored' = anchored \cup {t} /\ stranded' = stranded \cup {t}
        /\ UNCHANGED <<phase, pending, running, done, service, alive, younger, reach, caller>>
    BY <1>5 DEF PushFails, CanPush, ref, poolVars
  <2>2. Typed' /\ Once' /\ t \in alive
    BY <1>s, <2>1 DEF IInv, Typed, Once, Held
  <2>3. Owned' /\ Held'
    BY <2>1, <2>2 DEF IInv, Owned, Held
  <2>4. AliveWhileInFlight' /\ AnchoredExactly'
    BY <2>1, <2>2 DEF IInv, AliveWhileInFlight, AnchoredExactly
  <2> QED BY <2>2, <2>3, <2>4 DEF IInv
<1>6. ASSUME NEW t \in Tasks, Cancel(t) PROVE IInv'
  <2>1. /\ caller = "program" /\ Pool!Withdraw(t) /\ anchored' = anchored \ {t}
        /\ UNCHANGED <<service, alive, younger, reach, caller, stranded>>
    BY <1>6 DEF Cancel, unref
  <2>2. /\ UNCHANGED <<phase, running, done>> /\ pending # <<>>
        /\ pending' \in Seq(Tasks) /\ Range(pending') = Range(pending) \ {t}
        /\ t \in Range(pending)
        /\ Once'
    BY <2>1, WithdrawMoves DEF IInv
  <2>3. Typed'
    BY <2>1, <2>2 DEF IInv, Typed
  <2>4. phase = "open"
    BY <2>2 DEF IInv, Owned, Typed
  <2>5. Owned' /\ Held'
    BY <2>1, <2>2, <2>4 DEF IInv, Owned, Held
  <2>6. AliveWhileInFlight' /\ AnchoredExactly'
    BY <2>1, <2>2 DEF IInv, AliveWhileInFlight, AnchoredExactly, Held, Once
  <2> QED BY <2>2, <2>3, <2>5, <2>6 DEF IInv
<1>7. ASSUME NEW x \in Tasks \cup {Service}, Forget(x) PROVE IInv'
  <2>1. /\ reach' = reach \ {x}
        /\ UNCHANGED <<phase, pending, running, done, service, alive, younger, anchored,
                       caller, stranded>>
    BY <1>7 DEF Forget, poolVars
  <2>2. Typed' /\ Once'
    BY <2>1 DEF IInv, Typed, Once
  <2>3. Owned' /\ Held'
    BY <2>1 DEF IInv, Owned, Held
  <2>4. AliveWhileInFlight' /\ AnchoredExactly'
    BY <2>1 DEF IInv, AliveWhileInFlight, AnchoredExactly
  <2> QED BY <2>2, <2>3, <2>4 DEF IInv
<1> QED BY <1>1, <1>2, <1>3, <1>4, <1>5, <1>6, <1>7

\* close, the collector, lua_close and the workers.
LEMMA OwnerStep ==
  ASSUME IInv,
         \/ CloseBegins \/ CloseReturns
         \/ \E t \in Tasks : GcTask(t) \/ Finish(t)
         \/ GcService \/ GcServiceEnds \/ ExitBegins \/ ExitEnds
         \/ Start
  PROVE  IInv'
<1> USE DEF InFlight
<1>s. Service \notin Tasks
  BY LuaTasksAssumption
<1>1. ASSUME NEW who \in {"close", "gc"}, caller = "program", ShutDown(who),
             who = "gc" => Service \notin reach,
             UNCHANGED <<service, alive, younger, reach, stranded>>
      PROVE  IInv'
  <2>1. Pool!Shut /\ anchored' = anchored \ Range(pending) /\ caller' = who
    BY <1>1 DEF ShutDown, unref
  <2>2. /\ phase = "open" /\ phase' = "shut" /\ UNCHANGED <<running, done>>
        /\ pending' = <<>> /\ pending' \in Seq(Tasks) /\ Range(pending') = {}
        /\ Once'
    BY <2>1, ShutMoves DEF IInv
  <2>3. Typed'
    BY <1>1, <2>1, <2>2 DEF IInv, Typed
  <2>4. Owned' /\ Held'
    BY <1>1, <2>1, <2>2 DEF IInv, Owned, Held
  <2>5. AliveWhileInFlight' /\ AnchoredExactly'
    BY <1>1, <2>1, <2>2 DEF IInv, AliveWhileInFlight, AnchoredExactly, Held, Once
  <2> QED BY <2>2, <2>3, <2>4, <2>5 DEF IInv
<1>2. CASE CloseBegins
  BY <1>1, <1>2 DEF CloseBegins
<1>3. CASE CloseReturns
  <2>1. /\ caller = "close" /\ running = {} /\ caller' = "program"
        /\ UNCHANGED <<phase, pending, running, done, service, alive, younger, anchored,
                       reach, stranded>>
    BY <1>3 DEF CloseReturns, poolVars, heapVars
  <2>2. Typed' /\ Once'
    BY <2>1 DEF IInv, Typed, Once
  <2>3. Owned' /\ Held'
    BY <2>1 DEF IInv, Owned, Held
  <2>4. AliveWhileInFlight' /\ AnchoredExactly'
    BY <2>1 DEF IInv, AliveWhileInFlight, AnchoredExactly
  <2> QED BY <2>2, <2>3, <2>4 DEF IInv
<1>4. ASSUME NEW t \in Tasks, GcTask(t) PROVE IInv'
  <2>1. /\ caller = "program" /\ t \in alive /\ t \notin reach /\ t \notin anchored
        /\ alive' = alive \ {t} /\ younger' = younger \ {t}
        /\ UNCHANGED <<phase, pending, running, done, service, anchored, reach, caller, stranded>>
    BY <1>4 DEF GcTask, poolVars
  <2>2. t \notin Range(pending) \cup running \cup Range(done) /\ t \notin stranded
    BY <2>1 DEF IInv, AnchoredExactly
  <2>3. Typed' /\ Once'
    BY <2>1 DEF IInv, Typed, Once
  <2>4. Owned' /\ Held'
    BY <2>1, <2>2 DEF IInv, Owned, Held
  <2>5. AliveWhileInFlight' /\ AnchoredExactly'
    BY <2>1, <2>2 DEF IInv, AliveWhileInFlight, AnchoredExactly
  <2> QED BY <2>3, <2>4, <2>5 DEF IInv
<1>5. ASSUME caller \in {"program", "gc"}, service = "object", phase = "shut", running = {},
             Service \notin reach, caller' = "program", service' = "finalised",
             stranded' = stranded \cup Range(done),
             UNCHANGED <<phase, pending, running, done, alive, younger, anchored, reach>>
      PROVE  IInv'
  <2>1. Range(pending) = {} /\ pending = <<>>
    BY <1>5, RangeEmpty DEF IInv, Owned
  <2>2. Range(done) \subseteq alive
    BY <1>5 DEF IInv, AliveWhileInFlight
  <2>3. Typed' /\ Once'
    BY <1>5, <2>2 DEF IInv, Typed, Once
  <2>4. Owned' /\ Held'
    BY <1>5, <2>1, <2>2 DEF IInv, Owned, Held
  <2>5. AliveWhileInFlight' /\ AnchoredExactly'
    BY <1>5, <2>1, <2>2 DEF IInv, AliveWhileInFlight, AnchoredExactly
  <2> QED BY <2>3, <2>4, <2>5 DEF IInv
<1>6. CASE GcService
  <2>1. CASE phase = "open"
    BY <1>1, <1>6, <2>1 DEF GcService
  <2>2. CASE phase = "shut"
    <3>1. running = {}
      BY <1>6, <2>2 DEF GcService, IInv, Owned
    <3> QED BY <1>5, <1>6, <2>2, <3>1 DEF GcService, poolVars
  <2> QED BY <1>6, <2>1, <2>2 DEF GcService
<1>7. CASE GcServiceEnds
  <2>1. service = "object" /\ phase = "shut" /\ Service \notin reach
    BY <1>7 DEF GcServiceEnds, IInv, Owned
  <2> QED BY <1>5, <1>7, <2>1 DEF GcServiceEnds, poolVars
<1>8. CASE ExitBegins
  <2>1. /\ caller = "program" /\ (phase = "open" => InFlight \cap younger = {})
        /\ alive' = alive \ younger /\ younger' = {}
        /\ anchored' = anchored \ (younger \cup Range(pending))
        /\ reach' = {} /\ stranded' = {} /\ caller' = "exit" /\ UNCHANGED service
    BY <1>8 DEF ExitBegins, unref
  <2>2. CASE phase = "open" /\ Pool!Shut
    <3>1. /\ phase' = "shut" /\ UNCHANGED <<running, done>>
          /\ pending' = <<>> /\ pending' \in Seq(Tasks) /\ Range(pending') = {}
          /\ Once'
      BY <2>2, ShutMoves DEF IInv
    <3>2. Typed'
      BY <2>1, <3>1 DEF IInv, Typed
    <3>3. Owned' /\ Held'
      BY <2>1, <2>2, <3>1 DEF IInv, Owned, Held
    <3>4. running \subseteq alive \ younger
      BY <2>1, <2>2 DEF IInv, AliveWhileInFlight
    <3>5. AliveWhileInFlight' /\ AnchoredExactly'
      BY <2>1, <3>1, <3>4 DEF AliveWhileInFlight, AnchoredExactly
    <3> QED BY <3>1, <3>2, <3>3, <3>5 DEF IInv
  <2>3. CASE phase # "open" /\ UNCHANGED poolVars
    <3>1. UNCHANGED <<phase, pending, running, done>>
      BY <2>3 DEF poolVars
    <3>2. pending = <<>> /\ running = {} /\ Range(pending) = {}
      <4>1. phase \in {"new", "shut"}
        BY <2>3 DEF IInv, Typed
      <4>2. pending = <<>> /\ running = {}
        BY <2>1, <4>1 DEF IInv, Owned
      <4> QED BY <4>2, RangeEmpty
    <3>3. Typed' /\ Once'
      BY <2>1, <3>1 DEF IInv, Typed, Once
    <3>4. Owned' /\ Held'
      BY <2>1, <2>3, <3>1, <3>2 DEF IInv, Owned, Held
    <3>5. AliveWhileInFlight' /\ AnchoredExactly'
      BY <2>1, <3>1, <3>2 DEF IInv, AliveWhileInFlight, AnchoredExactly
    <3> QED BY <3>3, <3>4, <3>5 DEF IInv
  <2> QED BY <1>8, <2>2, <2>3 DEF ExitBegins
<1>9. CASE ExitEnds
  <2>1. /\ caller = "exit" /\ running = {} /\ caller' = "over" /\ service' = "finalised"
        /\ alive' = {} /\ anchored' = {}
        /\ UNCHANGED <<phase, pending, running, done, younger, reach, stranded>>
    BY <1>9 DEF ExitEnds, poolVars
  <2>2. reach = {} /\ stranded = {} /\ pending = <<>> /\ Range(pending) = {} /\ phase # "open"
    BY <2>1, RangeEmpty DEF IInv, Owned, Typed
  <2>3. Typed' /\ Once'
    BY <2>1 DEF IInv, Typed, Once
  <2>4. Owned' /\ Held'
    BY <2>1, <2>2 DEF IInv, Owned, Held
  <2>5. AliveWhileInFlight' /\ AnchoredExactly'
    BY <2>1, <2>2 DEF IInv, AliveWhileInFlight, AnchoredExactly
  <2> QED BY <2>3, <2>4, <2>5 DEF IInv
<1>10. CASE Start
  <2>1. Pool!Start /\ UNCHANGED <<service, alive, younger, anchored, reach, caller, stranded>>
    BY <1>10 DEF Start, heapVars
  <2>2. PICK t \in Tasks :
           /\ UNCHANGED <<phase, done>> /\ pending # <<>>
           /\ pending' \in Seq(Tasks) /\ Range(pending) = Range(pending') \cup {t}
           /\ t \notin Range(pending') /\ running' = running \cup {t}
           /\ Once'
    BY <2>1, StartMoves DEF IInv
  <2>3. Typed'
    BY <2>1, <2>2 DEF IInv, Typed
  <2>4. Owned' /\ Held'
    BY <2>1, <2>2 DEF IInv, Owned, Held, Typed
  <2>5. AliveWhileInFlight' /\ AnchoredExactly'
    BY <2>1, <2>2 DEF IInv, AliveWhileInFlight, AnchoredExactly
  <2> QED BY <2>2, <2>3, <2>4, <2>5 DEF IInv
<1>11. ASSUME NEW t \in Tasks, Finish(t) PROVE IInv'
  <2>1. Pool!Finish(t) /\ UNCHANGED <<service, alive, younger, anchored, reach, caller, stranded>>
    BY <1>11 DEF Finish, heapVars
  <2>2. /\ UNCHANGED <<phase, pending>>
        /\ t \in running /\ running' = running \ {t}
        /\ done' \in Seq(Tasks) /\ Range(done') = Range(done) \cup {t}
        /\ Once'
    BY <2>1, FinishMoves DEF IInv
  <2>3. Typed'
    BY <2>1, <2>2 DEF IInv, Typed
  <2>4. Owned' /\ Held'
    BY <2>1, <2>2 DEF IInv, Owned, Held
  <2>5. AliveWhileInFlight' /\ AnchoredExactly'
    BY <2>1, <2>2 DEF IInv, AliveWhileInFlight, AnchoredExactly
  <2> QED BY <2>2, <2>3, <2>4, <2>5 DEF IInv
<1> QED
  BY <1>2, <1>3, <1>4, <1>6, <1>7, <1>8, <1>9, <1>10, <1>11

\* A step that changes nothing.
LEMMA StutterStep == IInv /\ UNCHANGED vars => IInv'
BY DEF vars, poolVars, heapVars, IInv, Typed, Once, Owned, Held, AliveWhileInFlight,
       AnchoredExactly, InFlight

----
(* The theorems.                                                            *)

\* The references, the pool and the owner agree in every reachable state.
THEOREM Invariance == Spec => []IInv
<1>1. Init => IInv
  BY InitInvariant
<1>2. IInv /\ [Next]_vars => IInv'
  BY ProgramStep, OwnerStep, StutterStep DEF Next, Over
<1> QED BY <1>1, <1>2, PTL DEF Spec

\* The pool never holds a pointer to a task that the collector has
\* finalised.
THEOREM NothingInFlightIsCollected == Spec => []AliveWhileInFlight
<1>1. IInv => AliveWhileInFlight
  BY DEF IInv
<1> QED BY <1>1, Invariance, PTL

\* The registry holds the tasks in flight, and the ones that were stranded.
THEOREM NothingElseIsKept == Spec => []AnchoredExactly
<1>1. IInv => AnchoredExactly
  BY DEF IInv
<1> QED BY <1>1, Invariance, PTL

-----------------------------------------------------------------------------
(* The helpers.  A stack of values and a family of tables make a machine;  *)
(* each helper is a few pushes, stores and pops on one, and what it does   *)
(* is found by following the machine through them.  The invariant says     *)
(* what is on the stack and in the tables, and that no table is its own    *)
(* metatable, which is what keeps SetMetafield from storing the key in the *)
(* table itself.                                                           *)


\* What can be on the stack or in a field, and what a table is.
Values == Scalars \cup Arguments \cup {Table(t) : t \in Ids} \cup {Key(k) : k \in Keys}
          \cup {Nil, Boolean(TRUE), Integer(1), Str("what")}
ATable == [fields : [Keys -> Values], meta : Ids \cup {0}]

\* A saved top is between the arguments and the top; no table is its own
\* metatable.
Tops == IF saved = <<>> THEN top <= Len(stack)
        ELSE /\ Len(saved) = 1 /\ top <= saved[1] /\ saved[1] <= Len(stack)
StackOK ==
  /\ stack \in Seq(Values) /\ tables \in [Ids -> ATable] /\ top \in Nat /\ saved \in Seq(Nat)
  /\ Tops
  /\ \A t \in Ids : tables[t].meta # t

\* A field, or the metatable, of the table t.
Put(T, t, k, v) == [T EXCEPT ![t].fields[k] = v]
Link(T, t, m) == [T EXCEPT ![t].meta = m]
Both(T, t, m, k, v) ==
  [T EXCEPT ![t].meta = m,
            ![m] = [(IF T[t].meta = 0 THEN [fields |-> [j \in Keys |-> Nil], meta |-> 0] ELSE T[m])
                    EXCEPT !.fields[k] = v]]

\* A machine with the stack s and the tables T.
Mach(s, T) == [stack |-> s, tables |-> T]

\* What can be pushed is a value, and a value that is a table is one of the tables.
LEMMA ValueFacts ==
  /\ Scalars \subseteq Values /\ Arguments \subseteq Values
  /\ \A t \in Ids : Table(t) \in Values /\ IsTable(Table(t)) /\ Table(t)[2] = t
  /\ \A k \in Keys : Key(k) \in Values /\ Key(k)[2] = k
  /\ Nil \in Values /\ Boolean(TRUE) \in Values /\ Integer(1) \in Values /\ Str("what") \in Values
  /\ \A v \in Values : IsTable(v) => v[2] \in Ids /\ v = Table(v[2])
<1>1. /\ Scalars \subseteq Values /\ Arguments \subseteq Values
      /\ \A t \in Ids : Table(t) \in Values
      /\ \A k \in Keys : Key(k) \in Values
      /\ Nil \in Values /\ Boolean(TRUE) \in Values /\ Integer(1) \in Values /\ Str("what") \in Values
  BY Zenon DEF Values
<1>2. \A t : IsTable(Table(t)) /\ Table(t)[2] = t
  BY DEF IsTable, Table
<1>3. \A k : Key(k)[2] = k /\ ~IsTable(Key(k))
  BY DEF Key, Str, IsTable
<1>4. ASSUME NEW v \in Values, IsTable(v)
      PROVE  v[2] \in Ids /\ v = Table(v[2])
  <2>1. CASE v \in Scalars
    BY <1>4, <2>1, LuaXAssumption
  <2>2. CASE v \in Arguments
    <3>1. \A n : ~IsTable(Integer(n)) /\ ~IsTable(Numeral(n)) /\ ~IsTable(Float(n))
      BY DEF IsTable, Integer, Numeral, Float
    <3>2. \/ \E n \in Integers : v \in {Integer(n), Numeral(n)}
          \/ \E h \in Halves : v = Float(h)
          \/ ~IsTable(v)
      BY <2>2, LuaXAssumption, Zenon
    <3> QED BY <1>4, <3>1, <3>2
  <2>3. CASE v \in {Table(t) : t \in Ids}
    BY <1>2, <2>3
  <2>4. CASE v \in {Key(k) : k \in Keys}
    BY <1>3, <1>4, <2>4
  <2>5. CASE v \in {Nil, Boolean(TRUE), Integer(1), Str("what")}
    <3>1. ~IsTable(Nil) /\ ~IsTable(Integer(1)) /\ ~IsTable(Str("what"))
      BY DEF IsTable, Nil, Integer, Str
    <3>2. ~IsTable(Boolean(TRUE))
      BY DEF IsTable, Boolean
    <3> QED BY <1>4, <2>5, <3>1, <3>2, Zenon
  <2> QED BY <2>1, <2>2, <2>3, <2>4, <2>5, Zenon DEF Values
<1> QED BY <1>1, <1>2, <1>3, <1>4

\* A push, what is below it, and how it is taken back.
LEMMA Grown ==
  ASSUME NEW V, NEW s \in Seq(V), NEW v \in V
  PROVE  /\ Append(s, v) \in Seq(V) /\ Len(s) \in Nat /\ Len(Append(s, v)) = Len(s) + 1
         /\ Append(s, v)[Len(s) + 1] = v
         /\ \A j \in 1 .. Len(s) : Append(s, v)[j] = s[j]
         /\ SubSeq(Append(s, v), 1, Len(s)) = s
<1> DEFINE r == Append(s, v)
           q == SubSeq(r, 1, Len(s))
<1>1. /\ r \in Seq(V) /\ Len(s) \in Nat /\ Len(r) = Len(s) + 1
      /\ r[Len(s) + 1] = v /\ \A j \in 1 .. Len(s) : r[j] = s[j]
  OBVIOUS
<1> HIDE DEF r
<1>2. /\ q \in Seq(V) /\ Len(q) = Len(s)
      /\ \A j \in 1 .. Len(s) : q[j] = r[j]
  BY <1>1
<1>3. q = s
  <2> HIDE DEF q
  <2> QED BY <1>1, <1>2
<1> QED BY <1>1, <1>3 DEF r

\* Two pushes, taken back together.
LEMMA GrownTwice ==
  ASSUME NEW V, NEW s \in Seq(V), NEW v \in V, NEW w \in V
  PROVE  SubSeq(Append(Append(s, v), w), 1, Len(s)) = s
<1> DEFINE r == Append(Append(s, v), w)
           q == SubSeq(r, 1, Len(s))
<1>1. /\ r \in Seq(V) /\ Len(s) \in Nat /\ Len(r) = Len(s) + 2
      /\ \A j \in 1 .. Len(s) : r[j] = s[j]
  <2>1. /\ Append(s, v) \in Seq(V) /\ Len(s) \in Nat /\ Len(Append(s, v)) = Len(s) + 1
        /\ \A j \in 1 .. Len(s) : Append(s, v)[j] = s[j]
    BY Grown
  <2>2. /\ r \in Seq(V) /\ Len(r) = Len(Append(s, v)) + 1
        /\ \A j \in 1 .. Len(Append(s, v)) : r[j] = Append(s, v)[j]
    BY <2>1, Grown
  <2> QED BY <2>1, <2>2
<1> HIDE DEF r
<1>2. /\ q \in Seq(V) /\ Len(q) = Len(s)
      /\ \A j \in 1 .. Len(s) : q[j] = r[j]
  BY <1>1
<1>3. q = s
  <2> HIDE DEF q
  <2> QED BY <1>1, <1>2
<1> QED BY <1>3 DEF r

\* The Lua API on a machine.
LEMMA OnMachines ==
  ASSUME NEW s, NEW T
  PROVE  /\ Mach(s, T).stack = s /\ Mach(s, T).tables = T
         /\ \A i : At(Mach(s, T), i) = s[IF i < 0 THEN Len(s) + 1 + i ELSE i]
         /\ \A v : Pushed(Mach(s, T), v) = Mach(Append(s, v), T)
         /\ \A n : settop(Mach(s, T), n) = Mach(SubSeq(s, 1, n), T)
         /\ \A n : pop(Mach(s, T), n) = Mach(SubSeq(s, 1, Len(s) - n), T)
<1>1. Mach(s, T).stack = s /\ Mach(s, T).tables = T
  BY DEF Mach
<1>2. \A i : At(Mach(s, T), i) = s[IF i < 0 THEN Len(s) + 1 + i ELSE i]
  BY <1>1, Zenon DEF At
<1>3. \A v : Pushed(Mach(s, T), v) = Mach(Append(s, v), T)
  BY DEF Pushed, Mach
<1>4. \A p, U, n : settop(Mach(p, U), n) = Mach(SubSeq(p, 1, n), U)
  <2>1. \A p, U, q : Mach(p, U).stack = p /\ [Mach(p, U) EXCEPT !.stack = q] = Mach(q, U)
    BY DEF Mach
  <2> QED BY <2>1, Zenon DEF settop
<1>5. \A p, U, n : pop(Mach(p, U), n) = Mach(SubSeq(p, 1, Len(p) - n), U)
  <2>1. \A p, U : Mach(p, U).stack = p
    BY DEF Mach
  <2> QED BY <1>4, <2>1 DEF pop
<1>6. /\ \A n : settop(Mach(s, T), n) = Mach(SubSeq(s, 1, n), T)
      /\ \A n : pop(Mach(s, T), n) = Mach(SubSeq(s, 1, Len(s) - n), T)
  BY <1>4, <1>5, Zenon
<1> QED BY <1>1, <1>2, <1>3, <1>6

\* One at a time.
LEMMA PopsOne == \A s, T : pop(Mach(s, T), 1) = Mach(SubSeq(s, 1, Len(s) - 1), T)
<1> TAKE s, T
<1>1. \A n : pop(Mach(s, T), n) = Mach(SubSeq(s, 1, Len(s) - n), T)
  BY OnMachines
<1> QED BY <1>1

\* lua_settable on a machine.
LEMMA StoresInto ==
  ASSUME NEW s, NEW T, NEW i
  PROVE  settable(Mach(s, T), i) =
           Mach(SubSeq(s, 1, Len(s) - 2),
                Put(T, At(Mach(s, T), i)[2], At(Mach(s, T), -2)[2], At(Mach(s, T), -1)))
<1> DEFINE t == At(Mach(s, T), i)[2]
           k == At(Mach(s, T), -2)[2]
           v == At(Mach(s, T), -1)
<1>1. settable(Mach(s, T), i) = pop([Mach(s, T) EXCEPT !.tables[t].fields[k] = v], 2)
  BY DEF settable
<1> HIDE DEF t, k, v
<1>2. [Mach(s, T) EXCEPT !.tables[t].fields[k] = v] = Mach(s, Put(T, t, k, v))
  BY DEF Mach, Put
<1>3. \A U, n : pop(Mach(s, U), n) = Mach(SubSeq(s, 1, Len(s) - n), U)
  BY OnMachines
<1>4. settable(Mach(s, T), i) = Mach(SubSeq(s, 1, Len(s) - 2), Put(T, t, k, v))
  BY <1>1, <1>2, <1>3
<1> QED BY <1>4 DEF t, k, v

\* lua_setmetatable on a machine.
LEMMA MetaInto ==
  ASSUME NEW s, NEW T, NEW i
  PROVE  setmetatable(Mach(s, T), i) =
           Mach(SubSeq(s, 1, Len(s) - 1), Link(T, At(Mach(s, T), i)[2], At(Mach(s, T), -1)[2]))
<1> DEFINE t == At(Mach(s, T), i)[2]
           m == At(Mach(s, T), -1)[2]
<1>1. setmetatable(Mach(s, T), i) = pop([Mach(s, T) EXCEPT !.tables[t].meta = m], 1)
  BY DEF setmetatable
<1> HIDE DEF t, m
<1>2. [Mach(s, T) EXCEPT !.tables[t].meta = m] = Mach(s, Link(T, t, m))
  BY DEF Mach, Link
<1>3. setmetatable(Mach(s, T), i) = Mach(SubSeq(s, 1, Len(s) - 1), Link(T, t, m))
  BY <1>1, <1>2, PopsOne
<1> QED BY <1>3 DEF t, m

\* What a helper may be called with.
IndicesOf(s) == (1 .. Len(s)) \cup {-j : j \in 1 .. Len(s)}

\* luaX_abs_index finds the slot that the index meant before anything was pushed.
LEMMA AbsIndex ==
  ASSUME NEW V, NEW s \in Seq(V), NEW T, NEW i \in IndicesOf(s)
  PROVE  /\ luaX_abs_index(Mach(s, T), i) \in 1 .. Len(s)
         /\ s[luaX_abs_index(Mach(s, T), i)] = At(Mach(s, T), i)
<1>1. Len(s) \in Nat /\ i \in Int /\ i # 0 /\ -Len(s) <= i /\ i <= Len(s)
  BY DEF IndicesOf
<1>2. luaX_abs_index(Mach(s, T), i) = IF i < 0 THEN Len(s) + i + 1 ELSE i
  <2>1. Mach(s, T).stack = s
    BY OnMachines
  <2> QED BY <1>1, <2>1 DEF luaX_abs_index
<1>3. At(Mach(s, T), i) = s[IF i < 0 THEN Len(s) + i + 1 ELSE i]
  <2>1. At(Mach(s, T), i) = s[IF i < 0 THEN Len(s) + 1 + i ELSE i]
    BY OnMachines
  <2>2. Len(s) + 1 + i = Len(s) + i + 1
    BY <1>1
  <2> QED BY <2>1, <2>2
<1> QED BY <1>1, <1>2, <1>3

\* A key and a value on top: lua_settable stores them and takes both away.
LEMMA Stores ==
  ASSUME NEW s \in Seq(Values), NEW T, NEW k \in Keys, NEW v \in Values, NEW i,
         NEW t, At(Mach(Append(Append(s, Key(k)), v), T), i)[2] = t
  PROVE  settable(Mach(Append(Append(s, Key(k)), v), T), i) = Mach(s, Put(T, t, k, v))
<1> DEFINE r == Append(s, Key(k))
           q == Append(r, v)
<1>1. Key(k) \in Values /\ Key(k)[2] = k
  BY ValueFacts
<1>2. /\ r \in Seq(Values) /\ Len(r) = Len(s) + 1 /\ r[Len(r)] = Key(k) /\ Len(s) \in Nat
  BY <1>1, Grown
<1>3. /\ Len(q) = Len(s) + 2 /\ q[Len(s) + 2] = v /\ q[Len(s) + 1] = Key(k)
  <2>1. /\ Len(q) = Len(r) + 1 /\ q[Len(r) + 1] = v
        /\ \A j \in 1 .. Len(r) : q[j] = r[j]
    BY <1>2, Grown
  <2>2. Len(r) \in 1 .. Len(r) /\ Len(r) + 1 = Len(s) + 2
    BY <1>2
  <2> QED BY <1>2, <2>1, <2>2
<1>4. SubSeq(q, 1, Len(q) - 2) = s
  <2>1. SubSeq(q, 1, Len(s)) = s
    BY <1>1, GrownTwice
  <2>2. Len(q) - 2 = Len(s)
    BY <1>2, <1>3
  <2> QED BY <2>1, <2>2
<1> HIDE DEF q
<1>5. At(Mach(q, T), -1) = v /\ At(Mach(q, T), -2)[2] = k
  <2>1. At(Mach(q, T), -1) = q[Len(q) + 1 + (-1)] /\ At(Mach(q, T), -2) = q[Len(q) + 1 + (-2)]
    BY OnMachines
  <2>2. Len(q) + 1 + (-1) = Len(s) + 2 /\ Len(q) + 1 + (-2) = Len(s) + 1
    BY <1>2, <1>3
  <2> QED BY <1>1, <1>3, <2>1, <2>2
<1>6. settable(Mach(q, T), i) =
        Mach(SubSeq(q, 1, Len(q) - 2),
             Put(T, At(Mach(q, T), i)[2], At(Mach(q, T), -2)[2], At(Mach(q, T), -1)))
  BY StoresInto, Zenon
<1>7. At(Mach(q, T), i)[2] = t
  BY DEF q
<1>8. settable(Mach(q, T), i) = Mach(s, Put(T, t, k, v))
  BY <1>4, <1>5, <1>6, <1>7, Zenon
<1> QED BY <1>8 DEF q

\* The top of a stack that is not empty.
LEMMA TopOf ==
  ASSUME NEW V, NEW s \in Seq(V), s # <<>>
  PROVE  /\ Len(s) \in Nat /\ Len(s) >= 1 /\ Last(s) = s[Len(s)] /\ Last(s) \in V
         /\ Front(s) = SubSeq(s, 1, Len(s) - 1) /\ Front(s) \in Seq(V) /\ Len(Front(s)) = Len(s) - 1
         /\ \A j \in 1 .. Len(s) - 1 : Front(s)[j] = s[j]
<1>1. Len(s) \in Nat /\ Len(s) >= 1
  BY EmptySeq
<1>2. Last(s) = s[Len(s)] /\ Front(s) = SubSeq(s, 1, Len(s) - 1)
  BY DEF Last, Front
<1> DEFINE f == SubSeq(s, 1, Len(s) - 1)
<1>3. f \in Seq(V) /\ Len(f) = Len(s) - 1 /\ \A j \in 1 .. Len(s) - 1 : f[j] = s[j]
  <2>1. \A n \in 0 .. Len(s) : /\ SubSeq(s, 1, n) \in Seq(V) /\ Len(SubSeq(s, 1, n)) = n
                              /\ \A j \in 1 .. n : SubSeq(s, 1, n)[j] = s[j]
    OBVIOUS
  <2>2. Len(s) - 1 \in 0 .. Len(s)
    BY <1>1
  <2> QED BY <2>1, <2>2
<1>4. s[Len(s)] \in V
  BY <1>1
<1> HIDE DEF f
<1> QED BY <1>1, <1>2, <1>3, <1>4 DEF f

\* luaX_set_field with a value.
LEMMA SetsField ==
  ASSUME NEW s \in Seq(Values), NEW k \in Keys, NEW v \in Values,
         NEW i \in IndicesOf(s)
  PROVE  \A T : luaX_set_field(Mach(s, T), i, k, v) =
                  Mach(s, Put(T, At(Mach(s, T), i)[2], k, v))
<1> TAKE T
<1> DEFINE index == luaX_abs_index(Mach(s, T), i)
           q == Append(Append(s, Key(k)), v)
           t == At(Mach(s, T), i)[2]
<1>1. index \in 1 .. Len(s) /\ s[index] = At(Mach(s, T), i)
  BY AbsIndex
<1>2. luaX_set_field(Mach(s, T), i, k, v) = settable(Mach(q, T), index)
  <2>1. Pushed(Pushed(Mach(s, T), Key(k)), v) = Mach(q, T)
    BY OnMachines
  <2> QED BY <2>1 DEF luaX_set_field
<1>3. At(Mach(q, T), index) = s[index]
  <2> HIDE DEF index
  <2>1. Key(k) \in Values
    BY ValueFacts
  <2>2. /\ Append(s, Key(k)) \in Seq(Values) /\ Len(Append(s, Key(k))) = Len(s) + 1 /\ Len(s) \in Nat
        /\ \A j \in 1 .. Len(s) : Append(s, Key(k))[j] = s[j]
    BY <2>1, Grown
  <2>3. \A j \in 1 .. Len(Append(s, Key(k))) : q[j] = Append(s, Key(k))[j]
    BY <2>2, Grown
  <2>4. q[index] = s[index] /\ ~(index < 0)
    BY <1>1, <2>2, <2>3
  <2> HIDE DEF q
  <2> QED BY <2>4, OnMachines
<1> HIDE DEF index
<1>4. At(Mach(q, T), index)[2] = t
  BY <1>1, <1>3
<1> HIDE DEF t
<1>5. settable(Mach(q, T), index) = Mach(s, Put(T, t, k, v))
  BY <1>4, Stores
<1> QED BY <1>2, <1>5 DEF t

\* luaX_set_field with the value on top.
LEMMA SetsFieldTop ==
  ASSUME NEW s \in Seq(Values), s # <<>>, NEW T, NEW k \in Keys,
         NEW i \in IndicesOf(s)
  PROVE  luaX_set_field_top(Mach(s, T), i, k) =
           Mach(Front(s), Put(T, At(Mach(s, T), i)[2], k, Last(s)))
<1> DEFINE index == luaX_abs_index(Mach(s, T), i)
           r == Append(s, Key(k))
           q == Append(r, Last(s))
           t == At(Mach(s, T), i)[2]
<1>1. index \in 1 .. Len(s) /\ s[index] = At(Mach(s, T), i)
  BY AbsIndex
<1>2. /\ Len(s) \in Nat /\ Len(s) >= 1 /\ Last(s) = s[Len(s)] /\ Last(s) \in Values
      /\ Front(s) = SubSeq(s, 1, Len(s) - 1)
  BY TopOf
<1>3. /\ r \in Seq(Values) /\ Len(r) = Len(s) + 1
      /\ \A j \in 1 .. Len(s) : r[j] = s[j]
  BY ValueFacts, Grown
<1>4. \A j \in 1 .. Len(r) : q[j] = r[j]
  BY <1>2, <1>3, Grown
<1>5. pushvalue(Mach(r, T), -2) = Mach(q, T)
  <2>1. At(Mach(r, T), -2) = r[Len(r) + 1 + (-2)]
    <3> HIDE DEF r
    <3> QED BY OnMachines
  <2>2. Len(r) + 1 + (-2) = Len(s) /\ Len(s) \in 1 .. Len(s)
    BY <1>2, <1>3
  <2>3. At(Mach(r, T), -2) = Last(s)
    BY <1>2, <1>3, <2>1, <2>2
  <2> QED BY <2>3, OnMachines DEF pushvalue
<1>6. luaX_set_field_top(Mach(s, T), i, k) = pop(settable(Mach(q, T), index), 1)
  <2>1. Pushed(Mach(s, T), Key(k)) = Mach(r, T)
    BY OnMachines
  <2> QED BY <1>5, <2>1, Zenon DEF luaX_set_field_top
<1> HIDE DEF index
<1>7. At(Mach(q, T), index)[2] = t
  <2>1. q[index] = s[index] /\ ~(index < 0)
    BY <1>1, <1>2, <1>3, <1>4
  <2> HIDE DEF q
  <2>2. At(Mach(q, T), index) = q[index]
    BY <2>1, OnMachines
  <2> QED BY <1>1, <2>1, <2>2
<1> HIDE DEF t
<1>8. settable(Mach(q, T), index) = Mach(s, Put(T, t, k, Last(s)))
  BY <1>2, <1>7, Stores
<1>9. pop(Mach(s, Put(T, t, k, Last(s))), 1) = Mach(Front(s), Put(T, t, k, Last(s)))
  BY <1>2, PopsOne, Zenon
<1> QED BY <1>6, <1>8, <1>9, Zenon DEF t

\* luaX_get_field
LEMMA GetsField ==
  ASSUME NEW s \in Seq(Values), NEW T, NEW k \in Keys,
         NEW i \in IndicesOf(s)
  PROVE  luaX_get_field(Mach(s, T), i, k) = Mach(Append(s, T[At(Mach(s, T), i)[2]].fields[k]), T)
<1> DEFINE index == luaX_abs_index(Mach(s, T), i)
           r == Append(s, Key(k))
<1>1. index \in 1 .. Len(s) /\ s[index] = At(Mach(s, T), i)
  BY AbsIndex
<1>2. /\ r \in Seq(Values) /\ Len(r) = Len(s) + 1 /\ Len(s) \in Nat /\ r[Len(s) + 1] = Key(k)
      /\ \A j \in 1 .. Len(s) : r[j] = s[j]
      /\ SubSeq(r, 1, Len(s)) = s /\ Key(k)[2] = k
  BY ValueFacts, Grown
<1>3. luaX_get_field(Mach(s, T), i, k) = gettable(Mach(r, T), index)
  <2>1. Pushed(Mach(s, T), Key(k)) = Mach(r, T)
    BY OnMachines
  <2> QED BY <2>1, Zenon DEF luaX_get_field
<1> HIDE DEF index, r
<1>4. At(Mach(r, T), index) = At(Mach(s, T), i)
  <2>1. r[index] = s[index] /\ ~(index < 0)
    BY <1>1, <1>2
  <2>2. At(Mach(r, T), index) = r[index]
    BY <2>1, OnMachines
  <2> QED BY <1>1, <2>1, <2>2
<1>5. At(Mach(r, T), -1)[2] = k
  <2>1. At(Mach(r, T), -1) = r[Len(r) + 1 + (-1)]
    BY OnMachines
  <2>2. Len(r) + 1 + (-1) = Len(s) + 1
    BY <1>2
  <2> QED BY <1>2, <2>1, <2>2
<1>6. pop(Mach(r, T), 1) = Mach(s, T)
  <2>1. Len(r) - 1 = Len(s)
    BY <1>2
  <2>2. pop(Mach(r, T), 1) = Mach(SubSeq(r, 1, Len(r) - 1), T)
    BY PopsOne
  <2> QED BY <1>2, <2>1, <2>2
<1>7. gettable(Mach(r, T), index) = Pushed(Mach(s, T), T[At(Mach(s, T), i)[2]].fields[k])
  <2>1. Mach(r, T).tables = T
    BY OnMachines
  <2> QED BY <1>4, <1>5, <1>6, <2>1, Zenon DEF gettable
<1> QED BY <1>3, <1>7, OnMachines

-----------------------------------------------------------------------------
Fresh == [fields |-> [k \in Keys |-> Nil], meta |-> 0]

\* m is the metatable of t with the stack s and the tables T, or a new one,
\* and U the tables with it.
MetaOf(s, T, t, m, U) ==
  /\ m \in Ids \ {t}
  /\ \/ T[t].meta = 0 /\ m \in Unused(Mach(s, T)) /\ U = [T EXCEPT ![m] = Fresh]
     \/ T[t].meta # 0 /\ m = T[t].meta /\ U = T

\* The metatable a table has, or a new one, is pushed.
LEMMA MakesMeta ==
  ASSUME NEW s \in Seq(Values), NEW T \in [Ids -> ATable], NEW index \in 1 .. Len(s),
         NEW t \in Ids, s[index] = Table(t), T[t].meta # t,
         HasMeta(Mach(s, T), index) \/ Unused(Mach(s, T)) # {}
  PROVE  \E m, U : /\ MetaOf(s, T, t, m, U)
                   /\ getmetatable(Mach(s, T), index) = Mach(Append(s, Table(m)), U)
<1>1. At(Mach(s, T), index) = s[index] /\ s[index][2] = t /\ Mach(s, T).tables = T /\ Mach(s, T).stack = s
  <2>1. ~(index < 0)
    OBVIOUS
  <2> QED BY <2>1, OnMachines, ValueFacts
<1>2. HasMeta(Mach(s, T), index) <=> T[t].meta # 0
  BY <1>1 DEF HasMeta
<1>3. CASE T[t].meta # 0
  <2>1. getmetatable(Mach(s, T), index) = Pushed(Mach(s, T), Table(T[t].meta))
    BY <1>1, <1>2, <1>3 DEF getmetatable
  <2>2. getmetatable(Mach(s, T), index) = Mach(Append(s, Table(T[t].meta)), T)
    BY <2>1, OnMachines
  <2>3. T[t].meta \in Ids
    BY <1>3 DEF ATable
  <2> QED BY <1>3, <2>2, <2>3 DEF MetaOf
<1>4. CASE T[t].meta = 0
  <2> DEFINE m == CHOOSE u \in Unused(Mach(s, T)) : TRUE
             U == [T EXCEPT ![m] = Fresh]
  <2>1. m \in Unused(Mach(s, T))
    BY <1>2, <1>4
  <2>2. m \in Ids /\ m # t
    <3>1. m \in Ids /\ \A j \in DOMAIN s : s[j] # Table(m)
      BY <1>1, <2>1 DEF Unused
    <3>2. index \in DOMAIN s
      OBVIOUS
    <3> QED BY <3>1, <3>2
  <2>3. getmetatable(Mach(s, T), index) = newtable(Mach(s, T))
    BY <1>2, <1>4, Zenon DEF getmetatable
  <2>4. newtable(Mach(s, T)) = Pushed([Mach(s, T) EXCEPT !.tables[m] = Fresh], Table(m))
    BY Zenon DEF newtable, Fresh
  <2> HIDE DEF m
  <2>5. [Mach(s, T) EXCEPT !.tables[m] = Fresh] = Mach(s, U)
    BY DEF Mach
  <2>6. newtable(Mach(s, T)) = Mach(Append(s, Table(m)), U)
    BY <2>4, <2>5, OnMachines
  <2>7. MetaOf(s, T, t, m, U)
    BY <1>4, <2>1, <2>2 DEF MetaOf
  <2> QED BY <2>3, <2>6, <2>7
<1> QED BY <1>3, <1>4

\* lua_setmetatable with the metatable on top.
LEMMA LinksMeta ==
  ASSUME NEW s \in Seq(Values), NEW index \in 1 .. Len(s), NEW t, s[index][2] = t, NEW m \in Ids
  PROVE  \A U : setmetatable(Mach(Append(s, Table(m)), U), index) = Mach(s, Link(U, t, m))
<1> TAKE U
<1> DEFINE r == Append(s, Table(m))
<1>1. /\ r \in Seq(Values) /\ Len(s) \in Nat /\ Len(r) = Len(s) + 1 /\ r[Len(s) + 1] = Table(m)
      /\ \A j \in 1 .. Len(s) : r[j] = s[j]
      /\ SubSeq(r, 1, Len(s)) = s /\ Table(m)[2] = m
  BY ValueFacts, Grown
<1> HIDE DEF r
<1>2. At(Mach(r, U), index)[2] = t
  <2>1. r[index] = s[index] /\ ~(index < 0)
    BY <1>1
  <2> QED BY <2>1, OnMachines
<1>3. At(Mach(r, U), -1)[2] = m
  <2>1. At(Mach(r, U), -1) = r[Len(r) + 1 + (-1)]
    BY OnMachines
  <2>2. Len(r) + 1 + (-1) = Len(s) + 1
    BY <1>1
  <2> QED BY <1>1, <2>1, <2>2
<1>4. Len(r) - 1 = Len(s)
  BY <1>1
<1>5. setmetatable(Mach(r, U), index) = Mach(s, Link(U, t, m))
  <2>1. setmetatable(Mach(r, U), index) =
          Mach(SubSeq(r, 1, Len(r) - 1), Link(U, At(Mach(r, U), index)[2], At(Mach(r, U), -1)[2]))
    BY MetaInto, Zenon
  <2>2. SubSeq(r, 1, Len(r) - 1) = s
    BY <1>1, <1>4
  <2> QED BY <1>2, <1>3, <2>1, <2>2, Zenon
<1> QED BY <1>5 DEF r

\* luaX_set_metafield with a value.
LEMMA SetsMetafield ==
  ASSUME NEW s \in Seq(Values), NEW T \in [Ids -> ATable], NEW k \in Keys, NEW v \in Values,
         NEW i \in IndicesOf(s),
         NEW t \in Ids, At(Mach(s, T), i) = Table(t), T[t].meta # t,
         HasMeta(Mach(s, T), i) \/ Unused(Mach(s, T)) # {}
  PROVE  \E m, U : /\ MetaOf(s, T, t, m, U)
                   /\ luaX_set_metafield(Mach(s, T), i, k, v) =
                        Mach(s, Link(Put(U, m, k, v), t, m))
<1> DEFINE index == luaX_abs_index(Mach(s, T), i)
<1>1. index \in 1 .. Len(s) /\ s[index] = Table(t) /\ s[index][2] = t
  BY AbsIndex, ValueFacts
<1>2. luaX_set_metafield(Mach(s, T), i, k, v) =
        setmetatable(luaX_set_field(getmetatable(Mach(s, T), index), -1, k, v), index)
  BY Zenon DEF luaX_set_metafield
<1> HIDE DEF index
<1>3. HasMeta(Mach(s, T), index) \/ Unused(Mach(s, T)) # {}
  <2>1. At(Mach(s, T), index) = At(Mach(s, T), i)
    <3>1. ~(index < 0)
      BY <1>1
    <3> QED BY <1>1, <3>1, OnMachines
  <2> QED BY <2>1 DEF HasMeta
<1>4. PICK m, U : /\ MetaOf(s, T, t, m, U)
                  /\ getmetatable(Mach(s, T), index) = Mach(Append(s, Table(m)), U)
  BY <1>1, <1>3, MakesMeta
<1>5. m \in Ids
  BY <1>4 DEF MetaOf
<1> DEFINE r == Append(s, Table(m))
<1>6. /\ r \in Seq(Values) /\ Len(s) \in Nat /\ Len(r) = Len(s) + 1 /\ r[Len(s) + 1] = Table(m)
      /\ Table(m)[2] = m
  BY <1>5, ValueFacts, Grown
<1> HIDE DEF r
<1>7. At(Mach(r, U), -1)[2] = m
  <2>1. At(Mach(r, U), -1) = r[Len(r) + 1 + (-1)]
    BY OnMachines
  <2>2. Len(r) + 1 + (-1) = Len(s) + 1
    BY <1>6
  <2> QED BY <1>6, <2>1, <2>2
<1>8. -1 \in IndicesOf(r)
  <2>1. 1 \in 1 .. Len(r)
    BY <1>6
  <2> QED BY <2>1 DEF IndicesOf
<1>9. luaX_set_field(Mach(r, U), -1, k, v) = Mach(r, Put(U, m, k, v))
  <2>1. luaX_set_field(Mach(r, U), -1, k, v) = Mach(r, Put(U, At(Mach(r, U), -1)[2], k, v))
    BY <1>6, <1>8, SetsField
  <2> QED BY <1>7, <2>1, Zenon
<1>10. setmetatable(Mach(r, Put(U, m, k, v)), index) =
         Mach(s, Link(Put(U, m, k, v), t, m))
  <2>1. \A W : setmetatable(Mach(Append(s, Table(m)), W), index) = Mach(s, Link(W, t, m))
    BY <1>1, <1>5, LinksMeta
  <2> QED BY <2>1, Zenon DEF r
<1>11. luaX_set_metafield(Mach(s, T), i, k, v) =
         Mach(s, Link(Put(U, m, k, v), t, m))
  BY <1>2, <1>4, <1>9, <1>10, Zenon DEF r
<1> QED BY <1>4, <1>11

\* luaX_set_metafield with the value on top.
LEMMA SetsMetafieldTop ==
  ASSUME NEW s \in Seq(Values), s # <<>>, NEW T \in [Ids -> ATable], NEW k \in Keys,
         NEW i \in IndicesOf(s),
         NEW t \in Ids, At(Mach(s, T), i) = Table(t), T[t].meta # t,
         HasMeta(Mach(s, T), i) \/ Unused(Mach(s, T)) # {}
  PROVE  \E m, U : /\ MetaOf(s, T, t, m, U)
                   /\ luaX_set_metafield_top(Mach(s, T), i, k) =
                        Mach(Front(s), Link(Put(U, m, k, Last(s)), t, m))
<1> DEFINE index == luaX_abs_index(Mach(s, T), i)
           v == Last(s)
<1>1. index \in 1 .. Len(s) /\ s[index] = Table(t) /\ s[index][2] = t
  BY AbsIndex, ValueFacts
<1>2. luaX_set_metafield_top(Mach(s, T), i, k) =
        pop(setmetatable(settable(pushvalue(Pushed(getmetatable(Mach(s, T), index), Key(k)), -3), -3), index), 1)
  BY Zenon DEF luaX_set_metafield_top
<1> HIDE DEF index
<1>3. HasMeta(Mach(s, T), index) \/ Unused(Mach(s, T)) # {}
  <2>1. At(Mach(s, T), index) = At(Mach(s, T), i)
    <3>1. ~(index < 0)
      BY <1>1
    <3> QED BY <1>1, <3>1, OnMachines
  <2> QED BY <2>1 DEF HasMeta
<1>4. PICK m, U : /\ MetaOf(s, T, t, m, U)
                  /\ getmetatable(Mach(s, T), index) = Mach(Append(s, Table(m)), U)
  BY <1>1, <1>3, MakesMeta
<1>5. m \in Ids
  BY <1>4 DEF MetaOf
<1> DEFINE r == Append(s, Table(m))
           q == Append(r, Key(k))
           p == Append(q, v)
<1>6. /\ Len(s) \in Nat /\ Len(s) >= 1 /\ v = s[Len(s)] /\ v \in Values
      /\ Front(s) = SubSeq(s, 1, Len(s) - 1)
  BY TopOf
<1>7. /\ r \in Seq(Values) /\ Len(r) = Len(s) + 1 /\ r[Len(s) + 1] = Table(m)
      /\ \A j \in 1 .. Len(s) : r[j] = s[j]
      /\ Table(m)[2] = m
  BY <1>5, ValueFacts, Grown
<1>8. /\ q \in Seq(Values) /\ Len(q) = Len(s) + 2
      /\ \A j \in 1 .. Len(s) + 1 : q[j] = r[j]
  <2> HIDE DEF r
  <2>1. /\ q \in Seq(Values) /\ Len(q) = Len(r) + 1
        /\ \A j \in 1 .. Len(r) : q[j] = r[j]
    BY <1>7, ValueFacts, Grown
  <2> QED BY <1>6, <1>7, <2>1
<1>9. /\ p \in Seq(Values) /\ Len(p) = Len(s) + 3
      /\ \A j \in 1 .. Len(s) + 2 : p[j] = q[j]
  <2> HIDE DEF q
  <2>1. /\ p \in Seq(Values) /\ Len(p) = Len(q) + 1
        /\ \A j \in 1 .. Len(q) : p[j] = q[j]
    BY <1>6, <1>8, Grown
  <2> QED BY <1>6, <1>8, <2>1
<1> HIDE DEF v
<1>10. pushvalue(Pushed(getmetatable(Mach(s, T), index), Key(k)), -3) = Mach(p, U)
  <2>1. Pushed(Mach(r, U), Key(k)) = Mach(q, U)
    BY OnMachines
  <2>2. At(Mach(q, U), -3) = v
    <3> HIDE DEF q
    <3>1. At(Mach(q, U), -3) = q[Len(q) + 1 + (-3)]
      BY OnMachines
    <3>2. Len(q) + 1 + (-3) = Len(s) /\ Len(s) \in 1 .. Len(s) /\ Len(s) \in 1 .. Len(s) + 1
      BY <1>6, <1>8
    <3> QED BY <1>6, <1>7, <1>8, <3>1, <3>2
  <2>3. Pushed(Mach(q, U), v) = Mach(p, U)
    BY OnMachines
  <2> HIDE DEF p, q, r
  <2> QED BY <1>4, <2>1, <2>2, <2>3, Zenon DEF pushvalue, r
<1>11. settable(Mach(p, U), -3) = Mach(r, Put(U, m, k, v))
  <2>1. At(Mach(p, U), -3)[2] = m
    <3> HIDE DEF p
    <3>1. At(Mach(p, U), -3) = p[Len(p) + 1 + (-3)]
      BY OnMachines
    <3>2. Len(p) + 1 + (-3) = Len(s) + 1 /\ Len(s) + 1 \in 1 .. Len(s) + 1 /\ Len(s) + 1 \in 1 .. Len(s) + 2
      BY <1>6, <1>9
    <3> QED BY <1>7, <1>8, <1>9, <3>1, <3>2
  <2> HIDE DEF r
  <2> QED BY <1>6, <1>7, <2>1, Stores
<1>12. setmetatable(Mach(r, Put(U, m, k, v)), index) =
         Mach(s, Link(Put(U, m, k, v), t, m))
  <2>1. \A W : setmetatable(Mach(Append(s, Table(m)), W), index) = Mach(s, Link(W, t, m))
    BY <1>1, <1>5, LinksMeta
  <2> QED BY <2>1, Zenon
<1>13. pop(Mach(s, Link(Put(U, m, k, v), t, m)), 1) =
         Mach(Front(s), Link(Put(U, m, k, v), t, m))
  BY <1>6, PopsOne, Zenon
<1> HIDE DEF p, q, r
<1>14. luaX_set_metafield_top(Mach(s, T), i, k) =
         Mach(Front(s), Link(Put(U, m, k, v), t, m))
  BY <1>2, <1>10, <1>11, <1>12, <1>13, Zenon
<1> QED BY <1>4, <1>14 DEF v

\* Tables of which none is its own metatable.
WellFormed(T) == T \in [Ids -> ATable] /\ \A u \in Ids : T[u].meta # u

-----------------------------------------------------------------------------
\* What the tables are once a metatable has a field more.
LEMMA Linked ==
  ASSUME NEW s, NEW T, WellFormed(T), NEW t \in Ids, NEW k \in Keys, NEW v \in Values,
         NEW m, NEW U, MetaOf(s, T, t, m, U),
         NEW W, W = Link(Put(U, m, k, v), t, m)
  PROVE  /\ WellFormed(W)
         /\ W[t].meta = m /\ m \in Ids \ {t}
         /\ IF T[t].meta = 0 THEN m \in Unused(Mach(s, T)) ELSE m = T[t].meta
         /\ W = Both(T, t, m, k, v)
<1> DEFINE old == IF T[t].meta = 0 THEN Fresh ELSE T[m]
<1>0. T \in [Ids -> ATable] /\ \A u \in Ids : T[u].meta # u
  BY DEF WellFormed
<1>1. m \in Ids /\ m # t /\ IF T[t].meta = 0 THEN m \in Unused(Mach(s, T)) ELSE m = T[t].meta
  BY <1>0 DEF MetaOf
<1>2. U \in [Ids -> ATable] /\ U[m] = old /\ \A u \in Ids \ {m} : U[u] = T[u]
  <2>1. Fresh \in ATable
    BY ValueFacts DEF Fresh, ATable
  <2> HIDE DEF Fresh
  <2>2. CASE T[t].meta = 0
    <3>1. U = [T EXCEPT ![m] = Fresh]
      BY <1>0, <2>2 DEF MetaOf
    <3> QED BY <1>0, <1>1, <2>1, <2>2, <3>1
  <2>3. CASE T[t].meta # 0
    BY <1>0, <1>1, <2>3 DEF MetaOf
  <2> QED BY <2>2, <2>3
<1>3. old \in ATable
  BY <1>0, <1>1, <1>2
<1>4. old.meta # m
  <2>1. Fresh.meta # m
    BY <1>0, <1>1, LuaXAssumption DEF Fresh
  <2> QED BY <1>0, <1>1, <2>1
<1> HIDE DEF old
<1> DEFINE new == [old EXCEPT !.fields[k] = v]
           under == [T[t] EXCEPT !.meta = m]
<1>5. new \in ATable /\ new.meta = old.meta
  BY <1>3 DEF ATable
<1>6. under \in ATable /\ under.meta = m
  BY <1>0, <1>1 DEF ATable
<1>7. Put(U, m, k, v) = [U EXCEPT ![m] = new]
  BY <1>0, <1>1, <1>2 DEF Put
<1> HIDE DEF new
<1>8. W = [Put(U, m, k, v) EXCEPT ![t] = under]
  <2>1. Put(U, m, k, v)[t] = T[t]
    BY <1>0, <1>1, <1>2, <1>7
  <2>2. W = [Put(U, m, k, v) EXCEPT ![t] = [Put(U, m, k, v)[t] EXCEPT !.meta = m]]
    BY Zenon DEF Link
  <2> QED BY <2>1, <2>2
<1> HIDE DEF under
<1>9. /\ W \in [Ids -> ATable] /\ W[t] = under /\ W[m] = new
      /\ \A u \in Ids \ {t, m} : W[u] = T[u]
  <2> DEFINE P == Put(U, m, k, v)
  <2>1. P \in [Ids -> ATable] /\ P[m] = new /\ \A u \in Ids \ {m} : P[u] = T[u]
    BY <1>0, <1>1, <1>2, <1>5, <1>7
  <2> HIDE DEF P
  <2>2. W = [P EXCEPT ![t] = under]
    BY <1>8 DEF P
  <2> QED BY <1>0, <1>1, <1>6, <2>1, <2>2
<1>10. \A u \in Ids : W[u].meta # u
  <2>1. under.meta # t /\ new.meta # m
    BY <1>0, <1>1, <1>4, <1>5, <1>6
  <2> QED BY <1>0, <1>9, <2>1
<1>11. W = [T EXCEPT ![t].meta = m, ![m] = new]
  <2> DEFINE X == [T EXCEPT ![t].meta = m, ![m] = new]
  <2>1. X \in [Ids -> ATable] /\ X[t] = under /\ X[m] = new /\ \A u \in Ids \ {t, m} : X[u] = T[u]
    BY <1>0, <1>1, <1>5, <1>6 DEF under
  <2> HIDE DEF X
  <2>2. \A u \in Ids : X[u] = W[u]
    BY <1>9, <2>1
  <2>3. X = W
    BY <1>9, <2>1, <2>2
  <2> QED BY <2>3 DEF X
<1>12. W[t].meta = m
  BY <1>6, <1>9
<1>13. W = Both(T, t, m, k, v)
  BY <1>11, Zenon DEF Both, old, new, Fresh
<1>14. WellFormed(W)
  BY <1>9, <1>10, Zenon DEF WellFormed
<1> QED BY <1>1, <1>12, <1>13, <1>14

\* What is known where a helper is called.
LEMMA Called_ ==
  ASSUME StackOK, NEW i \in TableIndices
  PROVE  /\ Lua = Mach(stack, tables) /\ i \in IndicesOf(stack)
         /\ TableAt(i) \in Ids /\ At(Lua, i) = Table(TableAt(i))
<1>1. Lua = Mach(stack, tables)
  BY DEF Lua, Mach
<1>2. i \in IndicesOf(stack) /\ IsTable(At(Lua, i))
  BY DEF TableIndices, Indices, IndicesOf, Top
<1>3. At(Lua, i) \in Values
  <2>1. stack \in Seq(Values)
    BY DEF StackOK
  <2>2. luaX_abs_index(Lua, i) \in 1 .. Len(stack) /\ stack[luaX_abs_index(Lua, i)] = At(Lua, i)
    BY <1>1, <1>2, <2>1, AbsIndex
  <2> QED BY <2>1, <2>2
<1>4. At(Lua, i)[2] \in Ids /\ At(Lua, i) = Table(At(Lua, i)[2])
  BY <1>2, <1>3, ValueFacts
<1> QED BY <1>1, <1>2, <1>4, Zenon DEF TableAt

\* A value of the function's own lies above its arguments and any saved top.
LEMMA OwnTop ==
  ASSUME StackOK, Own
  PROVE  /\ stack # <<>> /\ Len(stack) \in Nat /\ top < Len(stack)
         /\ saved # <<>> => saved[1] < Len(stack)
<1>1. stack \in Seq(Values) /\ top \in Nat /\ saved \in Seq(Nat) /\ Tops
  BY DEF StackOK
<1>2. Len(stack) \in Nat
  BY <1>1
<1>3. Len(stack) > IF saved = <<>> THEN top ELSE Last(saved)
  BY DEF Own, Top
<1>4. CASE saved = <<>>
  <2>1. top < Len(stack)
    BY <1>1, <1>2, <1>3, <1>4
  <2>2. stack # <<>>
    BY <1>1, <1>2, <2>1
  <2> QED BY <1>2, <1>4, <2>1, <2>2
<1>5. CASE saved # <<>>
  <2>1. Len(saved) = 1 /\ top <= saved[1] /\ saved[1] \in Nat
    BY <1>1, <1>5 DEF Tops
  <2>2. Last(saved) = saved[1]
    BY <2>1 DEF Last
  <2>3. top < Len(stack) /\ saved[1] < Len(stack)
    BY <1>1, <1>2, <1>3, <1>5, <2>1, <2>2
  <2>4. stack # <<>>
    BY <1>1, <1>2, <2>3
  <2> QED BY <1>2, <2>3, <2>4
<1> QED BY <1>4, <1>5

\* The five helpers, for every stack and all tables.
LEMMA Helpers ==
  ASSUME StackOK, NEW i \in TableIndices, NEW k \in Keys
  PROVE  LET t == TableAt(i)
         IN /\ SetFieldTop(i, k) => stack' = Front(stack) /\ tables' = Put(tables, t, k, Last(stack))
            /\ GetField(i, k) => stack' = Append(stack, tables[t].fields[k]) /\ tables' = tables
            /\ SetMetafieldTop(i, k) =>
                 /\ stack' = Front(stack)
                 /\ \E m, U : /\ MetaOf(stack, tables, t, m, U)
                              /\ tables' = Link(Put(U, m, k, Last(stack)), t, m)
            /\ \A v \in Scalars :
                 /\ SetField(i, k, v) => stack' = stack /\ tables' = Put(tables, t, k, v)
                 /\ SetMetafield(i, k, v) =>
                      /\ stack' = stack
                      /\ \E m, U : /\ MetaOf(stack, tables, t, m, U)
                                   /\ tables' = Link(Put(U, m, k, v), t, m)
<1> DEFINE t == TableAt(i)
<1>1. /\ Lua = Mach(stack, tables) /\ i \in IndicesOf(stack)
      /\ t \in Ids /\ At(Lua, i) = Table(t) /\ At(Lua, i)[2] = t
  BY Called_, Zenon DEF TableAt
<1>2. stack \in Seq(Values) /\ tables \in [Ids -> ATable] /\ tables[t].meta # t
  BY <1>1 DEF StackOK
<1>3. \A s, T : Becomes(Mach(s, T)) => stack' = s /\ tables' = T
  BY OnMachines DEF Becomes
<1> HIDE DEF t
<1>4. ASSUME SetFieldTop(i, k)
      PROVE  stack' = Front(stack) /\ tables' = Put(tables, t, k, Last(stack))
  <2>1. stack # <<>> /\ Becomes(luaX_set_field_top(Lua, i, k))
    BY <1>4, OwnTop DEF SetFieldTop
  <2>2. luaX_set_field_top(Mach(stack, tables), i, k) =
          Mach(Front(stack), Put(tables, At(Mach(stack, tables), i)[2], k, Last(stack)))
    BY <1>1, <1>2, <2>1, SetsFieldTop
  <2> QED BY <1>1, <1>3, <2>1, <2>2, Zenon
<1>5. ASSUME GetField(i, k)
      PROVE  stack' = Append(stack, tables[t].fields[k]) /\ tables' = tables
  <2>1. Becomes(luaX_get_field(Lua, i, k))
    BY <1>5 DEF GetField
  <2>2. luaX_get_field(Mach(stack, tables), i, k) =
          Mach(Append(stack, tables[At(Mach(stack, tables), i)[2]].fields[k]), tables)
    BY <1>1, <1>2, GetsField
  <2> QED BY <1>1, <1>3, <2>1, <2>2, Zenon
<1>6. CanSetMeta(i) => HasMeta(Mach(stack, tables), i) \/ Unused(Mach(stack, tables)) # {}
  BY <1>1, Zenon DEF CanSetMeta
<1>7. ASSUME SetMetafieldTop(i, k)
      PROVE  /\ stack' = Front(stack)
             /\ \E m, U : MetaOf(stack, tables, t, m, U) /\ tables' = Link(Put(U, m, k, Last(stack)), t, m)
  <2>1. stack # <<>> /\ Becomes(luaX_set_metafield_top(Lua, i, k)) /\ CanSetMeta(i)
    BY <1>7, OwnTop DEF SetMetafieldTop
  <2>2. At(Mach(stack, tables), i) = Table(t)
    BY <1>1
  <2>3. PICK m, U : /\ MetaOf(stack, tables, t, m, U)
                    /\ luaX_set_metafield_top(Mach(stack, tables), i, k) =
                         Mach(Front(stack), Link(Put(U, m, k, Last(stack)), t, m))
    BY <1>1, <1>2, <1>6, <2>1, <2>2, SetsMetafieldTop
  <2>4. stack' = Front(stack) /\ tables' = Link(Put(U, m, k, Last(stack)), t, m)
    BY <1>1, <1>3, <2>1, <2>3, Zenon
  <2> QED BY <2>3, <2>4
<1>8. ASSUME NEW v \in Scalars, SetField(i, k, v)
      PROVE  stack' = stack /\ tables' = Put(tables, t, k, v)
  <2>1. v \in Values /\ Becomes(luaX_set_field(Lua, i, k, v))
    BY <1>8, ValueFacts DEF SetField
  <2>2. luaX_set_field(Mach(stack, tables), i, k, v) =
          Mach(stack, Put(tables, At(Mach(stack, tables), i)[2], k, v))
    BY <1>1, <1>2, <2>1, SetsField
  <2> QED BY <1>1, <1>3, <2>1, <2>2, Zenon
<1>9. ASSUME NEW v \in Scalars, SetMetafield(i, k, v)
      PROVE  /\ stack' = stack
             /\ \E m, U : MetaOf(stack, tables, t, m, U) /\ tables' = Link(Put(U, m, k, v), t, m)
  <2>1. v \in Values /\ Becomes(luaX_set_metafield(Lua, i, k, v)) /\ CanSetMeta(i)
    BY <1>9, ValueFacts DEF SetMetafield
  <2>2. At(Mach(stack, tables), i) = Table(t)
    BY <1>1
  <2>3. PICK m, U : /\ MetaOf(stack, tables, t, m, U)
                    /\ luaX_set_metafield(Mach(stack, tables), i, k, v) =
                         Mach(stack, Link(Put(U, m, k, v), t, m))
    BY <1>1, <1>2, <1>6, <2>1, <2>2, SetsMetafield
  <2>4. stack' = stack /\ tables' = Link(Put(U, m, k, v), t, m)
    BY <1>1, <1>3, <2>1, <2>3, Zenon
  <2> QED BY <2>3, <2>4
<1> QED BY <1>4, <1>5, <1>7, <1>8, <1>9, Zenon DEF t

\* Every helper that sets or gets a field does it to the right field.
LEMMA FieldsKept == StackOK => FieldsPromise
<1> SUFFICES ASSUME StackOK, NEW i \in TableIndices, NEW k \in Keys
             PROVE  /\ SetFieldTop(i, k) => stack' = Front(stack) /\ OnlyField(TableAt(i), k, Last(stack))
                    /\ GetField(i, k) => stack' = Append(stack, tables[TableAt(i)].fields[k]) /\ UNCHANGED tables
                    /\ SetMetafieldTop(i, k) => stack' = Front(stack) /\ OnlyMetafield(TableAt(i), k, Last(stack))
                    /\ \A v \in Scalars :
                         /\ SetField(i, k, v) => UNCHANGED stack /\ OnlyField(TableAt(i), k, v)
                         /\ SetMetafield(i, k, v) => UNCHANGED stack /\ OnlyMetafield(TableAt(i), k, v)
  BY Zenon DEF FieldsPromise
<1> DEFINE t == TableAt(i)
<1>1. /\ t \in Ids /\ stack \in Seq(Values) /\ tables \in [Ids -> ATable]
      /\ \A u \in Ids : tables[u].meta # u
      /\ Lua = Mach(stack, tables)
  BY Called_, Zenon DEF StackOK
<1> HIDE DEF t
<1>2. \A v : OnlyField(t, k, v) <=> tables' = Put(tables, t, k, v)
  BY Zenon DEF OnlyField, Put
<1>3. ASSUME NEW v \in Values, NEW m, NEW U, MetaOf(stack, tables, t, m, U),
             tables' = Link(Put(U, m, k, v), t, m)
      PROVE  OnlyMetafield(t, k, v)
  <2>0. WellFormed(tables)
    BY <1>1, Zenon DEF WellFormed
  <2>1. /\ tables'[t].meta = m /\ m \in Ids \ {t}
        /\ IF tables[t].meta = 0 THEN m \in Unused(Mach(stack, tables)) ELSE m = tables[t].meta
        /\ tables' = Both(tables, t, m, k, v)
    BY <1>1, <1>3, <2>0, Linked
  <2>2. m # t
    BY <2>1
  <2> QED BY <1>1, <2>1, <2>2, Zenon DEF OnlyMetafield, Both
<1>4. Own => Last(stack) \in Values
  BY <1>1, OwnTop, TopOf
<1>5. SetMetafieldTop(i, k) => stack' = Front(stack) /\ OnlyMetafield(t, k, Last(stack))
  <2>1. SUFFICES ASSUME SetMetafieldTop(i, k)
                 PROVE  stack' = Front(stack) /\ OnlyMetafield(t, k, Last(stack))
    OBVIOUS
  <2>2. Last(stack) \in Values
    BY <1>4, <2>1 DEF SetMetafieldTop
  <2> QED BY <1>3, <2>1, <2>2, Helpers, Zenon DEF t
<1>6. \A v \in Scalars : SetMetafield(i, k, v) => UNCHANGED stack /\ OnlyMetafield(t, k, v)
  BY <1>3, Helpers, ValueFacts, Zenon DEF t
<1>7. /\ SetFieldTop(i, k) => stack' = Front(stack) /\ OnlyField(t, k, Last(stack))
      /\ GetField(i, k) => stack' = Append(stack, tables[t].fields[k]) /\ UNCHANGED tables
      /\ \A v \in Scalars : SetField(i, k, v) => UNCHANGED stack /\ OnlyField(t, k, v)
  BY <1>2, Helpers, Zenon DEF t
<1> QED BY <1>5, <1>6, <1>7, Zenon DEF t

-----------------------------------------------------------------------------
\* The parts of SubSeq.
LEMMA Taken ==
  ASSUME NEW V, NEW s \in Seq(V)
  PROVE  /\ Len(s) \in Nat
         /\ \A n \in 0 .. Len(s) : SubSeq(s, 1, n) \in Seq(V) /\ Len(SubSeq(s, 1, n)) = n
         /\ \A n \in 0 .. Len(s) : SubSeq(s, Len(s) - n + 1, Len(s)) \in Seq(V)
OBVIOUS

\* A function starts with its arguments on the stack.
LEMMA StackInit == LuaStart => StackOK
<1> SUFFICES ASSUME LuaStart PROVE StackOK
  OBVIOUS
<1>1. PICK args \in Seq(Values) :
        /\ stack = args /\ top = Len(args) /\ saved = <<>>
        /\ tables = [t \in Ids |-> Fresh]
  <2> DEFINE first == CHOOSE t \in Ids : TRUE
  <2>1. first \in Ids
    BY LuaXAssumption
  <2> HIDE DEF first
  <2>2. Table(first) \in Values
    BY <2>1, ValueFacts
  <2>3. \A a \in Scalars : <<a, Table(first)>> \in Seq(Values)
    BY <2>2, ValueFacts
  <2>4. \A a \in Arguments : <<a>> \in Seq(Values)
    BY ValueFacts
  <2>5. \/ \E v : \E a \in Scalars : StartWith(<<a, Table(first)>>, v)
        \/ \E v : \E a \in Arguments : StartWith(<<a>>, v)
    BY Zenon DEF LuaStart, first
  <2>6. \E args \in Seq(Values) : \E v : StartWith(args, v)
    BY <2>3, <2>4, <2>5, Zenon
  <2> QED BY <2>6, Zenon DEF StartWith, Fresh
<1>2. Fresh \in ATable /\ Fresh.meta = 0
  BY ValueFacts DEF Fresh, ATable
<1>3. 0 \notin Ids
  BY LuaXAssumption
<1>4. tables \in [Ids -> ATable] /\ \A t \in Ids : tables[t].meta # t
  <2> HIDE DEF Fresh
  <2> QED BY <1>1, <1>2, <1>3
<1>5. top \in Nat /\ saved \in Seq(Nat) /\ Tops
  <2>1. Len(stack) \in Nat
    BY <1>1
  <2> QED BY <1>1, <2>1 DEF Tops
<1> QED BY <1>1, <1>4, <1>5 DEF StackOK

\* A helper that leaves what it should keeps the tops.
LEMMA TopsKept ==
  ASSUME StackOK, Helper, stack' \in Seq(Values),
         tables' \in [Ids -> ATable], \A u \in Ids : tables'[u].meta # u,
         \/ Len(stack') >= Len(stack)
         \/ Own /\ Len(stack') >= Len(stack) - 1
  PROVE  StackOK'
<1>1. top' = top /\ saved' = saved
  BY DEF Helper
<1>2. /\ stack \in Seq(Values) /\ top \in Nat /\ saved \in Seq(Nat) /\ Tops
  BY DEF StackOK
<1>3. Len(stack) \in Nat /\ Len(stack') \in Nat
  BY <1>2
<1>4. Tops'
  <2>1. CASE Len(stack') >= Len(stack)
    <3>1. CASE saved = <<>>
      BY <1>1, <1>2, <1>3, <2>1, <3>1 DEF Tops
    <3>2. CASE saved # <<>>
      <4>1. Len(saved) = 1 /\ saved[1] \in Nat /\ top <= saved[1] /\ saved[1] <= Len(stack)
        BY <1>2, <3>2 DEF Tops
      <4> QED BY <1>1, <1>3, <2>1, <3>2, <4>1 DEF Tops
    <3> QED BY <3>1, <3>2
  <2>2. CASE Own /\ Len(stack') >= Len(stack) - 1
    <3>1. top < Len(stack) /\ (saved # <<>> => saved[1] < Len(stack))
      BY <2>2, OwnTop
    <3>2. CASE saved = <<>>
      BY <1>1, <1>2, <1>3, <2>2, <3>1, <3>2 DEF Tops
    <3>3. CASE saved # <<>>
      <4>1. Len(saved) = 1 /\ saved[1] \in Nat /\ top <= saved[1]
        BY <1>2, <3>3 DEF Tops
      <4> QED BY <1>1, <1>3, <2>2, <3>1, <3>3, <4>1 DEF Tops
    <3> QED BY <3>2, <3>3
  <2> QED BY <2>1, <2>2
<1> QED BY <1>1, <1>2, <1>4 DEF StackOK

\* The helpers that set or get a field.
LEMMA FieldsStep ==
  ASSUME StackOK, NEW i \in TableIndices, NEW k \in Keys,
         \/ SetFieldTop(i, k) \/ GetField(i, k) \/ SetMetafieldTop(i, k)
         \/ \E v \in Scalars : SetField(i, k, v) \/ SetMetafield(i, k, v)
  PROVE  StackOK'
<1> DEFINE t == TableAt(i)
<1>1. /\ t \in Ids /\ stack \in Seq(Values) /\ tables \in [Ids -> ATable]
      /\ \A u \in Ids : tables[u].meta # u
  BY Called_, Zenon DEF StackOK
<1> HIDE DEF t
<1>2. Len(stack) \in Nat
  BY <1>1
<1>3. Own => /\ Front(stack) \in Seq(Values) /\ Len(Front(stack)) >= Len(stack) - 1
             /\ Last(stack) \in Values
  BY <1>1, OwnTop, TopOf
<1>4. ASSUME NEW v \in Values, tables' = Put(tables, t, k, v)
      PROVE  tables' \in [Ids -> ATable] /\ \A u \in Ids : tables'[u].meta # u
  <2> DEFINE new == [tables[t] EXCEPT !.fields[k] = v]
  <2>1. new \in ATable /\ new.meta = tables[t].meta
    BY <1>1 DEF ATable
  <2>2. tables' = [tables EXCEPT ![t] = new]
    BY <1>4, Zenon DEF Put
  <2> HIDE DEF new
  <2> QED BY <1>1, <2>1, <2>2
<1>5. ASSUME NEW v \in Values, NEW m, NEW U, MetaOf(stack, tables, t, m, U),
             tables' = Link(Put(U, m, k, v), t, m)
      PROVE  tables' \in [Ids -> ATable] /\ \A u \in Ids : tables'[u].meta # u
  <2>1. WellFormed(tables)
    BY <1>1, Zenon DEF WellFormed
  <2>2. WellFormed(tables')
    BY <1>1, <1>5, <2>1, Linked
  <2> QED BY <2>2, Zenon DEF WellFormed
<1>6. CASE SetFieldTop(i, k)
  <2>1. Own /\ Helper
    BY <1>6 DEF SetFieldTop
  <2>2. stack' = Front(stack) /\ tables' = Put(tables, t, k, Last(stack))
    BY <1>6, Helpers, Zenon DEF t
  <2>3. tables' \in [Ids -> ATable] /\ \A u \in Ids : tables'[u].meta # u
    BY <1>3, <1>4, <2>1, <2>2
  <2> QED BY <1>3, <2>1, <2>2, <2>3, TopsKept
<1>7. CASE GetField(i, k)
  <2>1. Helper
    BY <1>7 DEF GetField
  <2>2. stack' = Append(stack, tables[t].fields[k]) /\ tables' = tables
    BY <1>7, Helpers, Zenon DEF t
  <2>3. tables[t].fields[k] \in Values
    BY <1>1 DEF ATable
  <2>4. stack' \in Seq(Values) /\ Len(stack') >= Len(stack)
    BY <1>1, <1>2, <2>2, <2>3, Grown
  <2> QED BY <1>1, <2>1, <2>2, <2>4, TopsKept
<1>8. CASE SetMetafieldTop(i, k)
  <2>1. Own /\ Helper
    BY <1>8 DEF SetMetafieldTop
  <2>2. PICK m, U : /\ MetaOf(stack, tables, t, m, U)
                    /\ tables' = Link(Put(U, m, k, Last(stack)), t, m)
    BY <1>8, Helpers, Zenon DEF t
  <2>3. stack' = Front(stack)
    BY <1>8, Helpers, Zenon DEF t
  <2>4. tables' \in [Ids -> ATable] /\ \A u \in Ids : tables'[u].meta # u
    BY <1>3, <1>5, <2>1, <2>2
  <2> QED BY <1>3, <2>1, <2>3, <2>4, TopsKept
<1>9. ASSUME NEW v \in Scalars, SetField(i, k, v)
      PROVE  StackOK'
  <2>1. Helper /\ v \in Values
    BY <1>9, ValueFacts DEF SetField
  <2>2. stack' = stack /\ tables' = Put(tables, t, k, v)
    BY <1>9, Helpers, Zenon DEF t
  <2>3. tables' \in [Ids -> ATable] /\ \A u \in Ids : tables'[u].meta # u
    BY <1>4, <2>1, <2>2
  <2> QED BY <1>1, <1>2, <2>1, <2>2, <2>3, TopsKept
<1>10. ASSUME NEW v \in Scalars, SetMetafield(i, k, v)
       PROVE  StackOK'
  <2>1. Helper /\ v \in Values
    BY <1>10, ValueFacts DEF SetMetafield
  <2>2. PICK m, U : /\ MetaOf(stack, tables, t, m, U)
                    /\ tables' = Link(Put(U, m, k, v), t, m)
    BY <1>10, Helpers, Zenon DEF t
  <2>3. stack' = stack
    BY <1>10, Helpers, Zenon DEF t
  <2>4. tables' \in [Ids -> ATable] /\ \A u \in Ids : tables'[u].meta # u
    BY <1>5, <2>1, <2>2
  <2> QED BY <1>1, <1>2, <2>1, <2>3, <2>4, TopsKept
<1> QED BY <1>6, <1>7, <1>8, <1>9, <1>10

\* push_success adds one value, which is true.
LEMMA SuccessIs ==
  ASSUME StackOK, luaX_push_success
  PROVE  \E v \in Values : IsTrue(v) /\ stack' = Append(stack, v) /\ tables' = tables
<1> DEFINE v == IF stack # <<>> /\ IsTrue(stack[1]) THEN stack[1] ELSE Boolean(TRUE)
<1>1. stack \in Seq(Values) /\ Lua = Mach(stack, tables)
  BY DEF StackOK, Lua, Mach
<1>2. v \in Values
  <2>1. stack # <<>> => stack[1] \in Values
    BY <1>1, EmptySeq
  <2> QED BY <2>1, ValueFacts
<1>3. IsTrue(v)
  BY DEF IsTrue, Boolean, Nil
<1>4. Becomes(Pushed(Lua, v))
  BY DEF luaX_push_success
<1> HIDE DEF v
<1>5. Pushed(Lua, v) = Mach(Append(stack, v), tables)
  BY <1>1, OnMachines
<1>6. \A s, T : Becomes(Mach(s, T)) => stack' = s /\ tables' = T
  BY OnMachines DEF Becomes
<1>7. stack' = Append(stack, v) /\ tables' = tables
  BY <1>4, <1>5, <1>6, Zenon
<1> QED BY <1>2, <1>3, <1>7

\* A new table is pushed.
LEMMA NewTableIs ==
  ASSUME Lua = Mach(stack, tables), NewTable
  PROVE  \E m \in Ids : stack' = Append(stack, Table(m)) /\ tables' = [tables EXCEPT ![m] = Fresh]
<1> DEFINE m == CHOOSE u \in Unused(Lua) : TRUE
<1>1. m \in Ids
  BY DEF NewTable, Unused
<1>2. newtable(Lua) = Pushed([Lua EXCEPT !.tables[m] = Fresh], Table(m))
  BY Zenon DEF newtable, Fresh
<1> HIDE DEF m
<1>3. [Mach(stack, tables) EXCEPT !.tables[m] = Fresh] = Mach(stack, [tables EXCEPT ![m] = Fresh])
  BY DEF Mach
<1>4. newtable(Lua) = Mach(Append(stack, Table(m)), [tables EXCEPT ![m] = Fresh])
  BY <1>2, <1>3, OnMachines
<1>5. \A s, T : Becomes(Mach(s, T)) => stack' = s /\ tables' = T
  BY OnMachines DEF Becomes
<1>6. stack' = Append(stack, Table(m)) /\ tables' = [tables EXCEPT ![m] = Fresh]
  BY <1>4, <1>5, Zenon DEF NewTable
<1> QED BY <1>1, <1>6

\* The stack is cut at the top that was saved last.
LEMMA RestoreIs ==
  ASSUME Lua = Mach(stack, tables), RestoreTop
  PROVE  stack' = SubSeq(stack, 1, Last(saved)) /\ tables' = tables
<1>1. \A n : settop(Mach(stack, tables), n) = Mach(SubSeq(stack, 1, n), tables)
  BY OnMachines
<1>2. Becomes(Mach(SubSeq(stack, 1, Last(saved)), tables))
  BY <1>1, Zenon DEF RestoreTop
<1> QED BY <1>2, OnMachines DEF Becomes

\* What a failure leaves is a sequence of values.
LEMMA FailuresAre == \A what \in Failures : what \in Seq(Values) /\ Len(what) \in Nat
<1> SUFFICES ASSUME NEW what \in Failures PROVE what \in Seq(Values) /\ Len(what) \in Nat
  OBVIOUS
<1>1. Nil \in Values /\ Integer(1) \in Values /\ Str("what") \in Values
  BY ValueFacts
<1>2. \A a, b, c \in Values : /\ <<a, b>> \in Seq(Values) /\ <<a>> \in Seq(Values)
                             /\ <<a, b, c>> \in Seq(Values)
  OBVIOUS
<1>3. \/ what = <<Nil, Str("what")>> \/ what = <<Nil, Str("what"), Integer(1)>>
      \/ what = <<Str("what")>>
  BY Zenon DEF Failures
<1>4. what \in Seq(Values)
  BY <1>1, <1>2, <1>3, Zenon
<1> QED BY <1>4

\* The end of two sequences in a row is the second one.
LEMMA EndOf ==
  ASSUME NEW V, NEW q \in Seq(V), NEW w \in Seq(V)
  PROVE  SubSeq(q \o w, Len(q \o w) - Len(w) + 1, Len(q \o w)) = w
<1> DEFINE r == q \o w
           e == SubSeq(r, Len(r) - Len(w) + 1, Len(r))
<1>1. /\ r \in Seq(V) /\ Len(q) \in Nat /\ Len(w) \in Nat /\ Len(r) = Len(q) + Len(w)
      /\ \A j \in 1 .. Len(w) : r[Len(q) + j] = w[j]
  OBVIOUS
<1> HIDE DEF r
<1>2. /\ e \in Seq(V) /\ Len(e) = Len(w)
      /\ \A j \in 1 .. Len(w) : e[j] = r[Len(q) + j]
  BY <1>1
<1> HIDE DEF e
<1>3. e = w
  BY <1>1, <1>2, SeqEqual
<1> QED BY <1>3 DEF e, r

\* What is left of the stack when a function returns or fails.
LEMMA EndsOf ==
  ASSUME StackOK
  PROVE  /\ Return => stack' = SubSeq(stack, top + 1, Top)
         /\ Throw => stack' \in Failures
<1>1. stack \in Seq(Values) /\ top \in Nat /\ Len(stack) \in Nat /\ Lua = Mach(stack, tables)
  BY DEF StackOK, Lua, Mach
<1>2. ASSUME Return PROVE stack' = SubSeq(stack, top + 1, Top)
  <2>1. stack' = SubSeq(stack, Top - (Top - top) + 1, Top)
    BY <1>1, <1>2, OnMachines DEF Return, Results, LastOf, Top
  <2>2. Top - (Top - top) + 1 = top + 1
    BY <1>1 DEF Top
  <2> QED BY <2>1, <2>2
<1>3. ASSUME Throw PROVE stack' \in Failures
  <2>1. PICK what \in Failures : stack' = LastOf(Pushes(settop(Lua, top), what), Len(what))
    BY <1>3 DEF Throw, Results
  <2>2. what \in Seq(Values) /\ Len(what) \in Nat
    BY FailuresAre
  <2>3. top \in 0 .. Len(stack)
    BY <1>1 DEF StackOK, Tops
  <2> DEFINE q == SubSeq(stack, 1, top)
             r == q \o what
  <2>4. q \in Seq(Values)
    BY <1>1, <2>3, Taken
  <2>5. Pushes(settop(Lua, top), what).stack = r
    <3>1. \A s, T, w : Pushes(Mach(s, T), w).stack = s \o w
      BY DEF Pushes, Mach
    <3>2. settop(Lua, top) = Mach(q, tables)
      BY <1>1, OnMachines
    <3> QED BY <3>1, <3>2
  <2> HIDE DEF q
  <2>6. SubSeq(r, Len(r) - Len(what) + 1, Len(r)) = what
    BY <2>2, <2>4, EndOf
  <2> HIDE DEF r
  <2>7. stack' = what
    BY <2>1, <2>5, <2>6 DEF LastOf
  <2> QED BY <2>1, <2>7
<1> QED BY <1>2, <1>3

\* The other steps of a function on tables.
LEMMA StackStep == StackOK /\ StackNext => StackOK'
<1> SUFFICES ASSUME StackOK, StackNext PROVE StackOK'
  OBVIOUS
<1>1. /\ stack \in Seq(Values) /\ tables \in [Ids -> ATable] /\ top \in Nat /\ saved \in Seq(Nat)
      /\ Tops /\ \A u \in Ids : tables[u].meta # u
      /\ Lua = Mach(stack, tables) /\ Len(stack) \in Nat
  BY DEF StackOK, Lua, Mach
<1>2. \A s, T : Becomes(Mach(s, T)) => stack' = s /\ tables' = T
  BY OnMachines DEF Becomes
<1>3. saved # <<>> => Len(saved) = 1 /\ Last(saved) = saved[1] /\ saved[1] \in 0 .. Len(stack)
                      /\ top <= saved[1] /\ Front(saved) = <<>>
  <2>1. SUFFICES ASSUME saved # <<>>
                 PROVE  Len(saved) = 1 /\ Last(saved) = saved[1] /\ saved[1] \in 0 .. Len(stack)
                        /\ top <= saved[1] /\ Front(saved) = <<>>
    OBVIOUS
  <2>2. Len(saved) = 1 /\ top <= saved[1] /\ saved[1] <= Len(stack) /\ saved[1] \in Nat
    BY <1>1, <2>1 DEF Tops
  <2>3. Last(saved) = saved[Len(saved)] /\ Front(saved) \in Seq(Nat)
        /\ Len(Front(saved)) = Len(saved) - 1
    BY <1>1, <2>1, TopOf
  <2>4. Front(saved) = <<>>
    BY <2>2, <2>3, EmptySeq
  <2> QED BY <1>1, <2>2, <2>3, <2>4
<1>4. ASSUME NEW v \in Scalars, luaX_push(<<v>>)
      PROVE  StackOK'
  <2>1. stack' = stack \o <<v>> /\ tables' = tables /\ Helper
    BY <1>4 DEF luaX_push
  <2>2. stack' \in Seq(Values) /\ Len(stack') >= Len(stack)
    BY <1>1, <2>1, ValueFacts
  <2> QED BY <1>1, <2>1, <2>2, TopsKept
<1>5. CASE NewTable
  <2>1. PICK m \in Ids : stack' = Append(stack, Table(m)) /\ tables' = [tables EXCEPT ![m] = Fresh]
    BY <1>1, <1>5, NewTableIs
  <2>2. Helper
    BY <1>5 DEF NewTable
  <2>3. stack' \in Seq(Values) /\ Len(stack') >= Len(stack)
    BY <1>1, <2>1, ValueFacts, Grown
  <2>4. Fresh \in ATable /\ Fresh.meta # m
    BY <2>1, ValueFacts, LuaXAssumption DEF Fresh, ATable
  <2>5. tables' \in [Ids -> ATable] /\ \A u \in Ids : tables'[u].meta # u
    <3> HIDE DEF Fresh
    <3> QED BY <1>1, <2>1, <2>4
  <2> QED BY <2>2, <2>3, <2>5, TopsKept
<1>6. CASE luaX_push_success
  <2>1. Helper
    BY <1>6 DEF luaX_push_success
  <2>2. PICK v \in Values : stack' = Append(stack, v) /\ tables' = tables
    BY <1>6, SuccessIs
  <2>3. stack' \in Seq(Values) /\ Len(stack') >= Len(stack)
    BY <1>1, <2>2, Grown
  <2> QED BY <1>1, <2>1, <2>2, <2>3, TopsKept
<1>7. CASE SaveTop
  <2>1. saved = <<>>
    BY <1>3, <1>7 DEF SaveTop
  <2>2. stack' = stack /\ tables' = tables /\ top' = top /\ saved' = <<Len(stack)>>
    BY <1>7, <2>1 DEF SaveTop, Top
  <2>3. Tops'
    BY <1>1, <2>1, <2>2 DEF Tops
  <2> QED BY <1>1, <2>2, <2>3 DEF StackOK
<1>8. CASE RestoreTop
  <2>1. saved # <<>>
    BY <1>8 DEF RestoreTop
  <2>2. /\ stack' = SubSeq(stack, 1, saved[1]) /\ tables' = tables
        /\ saved' = <<>> /\ top' = top
    BY <1>1, <1>3, <1>8, <2>1, RestoreIs DEF RestoreTop
  <2>3. stack' \in Seq(Values) /\ Len(stack') = saved[1]
    BY <1>1, <1>3, <2>1, <2>2, Taken
  <2> QED BY <1>1, <1>3, <2>1, <2>2, <2>3 DEF StackOK, Tops
<1>9. ASSUME NEW q \in Seq(Values), Results(q)
      PROVE  StackOK'
  <2>1. stack' = q /\ top' = Len(q) /\ saved' = <<>> /\ tables' = tables
    BY <1>9 DEF Results
  <2> QED BY <1>1, <2>1 DEF StackOK, Tops
<1>10. CASE Return
  <2>1. saved = <<>> /\ Results(LastOf(Lua, Top - top))
    BY <1>10 DEF Return
  <2>2. Lua.stack = stack
    BY DEF Lua
  <2>3. Top - top \in 0 .. Len(stack)
    BY <1>1, <2>1 DEF Top, Tops
  <2>4. LastOf(Lua, Top - top) \in Seq(Values)
    BY <1>1, <2>2, <2>3, Taken DEF LastOf
  <2> QED BY <1>9, <2>1, <2>4
<1>11. CASE Throw
  <2>1. \E q : Results(q) /\ stack' = q
    BY <1>11, Zenon DEF Throw, Results
  <2>2. stack' \in Failures
    BY <1>11, EndsOf
  <2>3. stack' \in Seq(Values)
    BY <2>2, FailuresAre
  <2> QED BY <1>9, <2>1, <2>3, Zenon
<1>12. ASSUME NEW i \in TableIndices, NEW k \in Keys,
              \/ SetFieldTop(i, k) \/ GetField(i, k) \/ SetMetafieldTop(i, k)
              \/ \E v \in Scalars : SetField(i, k, v) \/ SetMetafield(i, k, v)
       PROVE  StackOK'
  BY <1>12, FieldsStep, Zenon
<1> QED BY <1>4, <1>5, <1>6, <1>7, <1>8, <1>10, <1>11, <1>12, Zenon DEF StackNext

-----------------------------------------------------------------------------
\* The bottom of the stack that no helper touches.
Bottom == IF saved = <<>> THEN top ELSE Last(saved)
BottomKept == Len(stack') >= Bottom /\ \A j \in 1 .. Bottom : stack'[j] = stack[j]

\* The bottom of the stack is there.
LEMMA BottomIs ==
  ASSUME StackOK
  PROVE  /\ stack \in Seq(Values) /\ Len(stack) \in Nat /\ Lua = Mach(stack, tables)
         /\ Bottom \in 0 .. Len(stack)
<1>1. stack \in Seq(Values) /\ Len(stack) \in Nat /\ Lua = Mach(stack, tables)
  BY DEF StackOK, Lua, Mach
<1>2. CASE saved = <<>>
  BY <1>1, <1>2 DEF StackOK, Tops, Bottom
<1>3. CASE saved # <<>>
  <2>1. Len(saved) = 1 /\ saved[1] \in 0 .. Len(stack)
    BY <1>1, <1>3 DEF StackOK, Tops
  <2>2. Last(saved) = saved[1]
    BY <2>1 DEF Last
  <2> QED BY <1>1, <1>3, <2>1, <2>2 DEF Bottom
<1> QED BY <1>1, <1>2, <1>3

\* The parts of the promise that one helper each makes.
LEMMA PromiseOf ==
  ASSUME StackOK, BottomKept \/ Return \/ Throw
  PROVE  StackPromise
<1>1. stack \in Seq(Values) /\ Len(stack) \in Nat /\ Lua = Mach(stack, tables) /\ Bottom \in 0 .. Len(stack)
  BY BottomIs
<1>2. RestoreTop => Len(stack') = Last(saved)
  <2>1. SUFFICES ASSUME RestoreTop PROVE Len(stack') = Last(saved)
    OBVIOUS
  <2>2. Bottom = Last(saved) /\ stack' = SubSeq(stack, 1, Bottom)
    BY <1>1, <2>1, RestoreIs DEF Bottom, RestoreTop
  <2> QED BY <1>1, <2>2
<1>3. luaX_push_success => Front(stack') = stack /\ IsTrue(Last(stack')) /\ UNCHANGED tables
  <2>1. SUFFICES ASSUME luaX_push_success
                 PROVE  Front(stack') = stack /\ IsTrue(Last(stack')) /\ UNCHANGED tables
    OBVIOUS
  <2>2. PICK v \in Values : IsTrue(v) /\ stack' = Append(stack, v) /\ tables' = tables
    BY <2>1, SuccessIs
  <2>3. /\ Len(stack') = Len(stack) + 1 /\ stack'[Len(stack) + 1] = v
        /\ SubSeq(stack', 1, Len(stack)) = stack
    BY <1>1, <2>2, Grown
  <2>4. Len(stack') - 1 = Len(stack)
    BY <1>1, <2>3
  <2> QED BY <2>2, <2>3, <2>4 DEF Front, Last
<1> QED BY <1>2, <1>3, EndsOf, Zenon DEF StackPromise, BottomKept, Bottom

\* Steps of a function on tables keep the bottom of the stack.
LEMMA BottomStays == StackOK /\ StackNext => BottomKept \/ Return \/ Throw
<1> SUFFICES ASSUME StackOK, StackNext, ~Return, ~Throw PROVE BottomKept
  OBVIOUS
<1>1. /\ stack \in Seq(Values) /\ Len(stack) \in Nat /\ Lua = Mach(stack, tables)
      /\ Bottom \in 0 .. Len(stack)
  BY BottomIs
<1>2. ASSUME stack' = stack PROVE BottomKept
  BY <1>1, <1>2 DEF BottomKept
<1>3. ASSUME NEW v \in Values, stack' = Append(stack, v) PROVE BottomKept
  BY <1>1, <1>3, Grown DEF BottomKept
<1>4. ASSUME Own, stack' = Front(stack) PROVE BottomKept
  <2>1. stack # <<>> /\ Bottom <= Len(stack) - 1
    BY <1>1, <1>4, OwnTop DEF Own, Bottom, Top
  <2>2. Len(Front(stack)) = Len(stack) - 1 /\ \A j \in 1 .. Len(stack) - 1 : Front(stack)[j] = stack[j]
    BY <1>1, <2>1, TopOf
  <2> QED BY <1>1, <1>4, <2>1, <2>2 DEF BottomKept
<1>5. ASSUME NEW v \in Scalars, luaX_push(<<v>>) PROVE BottomKept
  <2>1. v \in Values /\ stack' = stack \o <<v>>
    BY <1>5, ValueFacts DEF luaX_push
  <2>2. stack' = Append(stack, v)
    BY <1>1, <2>1
  <2> QED BY <1>3, <2>1, <2>2
<1>6. CASE NewTable
  <2>1. PICK m \in Ids : stack' = Append(stack, Table(m))
    BY <1>6, <1>1, NewTableIs
  <2> QED BY <1>3, <2>1, ValueFacts
<1>7. CASE luaX_push_success
  BY <1>3, <1>7, SuccessIs
<1>8. CASE SaveTop
  BY <1>2, <1>8 DEF SaveTop
<1>9. CASE RestoreTop
  <2>1. Bottom = Last(saved)
    BY <1>9 DEF RestoreTop, Bottom
  <2>2. stack' = SubSeq(stack, 1, Bottom)
    BY <1>1, <1>9, <2>1, RestoreIs
  <2>3. Len(SubSeq(stack, 1, Bottom)) = Bottom /\ \A j \in 1 .. Bottom : SubSeq(stack, 1, Bottom)[j] = stack[j]
    BY <1>1
  <2> QED BY <1>1, <2>2, <2>3 DEF BottomKept
<1>10. ASSUME NEW i \in TableIndices, NEW k \in Keys,
              \/ SetFieldTop(i, k) \/ GetField(i, k) \/ SetMetafieldTop(i, k)
              \/ \E v \in Scalars : SetField(i, k, v) \/ SetMetafield(i, k, v)
       PROVE  BottomKept
  <2>1. tables[TableAt(i)].fields[k] \in Values
    <3>1. TableAt(i) \in Ids /\ tables \in [Ids -> ATable]
      BY Called_ DEF StackOK
    <3> QED BY <3>1 DEF ATable
  <2>2. \/ Own /\ stack' = Front(stack)
        \/ stack' = Append(stack, tables[TableAt(i)].fields[k])
        \/ stack' = stack
    BY <1>10, Helpers, Zenon DEF SetFieldTop, SetMetafieldTop
  <2> QED BY <1>2, <1>3, <1>4, <2>1, <2>2
<1> QED BY <1>5, <1>6, <1>7, <1>8, <1>9, <1>10, Zenon DEF StackNext

\* The whole promise about the stack, of a step of a function on tables.
LEMMA StackKept == StackOK /\ StackNext => StackPromise
<1> SUFFICES ASSUME StackOK, BottomKept \/ Return \/ Throw PROVE StackPromise
  BY BottomStays
<1> QED BY PromiseOf

\* And of one that reads its argument.
LEMMA ReadKeeps == StackOK /\ ReadNext => StackPromise
<1> SUFFICES ASSUME StackOK, ReadNext PROVE BottomKept
  BY PromiseOf
<1>1. stack' = stack
  BY DEF ReadNext, Reads, Check, CheckField, Opt, OptField, CheckUdata, Write
<1> QED BY <1>1, BottomIs DEF BottomKept

-----------------------------------------------------------------------------
\* The integer types and the numbers, as linear facts.
LEMMA TypeFacts ==
  /\ MaxInteger \in Nat /\ Modulus = MaxInteger + MaxInteger + 2
  /\ \A n \in Integers : n \in Int /\ -MaxInteger - 1 <= n /\ n <= MaxInteger
  /\ \A T \in Types : /\ T.signed \in BOOLEAN /\ T.max \in Nat /\ T.max >= 1
                      /\ T.signed => T.max <= MaxInteger
                      /\ ~T.signed => T.max < Modulus
<1>1. MaxInteger \in Nat /\ Modulus = MaxInteger + MaxInteger + 2
  BY LuaXAssumption DEF Modulus
<1>2. \A n \in Integers : n \in Int /\ -MaxInteger - 1 <= n /\ n <= MaxInteger
  BY <1>1 DEF Integers
<1>3. ASSUME NEW T \in Types
      PROVE  /\ T.signed \in BOOLEAN /\ T.max \in Nat /\ T.max >= 1
             /\ T.signed => T.max <= MaxInteger
             /\ ~T.signed => T.max < Modulus
  <2>1. T.signed \in BOOLEAN /\ T.max \in Nat \ {0}
        /\ T.max < IF T.signed THEN MaxInteger + 1 ELSE Modulus
    BY LuaXAssumption
  <2> QED BY <1>1, <2>1
<1> QED BY <1>1, <1>2, <1>3

\* A conversion to an unsigned type keeps a number that fits it.
LEMMA SmallMod == ASSUME NEW m \in Nat, NEW n \in Nat, n < m PROVE n % m = n
OBVIOUS

\* The bounds a helper is given are bounds of the type.
LEMMA BoundFacts ==
  ASSUME NEW T \in Types, NEW b \in Bounds(T)
  PROVE  /\ b[1] \in Int /\ b[2] \in Int /\ b[1] <= b[2] /\ b[2] <= T.max
         /\ ~T.signed => b[1] >= 0
<1>1. b = <<Lowest(T), Highest(T)>> \/ b = <<0, Highest(T) - 1>>
  BY DEF Bounds
<1>2. Highest(T) = T.max /\ Lowest(T) = IF T.signed THEN -T.max - 1 ELSE 0
  BY Zenon DEF Highest, Lowest
<1>3. T.signed \in BOOLEAN /\ T.max \in Nat /\ T.max >= 1
  BY TypeFacts
<1> QED BY <1>1, <1>2, <1>3

\* convert compares the number that was given.
LEMMA ConvertIs ==
  ASSUME NEW T \in Types, NEW b \in Bounds(T), NEW n \in Int, n < Modulus
  PROVE  convert(T, n, b[1], b[2]) <=> b[1] <= n /\ n <= b[2]
<1>1. b[1] \in Int /\ b[2] \in Int /\ (~T.signed => b[1] >= 0) /\ Modulus \in Nat
  BY BoundFacts, TypeFacts
<1>2. CASE T.signed
  BY <1>2 DEF convert
<1>3. CASE ~T.signed /\ n < 0
  BY <1>1, <1>3 DEF convert
<1>4. CASE ~T.signed /\ n >= 0
  <2>1. n % Modulus = n
    BY <1>1, <1>4, SmallMod
  <2> QED BY <1>4, <2>1 DEF convert
<1> QED BY <1>2, <1>3, <1>4

\* An even number of halves is a whole number, whichever way it is cut.
LEMMA Even ==
  ASSUME NEW h \in Int
  PROVE  /\ Truncated(h) \in Int
         /\ h % 2 = 0 => Truncated(h) = h \div 2
         /\ \A m \in Nat : -2 * m <= h /\ h < 2 * m => -m <= Truncated(h) /\ Truncated(h) < m
BY DEF Truncated

\* What kinds of values a function is given.
LEMMA ArgumentFacts ==
  ASSUME NEW v \in Arguments
  PROVE  \/ /\ v[1] \in {"integer", "numeral"} /\ v[2] \in Integers
            /\ IsNumber(v) /\ Whole(v) /\ v[1] # "float"
         \/ /\ v[1] = "float" /\ v[2] \in Halves /\ IsNumber(v)
            /\ Whole(v) <=> v[2] % 2 = 0
         \/ ~IsNumber(v) /\ v = <<v[1], v[2]>>
<1>1. \/ \E n \in Integers : v \in {Integer(n), Numeral(n)}
      \/ \E h \in Halves : v = Float(h)
      \/ ~IsNumber(v) /\ v = <<v[1], v[2]>>
  BY LuaXAssumption, Zenon
<1>2. CASE \E n \in Integers : v \in {Integer(n), Numeral(n)}
  <2>1. PICK n \in Integers : v \in {Integer(n), Numeral(n)}
    BY <1>2
  <2>2. v[1] \in {"integer", "numeral"} /\ v[2] = n
    BY <2>1 DEF Integer, Numeral
  <2> QED BY <2>1, <2>2 DEF IsNumber, Whole
<1>3. CASE \E h \in Halves : v = Float(h)
  <2>1. PICK h \in Halves : v = Float(h)
    BY <1>3
  <2>2. v[1] = "float" /\ v[2] = h
    BY <2>1 DEF Float
  <2> QED BY <2>1, <2>2 DEF IsNumber, Whole
<1> QED BY <1>1, <1>2, <1>3

\* The number that luaL_checkinteger and lua_tointeger give.
Given(v) == IF v[1] = "float" THEN v[2] \div 2 ELSE v[2]

\* The number read is an integer, and the number given if that was whole.
LEMMA ToIntegerIs ==
  ASSUME NEW v \in Arguments, IsNumber(v)
  PROVE  /\ ToInteger(v) \in Integers
         /\ Whole(v) => ToInteger(v) = Given(v)
<1>1. MaxInteger \in Nat /\ Modulus = MaxInteger + MaxInteger + 2
  BY TypeFacts
<1>2. CASE v[1] # "float"
  BY <1>2, ArgumentFacts DEF ToInteger, Given
<1>3. CASE v[1] = "float"
  <2>1. v[2] \in Halves /\ (Whole(v) <=> v[2] % 2 = 0)
    BY <1>3, ArgumentFacts DEF IsNumber
  <2>2. v[2] \in Int /\ -2 * (MaxInteger + 1) <= v[2] /\ v[2] < 2 * (MaxInteger + 1)
    BY <1>1, <2>1 DEF Halves
  <2>3. /\ Truncated(v[2]) \in Int /\ (v[2] % 2 = 0 => Truncated(v[2]) = v[2] \div 2)
        /\ -(MaxInteger + 1) <= Truncated(v[2]) /\ Truncated(v[2]) < MaxInteger + 1
    <3>1. \A m \in Nat : -2 * m <= v[2] /\ v[2] < 2 * m
                          => -m <= Truncated(v[2]) /\ Truncated(v[2]) < m
      BY <2>2, Even
    <3>2. MaxInteger + 1 \in Nat
      BY <1>1
    <3>3. -(MaxInteger + 1) <= Truncated(v[2]) /\ Truncated(v[2]) < MaxInteger + 1
      BY <2>2, <3>1, <3>2
    <3> QED BY <2>2, <3>3, Even
  <2>4. Truncated(v[2]) \in Integers /\ 0 \in Integers
    BY <1>1, <2>3 DEF Integers
  <2>5. ToInteger(v) = IF Whole(v) \/ version = "5.1" THEN Truncated(v[2]) ELSE 0
    BY <1>3, Zenon DEF ToInteger
  <2>6. Whole(v) => Given(v) = Truncated(v[2])
    BY <1>3, <2>1, <2>3 DEF Given
  <2> QED BY <2>4, <2>5, <2>6
<1> QED BY <1>2, <1>3

-----------------------------------------------------------------------------
\* The promise about integers, of a result.
ExactResult(v, b, r) ==
  IF ~IsNumber(v) THEN r[1] = "error"
  ELSE Whole(v) => r = IF b[1] <= Given(v) /\ Given(v) <= b[2] THEN Ok(Given(v)) ELSE OutOfBounds

\* What stands for a number that was not given.
Default(d) == IF d <= MaxInteger THEN Ok(d) ELSE OutOfBounds

\* luaX_check_integer and luaX_check_integer_field give the number or an error.
LEMMA ChecksAreExact ==
  ASSUME NEW T \in Types, NEW b \in Bounds(T), NEW v \in Arguments
  PROVE  /\ ExactResult(v, b, luaX_check_integer(v, T, b[1], b[2]))
         /\ ExactResult(v, b, luaX_check_integer_field(v, T, b[1], b[2]))
<1>1. CASE ~IsNumber(v)
  <2>1. /\ luaX_check_integer(v, T, b[1], b[2]) = <<"error", "number expected">>
        /\ luaX_check_integer_field(v, T, b[1], b[2]) = <<"error", "not an integer">>
    BY <1>1, Zenon DEF luaX_check_integer, luaX_check_integer_field, Refused, NotAnInteger
  <2>2. \A x : <<"error", x>>[1] = "error"
    OBVIOUS
  <2> QED BY <1>1, <2>1, <2>2, Zenon DEF ExactResult
<1>2. CASE IsNumber(v) /\ ~Whole(v)
  BY <1>2, Zenon DEF ExactResult
<1>3. CASE IsNumber(v) /\ Whole(v)
  <2>1. ToInteger(v) \in Integers /\ ToInteger(v) = Given(v)
    BY <1>3, ToIntegerIs
  <2>2. Given(v) \in Int /\ Given(v) < Modulus
    BY <2>1, TypeFacts
  <2>3. convert(T, Given(v), b[1], b[2]) <=> b[1] <= Given(v) /\ Given(v) <= b[2]
    BY <2>2, ConvertIs
  <2>4. /\ luaX_check_integer(v, T, b[1], b[2]) = InRange(T, Given(v), b[1], b[2])
        /\ luaX_check_integer_field(v, T, b[1], b[2]) = InRange(T, Given(v), b[1], b[2])
    BY <1>3, <2>1, Zenon DEF luaX_check_integer, luaX_check_integer_field, Refused
  <2> QED BY <1>3, <2>3, <2>4, Zenon DEF ExactResult, InRange
<1> QED BY <1>1, <1>2, <1>3

\* luaX_opt_integer and luaX_opt_integer_field do too, or give the default if
\* lua_Integer holds it.
LEMMA OptsAreExact ==
  ASSUME NEW T \in Types, NEW b \in Bounds(T), NEW d \in {b[1], b[2]}, NEW v \in Arguments
  PROVE  \A r \in {luaX_opt_integer(v, T, d, b[1], b[2]), luaX_opt_integer_field(v, T, d, b[1], b[2])} :
           IF v = Nil THEN r = Default(d) ELSE ExactResult(v, b, r)
<1>1. CASE v = Nil
  <2>1. b[1] \in Int /\ b[2] \in Int /\ b[1] <= b[2] /\ b[2] <= T.max
    BY BoundFacts
  <2>2. T.max \in Nat /\ T.max < Modulus /\ Modulus \in Nat
    BY TypeFacts
  <2>3. d \in Int /\ d < Modulus /\ b[1] <= d /\ d <= b[2]
    BY <2>1, <2>2
  <2>4. AsLuaInteger(d) \in Int /\ AsLuaInteger(d) < Modulus
    BY <2>2, <2>3, TypeFacts DEF AsLuaInteger
  <2>5. convert(T, AsLuaInteger(d), b[1], b[2])
          <=> b[1] <= AsLuaInteger(d) /\ AsLuaInteger(d) <= b[2]
    BY <2>4, ConvertIs
  <2>6. CASE d <= MaxInteger
    <3>1. AsLuaInteger(d) = d
      BY <2>6 DEF AsLuaInteger
    <3>2. Default(d) = Ok(d)
      BY <2>6, Zenon DEF Default
    <3>3. convert(T, d, b[1], b[2])
      BY <2>3, <2>5, <3>1
    <3> QED BY <1>1, <3>1, <3>2, <3>3, Zenon DEF luaX_opt_integer, luaX_opt_integer_field, InRange
  <2>7. CASE ~(d <= MaxInteger)
    <3>1. ~T.signed
      BY <2>1, <2>3, <2>7, TypeFacts
    <3>2. b[1] >= 0
      BY <3>1, BoundFacts
    <3>3. AsLuaInteger(d) < 0
      BY <2>2, <2>3, <2>7 DEF AsLuaInteger
    <3>4. ~convert(T, AsLuaInteger(d), b[1], b[2])
      BY <2>1, <2>4, <2>5, <3>2, <3>3
    <3>5. Default(d) = OutOfBounds
      BY <2>7, Zenon DEF Default
    <3> QED BY <1>1, <3>4, <3>5, Zenon DEF luaX_opt_integer, luaX_opt_integer_field, InRange
  <2> QED BY <2>6, <2>7
<1>2. CASE v # Nil
  BY <1>2, ChecksAreExact, Zenon DEF luaX_opt_integer, luaX_opt_integer_field
<1> QED BY <1>1, <1>2

\* A userdata is taken for one of the names if its name is among them.
LEMMA UdataIsNamed ==
  ASSUME NEW names \in NameLists, NEW v \in Arguments
  PROVE  luaX_check_udata(v, names) =
           IF v \in {Udata(n) : n \in Range(names)} THEN Ok(v[2]) ELSE <<"error", Last(names)>>
<1>1. names \in Seq(STRING) /\ names # <<>>
  BY LuaXAssumption
<1> DEFINE first == SubSeq(names, 1, Len(names) - 1)
<1>2. /\ Len(names) \in Nat /\ Len(names) >= 1 /\ Last(names) = names[Len(names)]
      /\ first \in Seq(STRING) /\ Len(first) = Len(names) - 1
      /\ \A j \in 1 .. Len(names) - 1 : first[j] = names[j]
  BY <1>1, TopOf
<1>3. DOMAIN names = 1 .. Len(names) /\ DOMAIN first = 1 .. Len(names) - 1
  <2> HIDE DEF first
  <2> QED BY <1>1, <1>2
<1> HIDE DEF first
<1>4. \A n : Udata(n)[1] = "userdata" /\ Udata(n)[2] = n
  BY DEF Udata
<1>5. v[1] = "userdata" => v = Udata(v[2])
  <2>1. v[1] = "userdata" => v = <<v[1], v[2]>>
    BY ArgumentFacts
  <2> QED BY <2>1 DEF Udata
<1>6. luaX_to_udata(v, first) \/ v = Udata(Last(names))
        <=> v[1] = "userdata" /\ \E n \in DOMAIN names : v[2] = names[n]
  <2>1. luaX_to_udata(v, first) <=> v[1] = "userdata" /\ \E n \in 1 .. Len(names) - 1 : v[2] = names[n]
    BY <1>2, <1>3 DEF luaX_to_udata
  <2>2. v = Udata(Last(names)) <=> v[1] = "userdata" /\ v[2] = names[Len(names)]
    BY <1>2, <1>4, <1>5
  <2>3. 1 .. Len(names) = (1 .. Len(names) - 1) \cup {Len(names)}
    BY <1>2
  <2> QED BY <1>3, <2>1, <2>2, <2>3
<1>7. v \in {Udata(n) : n \in Range(names)}
        <=> v[1] = "userdata" /\ \E n \in DOMAIN names : v[2] = names[n]
  BY <1>4, <1>5 DEF Range
<1> QED BY <1>6, <1>7, Zenon DEF luaX_check_udata, first

\* The bytes that string.sub would give.
SubBytes(i, j, size) ==
  {p \in 1 .. size : /\ p >= IF i < 0 THEN size + i + 1 ELSE i
                     /\ p <= IF j < 0 THEN size + j + 1 ELSE j}

\* The bytes a function writes are those of string.sub.
LEMMA BytesOfSub ==
  ASSUME NEW i \in Integers, NEW j \in Integers, NEW size \in Sizes, j >= -size - 1
  PROVE  impl_write(i, j, size) =
           SubBytes(i, j, size)
<1>1. i \in Int /\ j \in Int /\ size \in Nat /\ size <= MaxInteger /\ MaxInteger \in Nat
      /\ Modulus \in Nat /\ size < Modulus
  <2>1. size \in 0 .. MaxInteger
    BY LuaXAssumption
  <2> QED BY <2>1, TypeFacts
<1> DEFINE last == IF j < 0 THEN j + size + 1 ELSE IF j > size THEN size ELSE j
           first == luaX_opt_range_i(i, size)
<1>2. last \in Nat /\ last <= size
  BY <1>1
<1>3. luaX_opt_range_j(j, size) = last
  <2>1. luaX_opt_range_j(j, size) = last % Modulus
    BY Zenon DEF luaX_opt_range_j
  <2> HIDE DEF last
  <2> QED BY <1>1, <1>2, <2>1, SmallMod
<1>4. first = IF i < 0 THEN (IF i + size < 0 THEN 0 ELSE i + size)
              ELSE IF i > 0 THEN i - 1 ELSE i
  BY Zenon DEF luaX_opt_range_i
<1>5. impl_write(i, j, size) = first + 1 .. IF last < first THEN first ELSE last
  <2> HIDE DEF first, last
  <2> QED BY <1>3, Zenon DEF impl_write, first
<1> HIDE DEF first
<1>6. first \in Nat
  BY <1>1, <1>4
<1>7. ASSUME NEW p \in Int
      PROVE  p \in first + 1 .. (IF last < first THEN first ELSE last)
               <=> /\ p \in 1 .. size
                   /\ p >= IF i < 0 THEN size + i + 1 ELSE i
                   /\ p <= IF j < 0 THEN size + j + 1 ELSE j
  BY <1>1, <1>2, <1>4, <1>6
<1>8. (first + 1 .. IF last < first THEN first ELSE last) \subseteq Int /\ (1 .. size) \subseteq Int
  OBVIOUS
<1> HIDE DEF last
<1> QED BY <1>5, <1>7, <1>8 DEF SubBytes

-----------------------------------------------------------------------------
\* What the function knows of its argument, and what it has been told.
Told == IntegersPromise /\ UdataPromise /\ RangePromise
LuaInv ==
  /\ StackOK
  /\ work = "tables" => answer = NoAnswer
  /\ work = "argument" => \E a \in Arguments : stack[1] = a
  /\ Told

\* Nothing is promised of no answer.
LEMMA NothingTold == answer' = NoAnswer => Told'
BY Zenon DEF Told, IntegersPromise, UdataPromise, RangePromise, Called

\* What an answer is of decides which promise there is.
LEMMA AnswerIs ==
  ASSUME NEW v, NEW c, NEW r, stack'[1] = v, answer' = [call |-> c, result |-> r],
         \/ \E b : c = <<"check", b>> /\ ExactResult(v, b, r)
         \/ \E b, d : /\ c = <<"opt", b, d>>
                      /\ IF v = Nil THEN r = Default(d) ELSE ExactResult(v, b, r)
         \/ \E names : /\ c = <<"udata", names>>
                       /\ r = IF v \in {Udata(n) : n \in Range(names)} THEN Ok(v[2])
                              ELSE <<"error", Last(names)>>
         \/ \E i, j, size :
              /\ c = <<"bytes", i, j, size>>
              /\ j >= -size - 1 => r = SubBytes(i, j, size)
  PROVE  Told'
<1>1. answer'.call = c /\ answer'.result = r
  OBVIOUS
<1>2. \A b : Exactly(v, b)' <=> ExactResult(v, b, r)
  BY <1>1, Zenon DEF Exactly, ExactResult, Given
<1>3. ASSUME NEW b, c = <<"check", b>>, ExactResult(v, b, r)
      PROVE  Told'
  <2>1. c[1] = "check" /\ c[2] = b
    BY <1>3
  <2>2. "check" # "opt" /\ "check" # "udata" /\ "check" # "bytes"
    OBVIOUS
  <2> QED BY <1>1, <1>2, <1>3, <2>1, <2>2, Zenon
          DEF Told, Called, IntegersPromise, UdataPromise, RangePromise
<1>4. ASSUME NEW b, NEW d, c = <<"opt", b, d>>, IF v = Nil THEN r = Default(d) ELSE ExactResult(v, b, r)
      PROVE  Told'
  <2>1. c[1] = "opt" /\ c[2] = b /\ c[3] = d
    BY <1>4
  <2>2. "opt" # "check" /\ "opt" # "udata" /\ "opt" # "bytes"
    OBVIOUS
  <2> QED BY <1>1, <1>2, <1>4, <2>1, <2>2, Zenon
          DEF Told, Called, IntegersPromise, UdataPromise, RangePromise, Default
<1>5. ASSUME NEW names, c = <<"udata", names>>,
             r = IF v \in {Udata(n) : n \in Range(names)} THEN Ok(v[2]) ELSE <<"error", Last(names)>>
      PROVE  Told'
  <2>1. c[1] = "udata" /\ c[2] = names
    BY <1>5
  <2>2. "udata" # "check" /\ "udata" # "opt" /\ "udata" # "bytes"
    OBVIOUS
  <2> QED BY <1>1, <1>5, <2>1, <2>2, Zenon
          DEF Told, Called, IntegersPromise, UdataPromise, RangePromise
<1>6. ASSUME NEW i, NEW j, NEW size, c = <<"bytes", i, j, size>>,
             j >= -size - 1 => r = SubBytes(i, j, size)
      PROVE  Told'
  <2>1. c[1] = "bytes" /\ c[2] = i /\ c[3] = j /\ c[4] = size
    BY <1>6
  <2>2. "bytes" # "check" /\ "bytes" # "opt" /\ "bytes" # "udata"
    OBVIOUS
  <2> QED BY <1>1, <1>6, <2>1, <2>2, Zenon
          DEF Told, Called, IntegersPromise, UdataPromise, RangePromise, SubBytes
<1> QED BY <1>3, <1>4, <1>5, <1>6, Zenon

\* A function that reads its argument leaves the stack alone.
LEMMA ReadStep ==
  ASSUME LuaInv, work = "argument", ReadNext
  PROVE  LuaInv'
<1>1. /\ UNCHANGED <<work, version, top, stack, tables, saved>>
      /\ \/ answer' = NoAnswer
         \/ \E T \in Types : \E b \in Bounds(T) :
              \/ Check(T, b) \/ CheckField(T, b)
              \/ \E d \in {b[1], b[2]} : Opt(T, d, b) \/ OptField(T, d, b)
         \/ \E names \in NameLists : CheckUdata(names)
         \/ \E size \in Sizes, i, j \in Integers : Write(i, j, size)
  BY Zenon DEF ReadNext, Reads, Check, CheckField, Opt, OptField, CheckUdata, Write
<1>2. StackOK'
  BY <1>1 DEF LuaInv, StackOK, Tops
<1>3. PICK v \in Arguments : stack[1] = v
  BY DEF LuaInv
<1>4. stack'[1] = v
  BY <1>1, <1>3
<1>5. Told'
  <2>1. CASE answer' = NoAnswer
    BY <2>1, NothingTold
  <2>2. ASSUME NEW T \in Types, NEW b \in Bounds(T), Check(T, b) \/ CheckField(T, b)
        PROVE  Told'
    <3>1. PICK r : /\ answer' = [call |-> <<"check", b>>, result |-> r]
                   /\ r \in {luaX_check_integer(v, T, b[1], b[2]),
                             luaX_check_integer_field(v, T, b[1], b[2])}
      BY <1>3, <2>2 DEF Check, CheckField, Reads
    <3>2. ExactResult(v, b, r)
      BY <3>1, ChecksAreExact
    <3> QED BY <1>4, <3>1, <3>2, AnswerIs, Zenon
  <2>3. ASSUME NEW T \in Types, NEW b \in Bounds(T), NEW d \in {b[1], b[2]},
               Opt(T, d, b) \/ OptField(T, d, b)
        PROVE  Told'
    <3>1. PICK r : /\ answer' = [call |-> <<"opt", b, d>>, result |-> r]
                   /\ r \in {luaX_opt_integer(v, T, d, b[1], b[2]),
                             luaX_opt_integer_field(v, T, d, b[1], b[2])}
      BY <1>3, <2>3 DEF Opt, OptField, Reads
    <3>2. IF v = Nil THEN r = Default(d) ELSE ExactResult(v, b, r)
      BY <3>1, OptsAreExact
    <3> QED BY <1>4, <3>1, <3>2, AnswerIs, Zenon
  <2>4. ASSUME NEW names \in NameLists, CheckUdata(names)
        PROVE  Told'
    <3>1. answer' = [call |-> <<"udata", names>>, result |-> luaX_check_udata(v, names)]
      BY <1>3, <2>4 DEF CheckUdata, Reads
    <3> QED BY <1>4, <3>1, UdataIsNamed, AnswerIs, Zenon
  <2>5. ASSUME NEW size \in Sizes, NEW i \in Integers, NEW j \in Integers, Write(i, j, size)
        PROVE  Told'
    <3>1. answer' = [call |-> <<"bytes", i, j, size>>, result |-> impl_write(i, j, size)]
      BY <2>5 DEF Write, Reads
    <3> DEFINE r == impl_write(i, j, size)
    <3>2. j >= -size - 1 => r = SubBytes(i, j, size)
      BY BytesOfSub
    <3> HIDE DEF r
    <3>3. answer' = [call |-> <<"bytes", i, j, size>>, result |-> r]
      BY <3>1 DEF r
    <3> QED BY <1>4, <3>2, <3>3, AnswerIs, Zenon
  <2> QED BY <1>1, <2>1, <2>2, <2>3, <2>4, <2>5, Zenon
<1> QED BY <1>1, <1>2, <1>4, <1>5 DEF LuaInv

\* The invariant at the start, and after a step.
LEMMA LuaInit == LuaStart => LuaInv
<1> SUFFICES ASSUME LuaStart PROVE LuaInv
  OBVIOUS
<1>1. /\ answer = NoAnswer
      /\ work = "argument" => \E a \in Arguments : stack = <<a>>
  <2>1. "tables" # "argument"
    OBVIOUS
  <2> QED BY <2>1, Zenon DEF LuaStart, StartWith
<1>2. StackOK
  BY StackInit
<1>3. Told
  BY <1>1, Zenon DEF Told, IntegersPromise, UdataPromise, RangePromise, Called
<1> QED BY <1>1, <1>2, <1>3 DEF LuaInv

\* The step is one of a function on tables or of one that reads its argument.
LEMMA LuaStep == LuaInv /\ [LuaNext]_luaVars => LuaInv'
<1> SUFFICES ASSUME LuaInv, [LuaNext]_luaVars PROVE LuaInv'
  OBVIOUS
<1>1. CASE work = "tables" /\ StackNext
  <2>1. work' = "tables" /\ answer' = answer
    BY <1>1 DEF StackNext, luaX_push, NewTable, luaX_push_success, SaveTop, RestoreTop, Return, Throw,
                Results, SetFieldTop, GetField, SetMetafieldTop, SetField, SetMetafield, Helper
  <2>2. StackOK'
    BY <1>1, StackStep DEF LuaInv
  <2>3. answer' = NoAnswer
    BY <1>1, <2>1 DEF LuaInv
  <2>4. Told'
    BY <2>3, NothingTold
  <2> QED BY <2>1, <2>2, <2>3, <2>4 DEF LuaInv
<1>2. CASE work = "argument" /\ ReadNext
  BY <1>2, ReadStep
<1>3. CASE UNCHANGED luaVars
  BY <1>3 DEF luaVars, LuaInv, StackOK, Tops, Told, IntegersPromise, UdataPromise, RangePromise,
              Called, Exactly
<1> QED BY <1>1, <1>2, <1>3 DEF LuaNext

(* Whatever tables, keys, names and integer types there are, a helper sets  *)
(* the field of the table the index meant when it was called, gives the     *)
(* number, the userdata and the bytes that were asked for, and leaves alone *)
(* the stack below the values of the function that runs.                    *)
THEOREM HelpersAreRight == LuaSpec => HelpersKeepPromises
<1>1. LuaInv /\ [LuaNext]_luaVars
        => [FieldsPromise /\ StackPromise /\ IntegersPromise /\ UdataPromise /\ RangePromise]_luaVars
  <2>1. SUFFICES ASSUME LuaInv, LuaNext
                 PROVE  FieldsPromise /\ StackPromise /\ IntegersPromise /\ UdataPromise /\ RangePromise
    BY Zenon
  <2>2. StackPromise
    BY <2>1, StackKept, ReadKeeps, Zenon DEF LuaInv, LuaNext
  <2> QED BY <2>1, <2>2, FieldsKept, Zenon DEF LuaInv, Told
<1>2. LuaInv /\ [LuaNext]_luaVars => LuaInv'
  BY LuaStep
<1>3. LuaStart => LuaInv
  BY LuaInit
<1> QED BY <1>1, <1>2, <1>3, PTL DEF LuaSpec, HelpersKeepPromises
=============================================================================
