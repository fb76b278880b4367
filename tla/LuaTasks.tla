------------------------------ MODULE LuaTasks ------------------------------
(***************************************************************************)
(* The tasks of the thread pool as Lua objects: src/lua/async_service.cpp  *)
(* and async_task.cpp over what TaskPool promises.  The pool keeps bare    *)
(* pointers to objects that belong to the collector, so a task holds a     *)
(* reference to itself in the registry from push until pop or cancel.      *)
(*                                                                         *)
(* The program keeps the contract of AsyncService, and does not leave      *)
(* lua_close to end a service that still has tasks younger than itself.    *)
(***************************************************************************)
EXTENDS Integers, SequencesExt

CONSTANT Tasks

Service == "service"
ASSUME LuaTasksAssumption == Service \notin Tasks

VARIABLES
  phase, pending, running, done, \* of the pool
  service,   \* "none", "object", then "finalised"
  alive,     \* the task objects that were made and not finalised
  younger,   \* those made after the service
  anchored,  \* the tasks whose ref_ is set
  reach,     \* what the program can reach from its stack and variables
  caller,    \* what the Lua thread is in: "program", "close", "gc", "exit", "over"
  stranded   \* tasks with a reference that no pop and no cancel will drop

poolVars == <<phase, pending, running, done>>
heapVars == <<service, alive, younger, anchored, reach>>
vars == <<poolVars, heapVars, caller, stranded>>

Pool == INSTANCE TaskPool

InFlight == Range(pending) \cup running \cup Range(done)

Init ==
  /\ Pool!Init
  /\ service = "none" /\ caller = "program"
  /\ alive = {} /\ younger = {} /\ anchored = {} /\ reach = {} /\ stranded = {}

-----------------------------------------------------------------------------
(* The program *)

impl_call ==
  /\ caller = "program" /\ service = "none"
  /\ Pool!Open
  /\ service' = "object"
  /\ reach' = reach \cup {Service}
  /\ UNCHANGED <<alive, younger, anchored, caller, stranded>>

NewTask(t) ==
  /\ caller = "program" /\ t \notin alive
  /\ alive' = alive \cup {t}
  /\ younger' = IF service = "none" THEN younger ELSE younger \cup {t}
  /\ reach' = reach \cup {t}
  /\ UNCHANGED <<poolVars, service, anchored, caller, stranded>>

CanPush(t) ==
  /\ caller = "program" /\ phase = "open"
  /\ {t, Service} \subseteq reach
  /\ t \notin InFlight

ref(t) == anchored' = anchored \cup {t}

\* Mutant: the reference is taken after push, and there is no memory for it.
PushThenRef(t) ==
  /\ CanPush(t)
  /\ Pool!Submit(t)
  /\ anchored' \in {anchored, anchored \cup {t}}
  /\ stranded' = stranded \ {t}
  /\ UNCHANGED <<service, alive, younger, reach, caller>>

Push(t) ==
  /\ CanPush(t)
  /\ Pool!Submit(t)
  /\ ref(t)
  /\ stranded' = stranded \ {t}
  /\ UNCHANGED <<service, alive, younger, reach, caller>>

\* The reference is taken before the first argument is checked and before a
\* thread is created, and stays when one of the two fails.
PushFails(t) ==
  /\ CanPush(t)
  /\ ref(t)
  /\ stranded' = stranded \cup {t}
  /\ UNCHANGED <<poolVars, service, alive, younger, reach, caller>>

\* Mutant: async_task::cancel keeps the reference.
KeepReference(S) == UNCHANGED anchored

unref(S) == anchored' = anchored \ S

Cancel(t) ==
  /\ caller = "program" /\ {t, Service} \subseteq reach
  /\ Pool!Withdraw(t)
  /\ unref({t})
  /\ UNCHANGED <<service, alive, younger, reach, caller, stranded>>

\* Mutant: the task is returned with its reference.
PopKeeps ==
  /\ caller = "program" /\ Service \in reach
  /\ Pool!Take
  /\ reach' = reach \cup {Head(done)}
  /\ UNCHANGED <<service, alive, younger, anchored, caller, stranded>>

Pop ==
  /\ caller = "program" /\ Service \in reach
  /\ Pool!Take
  /\ reach' = reach \cup {Head(done)}
  /\ unref({Head(done)})
  /\ UNCHANGED <<service, alive, younger, caller, stranded>>

Forget(x) ==
  /\ caller = "program" /\ x \in reach
  /\ reach' = reach \ {x}
  /\ UNCHANGED <<poolVars, service, alive, younger, anchored, caller, stranded>>

-----------------------------------------------------------------------------
(* close, from the program or from the finaliser of the service: what was  *)
(* not started is cancelled, then close waits for the workers.             *)

ShutDown(who) ==
  /\ Pool!Shut
  /\ unref(Range(pending))
  /\ caller' = who

CloseBegins ==
  /\ caller = "program" /\ Service \in reach
  /\ ShutDown("close")
  /\ UNCHANGED <<service, alive, younger, reach, stranded>>

CloseReturns ==
  /\ caller = "close" /\ running = {}
  /\ caller' = "program"
  /\ UNCHANGED <<poolVars, heapVars, stranded>>

-----------------------------------------------------------------------------
(* The collector, and lua_close, which finalises the youngest object first *)

GcTask(t) ==
  /\ caller = "program"
  /\ t \in alive \ (reach \cup anchored)
  /\ alive' = alive \ {t} /\ younger' = younger \ {t}
  /\ UNCHANGED <<poolVars, service, anchored, reach, caller, stranded>>

GcService ==
  /\ caller = "program" /\ service = "object" /\ Service \notin reach
  /\ \/ phase = "open" /\ ShutDown("gc") /\ UNCHANGED <<service, stranded>>
     \/ /\ phase = "shut"
        /\ service' = "finalised"
        /\ stranded' = stranded \cup Range(done)
        /\ UNCHANGED <<poolVars, anchored, caller>>
  /\ UNCHANGED <<alive, younger, reach>>

GcServiceEnds ==
  /\ caller = "gc" /\ running = {}
  /\ caller' = "program"
  /\ service' = "finalised"
  /\ stranded' = stranded \cup Range(done)
  /\ UNCHANGED <<poolVars, alive, younger, anchored, reach>>

ExitBegins ==
  /\ caller = "program"
  /\ phase = "open" => InFlight \cap younger = {}
  /\ alive' = alive \ younger /\ younger' = {}
  /\ unref(younger \cup Range(pending))
  /\ reach' = {} /\ stranded' = {}
  /\ \/ phase = "open" /\ Pool!Shut
     \/ phase # "open" /\ UNCHANGED poolVars
  /\ caller' = "exit"
  /\ UNCHANGED service

ExitEnds ==
  /\ caller = "exit" /\ running = {}
  /\ caller' = "over" /\ service' = "finalised"
  /\ alive' = {} /\ anchored' = {}
  /\ UNCHANGED <<poolVars, younger, reach, stranded>>

-----------------------------------------------------------------------------
(* The workers *)

Start == Pool!Start /\ UNCHANGED <<heapVars, caller, stranded>>

Finish(t) == Pool!Finish(t) /\ UNCHANGED <<heapVars, caller, stranded>>

Over == caller = "over" /\ UNCHANGED vars

Next ==
  \/ impl_call \/ Pop \/ CloseBegins \/ CloseReturns
  \/ \E t \in Tasks : NewTask(t) \/ Push(t) \/ PushFails(t) \/ Cancel(t) \/ GcTask(t) \/ Finish(t)
  \/ \E x \in Tasks \cup {Service} : Forget(x)
  \/ GcService \/ GcServiceEnds \/ ExitBegins \/ ExitEnds
  \/ Start \/ Over

\* The workers and the collector go on; an event loop pops what is done.
Fairness ==
  /\ WF_vars(Start) /\ WF_vars(Pop)
  /\ WF_vars(CloseReturns) /\ WF_vars(GcService) /\ WF_vars(GcServiceEnds)
  /\ WF_vars(ExitEnds)
  /\ \A t \in Tasks : WF_vars(Finish(t)) /\ WF_vars(GcTask(t))

Spec == Init /\ [][Next]_vars /\ Fairness

-----------------------------------------------------------------------------
(* The pool never holds a pointer to a task that the collector has         *)
(* finalised, whatever the program forgot and whoever ends the service.    *)
AliveWhileInFlight ==
  /\ Range(pending) \cup running \subseteq alive
  /\ service = "object" /\ caller \notin {"exit", "over"} => Range(done) \subseteq alive

(* The registry holds the tasks in flight, and apart from those only the   *)
(* ones whose push failed and those finished and not popped when the       *)
(* service was collected.                                                  *)
AnchoredExactly ==
  caller \notin {"exit", "over"} => anchored = InFlight \cup (stranded \cap alive)

(* A task that the program has forgotten is finalised, unless it comes     *)
(* back by pop or is one of those that AnchoredExactly excepts.            *)
Collected ==
  \A t \in Tasks :
    t \in alive \ reach ~> t \notin alive \/ t \in reach \cup stranded
=============================================================================
