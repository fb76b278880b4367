------------------------------ MODULE LuaCalls ------------------------------
(***************************************************************************)
(* A Lua program that calls the functions of Bindings, one at a time, in a *)
(* process where the collector finalises descriptor objects, allocations   *)
(* fail, signals are delivered and other threads fork.  A call that fails  *)
(* leaves through the destructors of what it holds; a Lua error is a       *)
(* longjmp and passes them by.                                             *)
(***************************************************************************)
EXTENDS Bindings, SequencesExt

CONSTANTS
  Num,      \* the numbers the kernel gives to descriptors
  Obj       \* the objects with a finaliser that can exist at a time

None == "none"

\* Owners are told apart from the marks of a descriptor that has none.
ASSUME LuaCallsAssumption ==
  Num \subseteq Nat /\ Num # {} /\ Obj # {} /\ {None, "closed"} \cap Obj = {}

NoObject == -2
Shut == -1
Nothing == <<"nothing", None>>

VARIABLES
  build,     \* "native" or "fallback": which system calls configure found
  steps,     \* the steps the running call has left
  running,   \* a call is running
  want,      \* the flags the caller asked for
  held,      \* the descriptors the call has opened and given to no object
  scoped,    \* they are in C++ objects that close them
  tmp,       \* the call has made a file that it removes if it fails
  masked,    \* the call has blocked all signals and restores the mask
  blocked,   \* signals are blocked in this thread
  program,   \* the program itself has blocked signals
  errno,     \* "none", "call" (set by the failed step of this call), "stale"
  report,    \* what the last call returned or raised
  open,      \* open[n]: the flags of the open descriptor n and its owner
  objects,   \* objects[o]: the descriptor the object o holds, -1 when closed
  alive,     \* the objects that the program can still reach
  lost       \* descriptors that an allocation failure left without an owner

callVars == <<steps, running, want, held, scoped, tmp, masked>>
worldVars == <<open, objects, alive, lost>>
vars == <<build, callVars, blocked, program, errno, report, worldVars>>

Closed == [has |-> {}, want |-> {}, owner |-> "closed"]
Free == {n \in Num : open[n] = Closed}
Head1 == Head(steps)
At(op) == running /\ steps # <<>> /\ Head1[1] = op
AtAllocation == At("own") \/ At("push") \/ At("adopt")
Unowned == {n \in Num : open[n].owner = None /\ \A i \in DOMAIN held : held[i] # n}

Init ==
  /\ build \in Builds
  /\ steps = <<>> /\ running = FALSE /\ want = {} /\ held = <<>> /\ scoped = FALSE
  /\ tmp = FALSE /\ masked = FALSE /\ blocked = FALSE /\ program = FALSE
  /\ errno = None /\ report = Nothing
  /\ open = [n \in Num |-> Closed]
  /\ objects = [o \in Obj |-> NoObject]
  /\ alive = {}
  /\ lost = {}

-----------------------------------------------------------------------------
(* The start and the ways out of a call *)

\* Whatever ran before may have left anything in errno.
Begin ==
  /\ ~running
  /\ \E w \in SUBSET Flags : \E s \in Shapes[build][w] :
       /\ s # <<>>
       /\ Len(SelectSeq(s, LAMBDA x : x[1] = "own")) <= Cardinality({o \in Obj : objects[o] = NoObject})
       /\ steps' = s /\ want' = w
  /\ running' = TRUE
  /\ errno' = "stale"
  /\ report' = Nothing
  /\ UNCHANGED <<build, held, scoped, tmp, masked, blocked, program, worldVars>>

End(result) ==
  /\ running' = FALSE
  /\ steps' = <<>> /\ want' = {} /\ held' = <<>> /\ scoped' = FALSE
  /\ report' = result

Return == running /\ steps = <<>> /\ End(<<"success", None>>)
          /\ UNCHANGED <<build, tmp, masked, blocked, program, errno, worldVars>>

\* Mutant: the mask saver goes out of scope first.
DestructorsMaskFirst ==
  (IF masked THEN <<<<"restore", 0>>>> ELSE <<>>)
  \o (IF tmp THEN <<<<"unlink", 0>>>> ELSE <<>>)
  \o (IF scoped THEN [i \in 1..Len(held) |-> <<"drop", 0>>] ELSE <<>>)

\* The destructors of what the call holds, the last one constructed first
Destructors ==
  (IF tmp THEN <<<<"unlink", 0>>>> ELSE <<>>)
  \o (IF scoped THEN [i \in 1..Len(held) |-> <<"drop", 0>>] ELSE <<>>)
  \o (IF masked THEN <<<<"restore", 0>>>> ELSE <<>>)

FailsWith(how) == steps' = Destructors \o <<<<how, 0>>>>

\* longjmp: what is not in an object is lost
LuaError(kind) ==
  /\ End(<<kind, None>>)
  /\ lost' = lost \cup Range(held)
  /\ open' = [n \in Num |-> IF n \in Range(held) THEN [open[n] EXCEPT !.owner = None] ELSE open[n]]
  /\ UNCHANGED <<build, tmp, masked, blocked, program, errno, objects, alive>>

\* push_error takes errno before it allocates; an exception carries it.  It
\* does so as well where the failed call need not have set errno ("unset").
push_error ==
  /\ \/ (At("error") \/ At("throw")) /\ End(<<"error", errno>>)
     \/ At("unset") /\ End(<<"unset", errno>>)
     \/ At("bad_alloc") /\ End(<<"exception", None>>)
     \/ At("code") /\ End(<<"code", None>>)
  /\ UNCHANGED <<build, tmp, masked, blocked, program, errno, worldVars>>

Next1 == steps' = Tail(steps)

-----------------------------------------------------------------------------
(* The steps *)

Check ==
  /\ At("check")
  /\ \/ /\ Next1
        /\ UNCHANGED <<build, running, want, held, scoped, tmp, masked, blocked, program,
                       errno, report, worldVars>>
     \/ LuaError("argument")

Buffer ==
  /\ At("buffer")
  /\ Next1 \/ FailsWith("bad_alloc")
  /\ UNCHANGED <<build, running, want, held, scoped, tmp, masked, blocked, program,
                 errno, report, worldVars>>

\* A call that succeeds may leave anything in errno.
SystemCall ==
  /\ At("call") \/ At("late_call")
  /\ \/ Next1 /\ errno' \in {errno, "stale"}
     \/ /\ errno' = "call"
        /\ IF At("late_call") THEN steps' = <<<<"push", 0>>, <<"error", 0>>>>
                              ELSE FailsWith("error")
  /\ UNCHANGED <<build, running, want, held, scoped, tmp, masked, blocked, program,
                 report, worldVars>>

\* The failure is told by the result alone; errno may be as it was, or set.
SilentCall ==
  /\ At("silent")
  /\ Next1 \/ FailsWith("unset")
  /\ errno' \in {errno, "stale", "call"}
  /\ UNCHANGED <<build, running, want, held, scoped, tmp, masked, blocked, program,
                 report, worldVars>>

Clear ==
  /\ At("clear")
  /\ Next1
  /\ errno' = None
  /\ UNCHANGED <<build, running, want, held, scoped, tmp, masked, blocked, program,
                 report, worldVars>>

\* Whether it failed is read from errno.
Probe ==
  /\ At("probe") \/ At("throwing_probe")
  /\ errno' \in {errno, "call"}
  /\ IF errno' = None THEN Next1
     ELSE FailsWith(IF At("probe") THEN "error" ELSE "throw")
  /\ UNCHANGED <<build, running, want, held, scoped, tmp, masked, blocked, program,
                 report, worldVars>>

\* It fails as sigprocmask does.  pthread_sigmask would return a number that
\* no caller tells from success; it fails only for a `how' that none passes.
Block ==
  /\ At("block") \/ At("mask")
  /\ \/ /\ Next1
        /\ blocked' \in IF At("block") THEN {TRUE} ELSE BOOLEAN
        /\ program' = IF At("mask") THEN blocked' ELSE program
        /\ masked' = At("block")
        /\ UNCHANGED errno
     \/ FailsWith("error") /\ errno' = "call" /\ UNCHANGED <<blocked, program, masked>>
  /\ UNCHANGED <<build, running, want, held, scoped, tmp, report, worldVars>>

\* The n lowest free numbers, in order
Lowest(n) ==
  {h \in [1 .. n -> Free] :
     /\ \A i, j \in 1 .. n : i < j => h[i] < h[j]
     /\ \A i \in 1 .. n, m \in Free \ Range(h) : h[i] < m}

\* n descriptors; the native calls set the flags with it.
Opening == At("open") \/ At("native") \/ At("mkstemp") \/ At("gai")

Open ==
  /\ Opening
  /\ LET n == IF At("mkstemp") THEN 1 ELSE Head1[2]
     IN \/ /\ held' \in Lowest(n)
           /\ open' = [i \in Num |-> IF i \in Range(held')
                        THEN [has |-> IF At("native") THEN want ELSE {},
                              want |-> IF At("gai") THEN {} ELSE want, owner |-> None]
                        ELSE open[i]]
           /\ scoped' = (At("open") \/ At("mkstemp"))
           /\ tmp' = At("mkstemp")
           /\ Next1
           /\ UNCHANGED errno
        \/ /\ errno' = "call"
           /\ FailsWith(IF At("gai") THEN "code" ELSE "error")
           /\ UNCHANGED <<held, open, scoped, tmp>>
  /\ UNCHANGED <<build, running, want, masked, blocked, program, report, objects, alive, lost>>

SetFlag ==
  /\ At("coe") \/ At("mode")
  /\ \/ /\ Next1
        /\ open' = [open EXCEPT ![held[Head1[2]]].has =
                      @ \cup {IF At("coe") THEN "cloexec" ELSE "mode"}]
        /\ UNCHANGED errno
     \/ FailsWith("error") /\ errno' = "call" /\ UNCHANGED open
  /\ UNCHANGED <<build, running, want, held, scoped, tmp, masked, blocked, program,
                 report, objects, alive, lost>>

Release ==
  /\ At("release")
  /\ scoped' = FALSE /\ tmp' = FALSE
  /\ steps' = <<<<"restore", 0>>>> \o Tail(steps)
  /\ UNCHANGED <<build, running, want, held, masked, blocked, program, errno, report, worldVars>>

\* Mutant: a destructor does not save errno.
AfterDestructor(code) == IF code = "call" THEN "stale" ELSE code

\* errno_saver: what a destructor's own calls do to errno is undone.
errno_saver(code) == code

Destruct ==
  /\ \/ /\ At("restore") /\ blocked' = program /\ masked' = FALSE
        /\ UNCHANGED <<held, open, tmp>>
     \/ /\ At("unlink") /\ tmp' = FALSE
        /\ UNCHANGED <<held, open, blocked, masked>>
     \/ /\ At("drop") \/ At("free")
        /\ open' = [open EXCEPT ![held[Len(held)]] = Closed]
        /\ held' = SubSeq(held, 1, Len(held) - 1)
        /\ UNCHANGED <<blocked, masked, tmp>>
  /\ errno' = errno_saver(errno)
  /\ Next1
  /\ UNCHANGED <<build, running, want, scoped, program, report, objects, alive, lost>>

-----------------------------------------------------------------------------
(* Objects *)

\* new_fd: the userdata is allocated first, then it owns the descriptor.
new_fd ==
  /\ At("own")
  /\ \/ \E o \in Obj :
          /\ objects[o] = NoObject
          /\ objects' = [objects EXCEPT ![o] = held[1]]
          /\ open' = [open EXCEPT ![held[1]].owner = o]
          /\ alive' = alive \cup {o}
          /\ held' = Tail(held)
          /\ Next1
          /\ UNCHANGED <<build, running, want, scoped, tmp, masked, blocked, program,
                         errno, report, lost>>
     \/ LuaError("memory")

Push ==
  /\ At("push")
  /\ \/ /\ Next1
        /\ UNCHANGED <<build, running, want, held, scoped, tmp, masked, blocked, program,
                       errno, report, worldVars>>
     \/ LuaError("memory")

\* fd(n): a program gives an object only to a descriptor that has none.
Adopt ==
  /\ At("adopt")
  /\ \/ \E o \in Obj, n \in Unowned :
          /\ objects[o] = NoObject
          /\ objects' = [objects EXCEPT ![o] = n]
          /\ open' = [open EXCEPT ![n].owner = o]
          /\ alive' = alive \cup {o}
          /\ lost' = lost \ {n}
          /\ Next1
          /\ UNCHANGED <<build, running, want, held, scoped, tmp, masked, blocked, program,
                         errno, report>>
     \/ LuaError("memory")

\* Mutant: close keeps the number.
CloseKeeps(o) ==
  /\ UNCHANGED objects
  /\ open' = IF objects[o] = Shut THEN open ELSE [open EXCEPT ![objects[o]] = Closed]

\* file_descriptor::close forgets the number before it closes it.
Close(o) ==
  /\ objects' = [objects EXCEPT ![o] = Shut]
  /\ open' = IF objects[o] = Shut THEN open ELSE [open EXCEPT ![objects[o]] = Closed]

\* close of an object, a second time is EBADF; or of a number that has none,
\* or is not open.  A close that fails has released the number all the same.
CloseCall ==
  /\ At("close")
  /\ LET ok == Next1 /\ UNCHANGED errno
         failed == FailsWith("error") /\ errno' = "call"
     IN \/ \E o \in alive :
             /\ Close(o)
             /\ (objects[o] # Shut /\ ok) \/ failed
             /\ UNCHANGED lost
        \/ \E n \in Unowned :
             /\ open' = [open EXCEPT ![n] = Closed]
             /\ lost' = lost \ {n}
             /\ ok \/ failed
             /\ UNCHANGED objects
        \/ failed /\ UNCHANGED <<objects, open, lost>>
  /\ UNCHANGED <<build, running, want, held, scoped, tmp, masked, blocked, program,
                 report, alive>>

\* The program drops its last reference; only then the collector, which runs
\* at an allocation or between calls, finalises the object.
Abandon(o) ==
  /\ ~running
  /\ o \in alive
  /\ alive' = alive \ {o}
  /\ UNCHANGED <<build, callVars, blocked, program, errno, report, open, objects, lost>>

Collect(o) ==
  /\ ~running \/ AtAllocation
  /\ objects[o] # NoObject /\ o \notin alive
  /\ objects' = [objects EXCEPT ![o] = NoObject]
  /\ open' = IF objects[o] = Shut THEN open ELSE [open EXCEPT ![objects[o]] = Closed]
  /\ errno' = errno_saver(errno)
  /\ UNCHANGED <<build, callVars, blocked, program, report, alive, lost>>

Next ==
  \/ Begin \/ Return \/ push_error
  \/ Check \/ Buffer \/ SystemCall \/ SilentCall \/ Clear \/ Probe \/ Block
  \/ Open \/ SetFlag \/ Release \/ Destruct
  \/ new_fd \/ Push \/ Adopt \/ CloseCall
  \/ \E o \in Obj : Abandon(o)
  \/ \E o \in Obj : Collect(o)

Spec == Init /\ [][Next]_vars

-----------------------------------------------------------------------------
(* A call that fails reports the error of its own failed step, though      *)
(* destructors and finalisers made system calls of their own in between,   *)
(* and whatever errno held before the call.  It says nothing where the     *)
(* failed step need not set errno (getpwnam, getpwuid, and getcwd when     *)
(* pathconf gives no limit): there the code reports what errno held.       *)
ErrorIsTheCalls == report[1] = "error" => report[2] = "call"

(* Every open descriptor has an object that will close it or the running   *)
(* call to close it, but for those a Lua allocation failed to give an      *)
(* object; and a call that is over, however it ended, has put the signal   *)
(* mask back and has left no file of a failed mkostemp.                    *)
NothingLost ==
  /\ \A n \in Num \ Free :
       \/ open[n].owner \in Obj /\ objects[open[n].owner] = n
       \/ n \in Range(held)
       \/ n \in lost
  /\ ~running => blocked = program /\ ~masked /\ ~tmp

(* No signal handler of this thread sees a descriptor before it has the    *)
(* flags that were asked for, though the fallbacks set them one by one and *)
(* any of these calls may fail.                                            *)
FlagsBeforeSignals ==
  \A n \in Num \ Free :
    open[n].want \subseteq open[n].has \/ (n \in Range(held) /\ blocked)

(* The descriptor that an object will close is the one it was made for,    *)
(* and no later one that the kernel gave the same number.                  *)
ClosesOwn == \A o \in Obj : objects[o] >= 0 => open[objects[o]].owner = o
=============================================================================
