# A verification project for dromozoa-unix

dromozoa-unix gives Lua programs the UNIX system calls, and adds four things of
its own that have state and concurrency: a thread pool (`async_service`), the
delivery of SIGCHLD to pipes (`selfpipe`), the creation of processes
(`forkexec`) and a selector over epoll or kqueue. This directory holds TLA+
modules for them, the TLC runs that check the modules on small instances, and
theorems checked by TLAPS. The functions of the Lua module itself are there too, as
sequences of calls each of which may fail, the tasks of the pool as Lua objects,
and the helpers that convert arguments and compute with times.

`PROJECT.json` lists the runs, the source lines of every definition, for every
property a change of the code that breaks it, the hazards and the theorems.

## 1. Inventory

| component | source | state | operations | what makes it correct |
|---|---|---|---|---|
| async_service | `src/lib/async_service.cpp` | three counters, the queue with its index, the ready list, a notification pipe, the threads | open, close, push, cancel, pop, read, info; the loop of a worker | every task called exactly once; counters exact; no lost wake-up; close leaves nothing behind and returns |
| async event loop | `test/lua/test_async2.lua` | loop position, tasks outstanding | select, read, pop, push, close | never asleep with a task ready; ends |
| selfpipe | `src/lib/selfpipe.cpp` | internal pipe, publisher thread, handler, set of subscribers | open, close, read; handler, publisher | installed for all or not at all; writes only to live subscribers; no descriptor lost; a child that ends is heard of |
| forkexec | `src/lib/forkexec.cpp`, `src/lua/process.cpp` | error pipe and pid pipe over two or three processes | forkexec, forkexec_daemon | success reported only after exec; the right error, the right pid; no hang |
| pathexec | `src/lib/pathexec.cpp` | a buffer | buffer size, search along the path | the buffer holds every candidate; error precedence |
| selector | `src/lib/selector*.cpp`, `src/lua/selector.cpp` | registered interest, buffer of events | open, close, add, mod, del, select, event | events match interest; index checked; both back ends promise the same |
| signal mask and fallbacks | `src/lib/compat_*.cpp`, `sigmask.cpp`, `coe.cpp`, `ndelay.cpp` | flags of new descriptors, the mask | pipe2, socket, accept4, mkostemp from older calls | all or nothing; mask restored |
| file_descriptor, fd objects | `src/lib/file_descriptor.cpp`, `src/lua/fd*.cpp` | a number and who owns it | close, release, swap, collection | closed once, by its owner |
| argument_vector | `src/lib/argument_vector.cpp` | strings, table of pointers built on demand | push_back, clear, get | the table matches the strings |
| timespec, timer | `src/lua/timespec.cpp`, `src/lib/timer.cpp` | none | +, -, comparison, conversion | results normalised; kinds of time not mixed |
| Lua tasks | `src/lua/async_task.cpp`, `async_service.cpp`, `netdb.cpp` | a reference from each task to itself | push, pop, cancel, collection | no task collected while a thread has it; none kept for ever |
| socket_address, directories, thin bindings | `src/lua/*.cpp` | a handle each | one call each | conversions; handle states |
| bind library | `bind/` | references, mutexes, threads | integer and range conversion, wrappers | conversions refuse what does not fit |

How they interact. A Lua program owns the objects and calls from one thread.
`async_service` starts detached threads that call `dispatch()` of the tasks; a
finished task goes to the ready list and a byte to a pipe whose reader the
program gives to its selector. `selfpipe` gives the program another such reader
for SIGCHLD: the handler, on whatever thread the kernel picks, writes to an
internal pipe, a publisher thread reads it and writes to each subscriber.
`forkexec` calls `pathexec` in the child, and the program hears of the child's
end through `selfpipe`. All of them block signals around the sections that start
threads or processes, through `sigmask`.

What is hard here: in `async_service` three mutexes are taken one after the
other and never together, so counters, queue and ready list disagree in between;
in `selfpipe` a signal handler and a thread use descriptor numbers another
thread closes, and close joins a thread while it holds a lock; in `forkexec`
up to three processes hold ends of two pipes; everywhere a call in the middle
may fail. The hazards, each at its line, are in `PROJECT.json`.

## 2. The modules

* `TaskPool` - what the thread pool promises, without threads, counters and
  wake-ups: a FIFO of pending tasks, a set of running ones, a FIFO of finished
  ones. Submit, withdraw, start, finish, take, shut.
* `AsyncService` - `async_service.cpp`. One action per critical section;
  between two sections of a thread the others may run.
* `MCAsyncService` - instances of it for TLC.
* `AsyncLoop`, `MCAsyncLoop` - `AsyncService` under the event loop of
  `test_async2.lua`. `test_async.lua` has the same loop, and after it pushes, cancels
  and closes over unfinished tasks: that part is the free client of `AsyncService`.
* `SelfPipe`, `MCSelfPipe` - `selfpipe.cpp`.
* `ForkExec`, `MCForkExec` - `forkexec.cpp`, one call.
* `PathExec`, `MCPathExec` - `pathexec.cpp`, one measurement and one search.
* `Selector` - what a selector promises, whichever system call is behind it.
* `SelectorEpoll`, `SelectorKqueue` - `selector_epoll.cpp` and
  `selector_kqueue.cpp`.
* `SelectorBoth`, `MCSelector` - one of the two, chosen at the start as configure
  does, and what a program sees of it: shown to implement `Selector`.
* `Bindings` - the functions of the Lua module, one table per source file, each
  as the sequence of the steps it takes.
* `LuaCalls`, `MCLuaCalls` - a program that calls them while allocations fail, objects
  are collected and descriptor numbers used again.
* `LuaTasks`, `MCLuaTasks` - `async_task.cpp` and the Lua side of
  `async_service.cpp`, composed with `TaskPool`, the promise that `AsyncService` is
  shown to keep.
* `LuaX`, `Timespec`, `MCValues` - the helpers of `luaX.hpp` and the arithmetic of
  `timespec.cpp`, `timer.cpp` and the selector's timeout.
* `AsyncServiceProofs` (with the event loop), `SelfPipeProofs`, `ForkExecProofs`,
  `SelectorProofs`, `LuaCallsProofs` - theorems about the module each is named after;
  `LuaProofs` - about `LuaTasks` and `LuaX`; `SequentialProofs` - about `PathExec` and
  `Timespec`; `SequenceLemmas` - what they need about sequences and their elements.

### AsyncService and the code

| TLA+ | code |
|---|---|
| `spareThreads`, `currentThreads`, `currentTasks` | `spare_threads_`, `current_threads_`, `current_tasks_`, under `counter_mutex_` |
| `queue`, `queueIndex` | `queue_`, `queue_index_` (its keys), under `queue_mutex_` |
| `ready`, `opened`, `pipe` | `ready_`, `ready_writer_.valid()`, the bytes in the pipe |
| `pc[w]`, `held[w]` | where worker `w` is in `start()`, its local `task` |
| `client`, `arg`, `swept` | where the client is in a call, its argument, the local `queue` of `close()` |
| `callback[t]` | the last virtual call made on task `t` (kept for the properties) |
| `failures` | thread creations that threw (kept for the properties) |

`pc`: `fetch` about to enter the queue section, `waiting` in
`queue_condition_.wait`, `fetched` and `stopping` before the counter section with
a task or with the null pointer, `dispatch`, `deliver`, `account` before the
call, the ready section and the last counter section. `none` is a thread that
does not exist: its identity serves again for a later thread.

A section is atomic because every access to what a mutex protects is under that
mutex, and no section holds two. `task->cancel()` in `cancel()` is part of the
following counter section: by `OnePlace` no other thread reaches the task
between the two, so nobody could tell. Waits follow POSIX: wake-up by notify or
for no reason.

The client is what the tests show: one thread; a task is pushed again only after
it came back; after close only pop and destruction. `info`, `get` and `valid`
only read. What the calls do outside this contract (second close, push after
close, push of a task in flight) is listed as hazards and not modelled; nor is a
thread creation that fails in `open`, after which the threads already started
run on a deleted object.

### SelfPipe and the code

Descriptor numbers are a table from number to pipe end, and `pipe2` takes the two
lowest free numbers, so a number that was closed can come back as something else: that is
what `PublisherTargetsLive` and `TriggerTargetsSelf` are about. The two mutexes
are explicit (`OpenLock`, `CloseLock`, `PublisherLock`), the publisher holds a
lock across its loop of writes, each write being a step. `selfpipe_open` can
fail at each system call (`OpenFails`) and at the thread creation
(`OpenThreadFails`). A child that ends is one signal; a pending signal is a bit.
The handler runs in two steps, the load of `selfpipe_writer` and the write.
A thread that has blocked signals (inside `open` and `close`, between
`sigmask_block_all_signals` and the end of the scope) takes none.

### ForkExec and the code

A process is a record: its place in the code, its descriptor table, its
close-on-exec numbers, the five `file_descriptor` members of `forkexec_impl` and
its signal mask. `fork` copies the record, `execve` closes what is close-on-exec,
`dup2`, `pipe2` and `close` work on the table (the lowest free number first), so
which process holds which end of which pipe follows from the code and is not
assumed: a read returns at the first bytes or when no process holds the writer.
`die()` and `quit()` are the write and then the exit.

Every system call of the children and of the parent that the code tests can fail,
with the name of the call as its error code. The signal mask calls cannot
fail with these arguments. A child can be killed at any step before the
command runs. Another thread may fork once during the call; its process execs
later (`OtherForks`, `OtherExecs`). The program has 0, 1 and 2 open when it
calls (`ForkExecAssumption`): with one of them closed the die pipe lands there and
the redirection destroys it, which is listed as a hazard.

### PathExec and the code

A path is the sequence of the lengths of its elements; the text of the names is
left out, and so is the scanning for `:` character by character. `Measure` is one
turn of the loop of `pathexec_buffer_size`, `Skip` and `Try` one turn of that of
`pathexec`, with the answer of `execve` chosen freely. The caller gives a buffer of
the measured size, as `forkexec.cpp` and the Lua binding do, or of its own.

### The selectors and the code

`filter[fd]` is what the kernel has registered for a descriptor, one entry for READ
and one for WRITE, each `absent`, `off` or `on`: with epoll both are there or none,
with kqueue they are two filters that one `kevent` call changes in order, stopping
at the first error. `result_` and `buffer_` are the fields of the class; an
entry that no select has just written is `Stale`, which `ImplementsSelector`
would see if `event` handed it out. The kernel fills the buffer with any of the due
answers when it is too small. What happens to a descriptor outside the selector is
`Outside`: it becomes ready or not, loses its other end, is closed (which ends its
registrations) and opened again under the same number.

The two back ends differ in two places, and `Selector` allows both. With kqueue a pipe
whose other end is gone is watched for READ only (`half`: the EPIPE that `add` and
`mod` take for success); a later `mod` of it fails with ENOENT and still changes
READ. And an answer of kqueue is about one event, one of epoll about a descriptor,
possibly without any event when the other end is gone.

### Bindings, LuaCalls and the code

A function is a sequence of steps: arguments checked, a buffer allocated, a
system call, descriptors opened, an object made, memory allocated for a result.
`Bindings` has one definition per source file and a shape per function, with the
steps in the order of the code; the functions that are one call and one result
share their shape. A native build has `pipe2`, `socket` with flags and so on; a
fallback build has the sequences of `compat_*.cpp`, which block signals, open, set
the flags one by one and release.

`LuaCalls` says what a step does. A step that fails runs the destructors of what
the call holds, the last constructed first (`Destructors`); a Lua error (an argument, no
memory) is a `longjmp` and runs none. `held` is what the call has opened and given to no
object, `open[n].owner` the object that will close number `n`. `errno` is only told
apart by who set it: the failed step of this call (`call`), nobody (`none`, after
`errno = 0`), anything else (`stale`). Some calls may fail without setting it
(`SilentCall`): `sysconf` and `pathconf` return -1 also when there is no limit, and
`getpwnam` and `getpwuid` drop the number that `getpwnam_r` and `getpwuid_r` return and
report `errno`. Their failure is reported as `unset`, with whatever `errno` holds. The collector runs between calls and at
allocations. The program gives a descriptor to one object: `fd(n)` on a number
that already has one is a second owner, which the code does not prevent.

A `close` that fails leaves the object without the number, as the code has it, and the
number free: that the kernel gives it up whatever `close` returns is assumed, as most
kernels do. A failing signal mask call (`Block`) is one of `sigprocmask`. In a build with
`pthread_sigmask` the result is a positive number (`compat_sigmask.cpp:27`), which the tests for
-1 (`sigmask.cpp:32`, `signal.cpp:70`) take for success; but it fails only for a `how`
that no caller passes, so no behaviour of such a build is left out.

### LuaTasks and the code

`anchored` are the tasks whose `ref_` is set: `push` sets it before it calls the
pool, `pop` and `async_task::cancel` clear it. `reach` is what the program can still get
at; the collector takes a task that is neither. `close` is two steps, since it
waits for the workers, and so is the finaliser of the service (`GcService`,
`GcServiceEnds`), which calls it. `ExitBegins` is `lua_close`, which finalises the
youngest object first: a task made after the service goes before it. The module
assumes that no such task is in flight then; the code does not see to it. `stranded`
are the tasks whose reference no pop and no cancel will drop: those whose push
failed after the reference was taken, and those finished and not popped when the
service was collected.

### LuaX, Timespec and the code

`LuaX` has the stack and the tables of one Lua function: a helper pushes and pops
on it, so an index below the top that is negative means something else after a push,
which is what `luaX_abs_index` is for. `lua_Integer` and `intmax_t` end at
`MaxInteger`; `Types` are the C++ integer types, signed and unsigned, each by its
greatest number: one is narrower than `lua_Integer`, as wide as it, or has values that
`lua_Integer` has not. A default of such a value becomes a negative `lua_Integer`
(`AsLuaInteger`) before it is converted back. A float is a number of halves. `version` selects the 5.1 or the
5.3 behaviour. A function works on tables, through any sequence of helpers, or reads
its first argument (`work`).

In `Timespec` a second has `PerSecond` times `Milli` units in place of 10^9 nanoseconds
(four in the run); `Numbers` and `Seconds` are the times a program uses. A time is a table with
its type or a number, which is checked differently: a number may give a negative
`nsec` when it is negative with a fraction, and a table with such an `nsec` is
refused.

## 3. The runs

| run | instance | checks |
|---|---|---|
| `async_safety` | 3 threads, 3 tasks, every `open(start, max, spare)` with sizes 0..3, pipe of 1 byte | `TypeOK`, `NoLostWakeup`, `OnePlace`, `CallbackMatches`, `CloseLeavesNothing`, `ImplementsPool` |
| `async_failures` | 2 threads, 3 tasks, up to 2 thread creations in push fail | `CountersAccounted`, `EnoughThreads` |
| `async_progress` | 2 threads, 2 tasks, `max_threads >= 1`, fair | `EventuallyCalled`, `CloseReturns`, `ImplementsFairPool` |
| `async_loop` | 2 threads, 3 tasks, pipe of 2 bytes, fair | `NeverMissed`, `NothingCancelled`, `LoopEnds` |
| `selfpipe_two_clients` | 2 objects on 2 threads, 6 numbers | `SubscribersMatch`, `PublisherTargetsLive`, `AllOrNothing`, `NoLeak` |
| `selfpipe_one_client` | 1 object, 6 numbers, fair | `TriggerTargetsSelf`, `SignalSeen`, `CallsReturn` |
| `forkexec` | redirections from none, 0, 1, a file, a closed number; flags on none, 1 or the file; 8 numbers; fair | `TypeOK`, `AnswerIsTrue`, `PidsAreTrue`, `CallerUnchanged`, `CommandSees`, `CallReturns` |
| `pathexec` | up to 3 elements of length 0..3, commands of length 0, 1, 3, buffer as measured or of 4 bytes | `BufferIsExact`, `Outcome` |
| `selector` | 2 descriptors, one that may close or lose its other end, a buffer of 1 that grows to 4, both back ends, fair | `ImplementsSelector`, `ReadyReported` |
| `lua_calls` | every shape of `Bindings`, 2 descriptor numbers, 2 objects, native and fallback builds | `ErrorIsTheCalls`, `NothingLost`, `FlagsBeforeSignals`, `ClosesOwn` |
| `lua_tasks` | 3 tasks and one service, fair | `AliveWhileInFlight`, `AnchoredExactly`, `Collected` |
| `values` | a stack of 3, 2 tables, integers of 4 bits, strings of length 0, 1 and 3; numbers of -4 to 5 quarters of a second and tables of 0 or 1 second, sums within 2 seconds either sign | `HelpersKeepPromises`, `TimesAreExact` |

What they show.

* The counters are exact between any two sections, including those of a call in
  progress: the unsigned subtractions never wrap, and `info` is never off by
  more than the call in progress explains.
* One `notify_one` per push suffices: while a worker sleeps, there are at least
  as many workers on their way to the queue as tasks in it.
* The retirement test of a worker and the creation test of `push` are made at
  different times on different values and still agree: until close there is a
  thread for each task or all that are allowed.
* A task is in one place and gets one call per push, whoever of worker, cancel
  and close gets to it first; what `pop` returns was dispatched.
* When `close` returns there is no thread that could use the object.
* A thread creation that throws inside `push` leaves the three counters one too
  high for ever: `CountersAccounted` says exactly by how much, and `EnoughThreads`
  what that costs (a thread of the maximum). `close` then waits for ever, so the run
  allows deadlock (`CHECK_DEADLOCK FALSE`). Both properties cover the states
  without failures too, and are theorems; `async_safety` does not repeat them.
* The event loop never sleeps over a finished task although bytes are dropped
  when the pipe is full, because it empties the pipe before the list. Its own count
  of the tasks that have not come back is right: when it calls `close`, at once after
  the last pop and with the workers still on their way back, no task is queued, held or
  ready, so none is cancelled or dropped.
* `selfpipe`: whatever fails and however opens and closes of two objects mix,
  the handler, the thread, the internal pipe and the set of subscribers change
  together, the publisher writes to subscribers only and no descriptor is lost.
  With one thread that takes signals the handler writes to the internal pipe
  only, and every subscriber is told after the last child. With two such
  threads the handler of one can load the number before the other closes it,
  and write to whatever has the number then: that is a hazard
  (`selfpipe.cpp:51`), and the reason for `TriggerTargetsSelf` being in the
  one-client run.
* `forkexec`: 0 is returned only if the command runs or a signal took a child
  before it could speak; an error only if that call failed and the command never
  runs. No descriptor stays behind in the program, in the command or in a process
  that another thread forks meanwhile, and so the reads end. The command gets
  the stdio that was asked for, if no source is a lower number of stdio that was
  redirected before (`Separate`): stdin and stdout cannot be swapped.
* `pathexec`: the buffer size is the least that holds every candidate, and the
  errno is that of the error that stopped the search, or the last of `EACCES`,
  `EISDIR`, `EPERM`, or `ENOENT`. An error such as `ENOTDIR` stops the search.
* `selector`: a call is refused for a reason only, an answer is about a watched
  descriptor and a ready event, `event` never hands out an answer of an older
  select, and an event that stays ready is reported again and again however the
  kernel chooses what to put in a buffer that is too small: the buffer grows
  when it was filled.
* `lua_calls`: an error that is reported is that of the call's own failed step,
  whatever destructors and finalisers did to `errno` in between. Where the failed step
  need not set `errno` (`getpwnam`, `getpwuid`, and `getcwd` when `pathconf` gives no limit)
  the code reports a stale one, and the property says nothing: these are the reports of
  kind `unset`. After any call,
  failed or not, the signal mask is as before, no half-made descriptor has been seen
  by a handler of this thread, and every open descriptor has an owner, but for those
  that `new_fd` could not allocate an object for: these are lost to the
  program (`lost`). An object never closes a later descriptor with its number.
* `lua_tasks`: the pool never holds a pointer to a collected task, the registry holds
  the tasks in flight and apart from those only the `stranded` ones, and what the
  program forgets is collected.
* `values`: the helpers for fields change the field of the table that the index meant,
  whatever its sign; a saved top and the arguments outlive any helper, a function
  returns what it pushed or its failure, and `luaX_push_success` a value that is true. A
  conversion gives the number or refuses it; a default is given unless it is greater than any
  `lua_Integer`, and then refused as out of bounds, as is a number that does not fit.
  Two exceptions are left out of
  the promises because the code differs there: a fraction is cut or becomes 0
  depending on the version and the helper, and an end of a range below `-(size + 1)`
  wraps round to a large unsigned number, past the end of the string. Sums and differences of times are exact, of normalised
  times normalised, and typed as points and lengths are; a wait is not longer than
  was asked, and shorter by less than a millisecond.

Bounds. Three workers and three tasks give a worker in each of three places with
a task queued behind another; `EnoughThreads` and `NoLostWakeup` break with two
when the code is changed as the mutants of `PROJECT.json` do. A pipe of one byte
is full after one task. Tasks and threads are symmetric in the safety runs; the
liveness runs use no symmetry. In `SelfPipe` two pipes besides the internal one
and six numbers are what two objects can hold at once, so numbers are used again
as soon as one closes.
`forkexec_daemon` needs eight numbers: 0, 1, 2, a file of the caller and two
pipes; `/dev/null` takes a number again that the child closed. Paths of three
elements have a first, a middle and a last one, and lengths to 3 an empty, a
one-character and two longer ones, which is all that the loops distinguish.
In `selector` two descriptors give three answers with kqueue, so a buffer of 1 has to
grow twice. In `lua_calls` two numbers are what `pipe` opens at once, so after any
close the next open takes a number again; two objects own them. Three tasks are one
pending, one running and one done. In `values` a stack of three holds a table, a value
and what a helper pushes, and integers of four bits have both signs and both ends of
every type; numbers of a second below 0 and above 1 make a sum carry, borrow and
change sign.

Fairness. Every thread that can take a step takes one some day: weak fairness
for the client inside a call and for each worker. Nothing forces the client to
call, a spurious wake-up to happen, a child to end, a call to fail. In
`SelfPipe` mutexes are contended for, and a thread that waits for one is served
some day: strong fairness of each client inside a call.
In `ForkExec` each process goes on, failing or not; nothing makes the command or
the program of another thread end.
In `SelectorBoth` a select that is not interrupted happens again and again (strong
fairness): the program is an event loop. In `LuaTasks` the workers, the
collector and a `close` whose workers are gone go on, and the program's loop pops
what is done; nothing makes it push, forget, cancel or close.

## 4. The proofs

The theorems hold for every value of the constants that the module's assumption
allows: any finite set of threads, any tasks, any descriptors and arguments. The
assumptions are `ConstantsAssumption`, `SelfPipeAssumption`, `ForkExecAssumption`,
`PathExecAssumption`, `SelectorAssumption`, `LuaCallsAssumption`, `LuaXAssumption` and
`TimespecAssumption`; they say what the constants are (numbers, sets of tasks, masks,
kinds of values) and TLC evaluates them in every run. Each proof is one
inductive invariant, which TLC checked on the run's instance before it was proved.

| module | theorem | states |
|---|---|---|
| `AsyncServiceProofs` | `TypeCorrect` | `TypeOK`: no counter wraps |
| | `CountersCorrect` | `CountersAccounted` |
| | `NoWakeupLost` | `NoLostWakeup` |
| | `ThreadsSuffice` | `EnoughThreads` |
| | `ClosedIsEmpty` | `CloseLeavesNothing` |
| | `TasksInOnePlace` | `OnePlace` |
| | `CallsMatch` | `CallbackMatches` |
| | `ServiceIsAPool` | `ImplementsPool`, the refinement of `TaskPool` |
| | `LoopIsAClient` | `LoopSpec => Spec`: the loop keeps the service's contract |
| | `NoNotificationMissed` | `NeverMissed` |
| | `AllCameBack` | `NothingCancelled` |
| `SelfPipeProofs` | `SubscribersCorrect` | `SubscribersMatch` |
| | `PublisherCorrect` | `PublisherTargetsLive` |
| | `SetUpOrNot` | `AllOrNothing` |
| | `NothingLeaks` | `NoLeak` |
| | `TriggerCorrect` | `TriggerTargetsSelf`, if there is one thread |
| `ForkExecProofs` | `TypeCorrect` | `TypeOK`: each member of `forkexec_impl` has a descriptor of its own |
| | `AnswerCorrect` | `AnswerIsTrue` |
| | `PidsCorrect` | `PidsAreTrue` |
| | `CallerRestored` | `CallerUnchanged` |
| | `CommandCorrect` | `CommandSees` |
| `SequentialProofs` | `ReportsTheError` | `Outcome` |
| | `SizeIsExact` | `BufferIsExact` |
| | `ExactTimes` | `TimesAreExact` |
| `LuaCallsProofs` | `ErrorIsItsOwn` | `ErrorIsTheCalls` |
| | `NothingIsLost` | `NothingLost` |
| | `FlagsComeFirst` | `FlagsBeforeSignals` |
| | `ObjectsCloseTheirOwn` | `ClosesOwn` |
| `LuaProofs` | `NothingInFlightIsCollected` | `AliveWhileInFlight` |
| | `NothingElseIsKept` | `AnchoredExactly` |
| | `HelpersAreRight` | `HelpersKeepPromises` |
| `SelectorProofs` | `SelectorsKeepPromise` | `ImplementsSelector`, the refinement of `Selector` by both back ends |

### AsyncService

`CountersAccounted` is about cardinalities of sets of threads, so a step that moves
a thread needs that the thread was in the set it leaves: `StateOK` (types) and
`Shape` (which places of client and threads go with which contents of `held`, `queue`
and `swept`; in particular the null pointer is in the queue exactly after close, and
then nobody sleeps). `EnoughThreads` is not inductive in terms of sets; `Ceiling`
says it of the counters the code compares, where the tests of `push` and of the worker
give it directly, and `CountersAccounted` carries it back to the sets. `Ceiling`
also says that no thread is counted once close has returned: no step of a worker can
follow, because a live thread is counted (`LiveCounted`). `NoLostWakeup` uses `Shape`
for one thing: a worker that finds the null pointer takes no task, and then nobody
sleeps. The lemmas `Enter`, `Leave`, `Stay`, `Still` say what a step of one thread
does to the number of threads in a set of places.

`PlacesInv` adds where the tasks are. A step either moves no task (`Quiet`: most of them)
or is one of those in `StepKinds`; each of them takes a task (`CloseQueue`: the whole
queue) out of one place and into another, and the lemmas of `SequenceLemmas` say what that does to
the sets of elements. For the refinement each of them is an operation of
`TaskPool` or a stutter: `FetchTask` is its start, `Deliver` its finish,
`CancelCount` changes nothing it shows.

### AsyncLoop

The variables of the service only change by its own actions, which gives
`LoopIsAClient`, and with it the theorems above. `LoopInv` adds `Turn`
(where the client thread is in the service for each place of the loop),
`Heard` (what `NeverMissed` says, from the first push on) and `Balance`: `remaining` is the number of tasks in the
queue, with a worker, ready, or in the push in progress. The loop is left with
`remaining = 0`, so no task is in any of these places (`Emptied`), from the last pop on
(`EmptiedStep`), and nothing is there for `close` to sweep (`Uncancelled`).

### SelfPipe

`Kept` says who keeps each pipe: its object, or the one call that works on
it; `Stages` how much of handler, thread and internal pipe is there at each point of
the first open and the last close, while the mutex is held (`Locked`);
`Subscriptions` that the set is that of the writers of open objects. `NoLeak` is
part of the invariant. That the publisher's targets are live needs only that it holds
the second mutex while it writes. `TriggerCorrect` has the hypothesis that there is one
thread: the handler then stands between two instructions of it (`HandlerAlone`). With
two it is false, as said above.

### ForkExec

The first half of the invariant (`Tables`) is about each process by itself. A member of
`forkexec_impl` that is set names a number that was free at the call, refers to the end it is
named for and is close-on-exec (`Members`); the numbers of the program are as
they were, but for those of stdio redirected so far (`Image`, `Done`); any other
number is a member's. So after `leave` nothing is left over, and `execve` closes both
pipes. The second half (`Where`, `Order`, `Holders`, `Said`, `Reported`) is the protocol: who exists,
who still holds the writers, and what is in the pipes. A child that is
alive holds the writer of the error pipe (`Holders`), so its end of file says that none is left that
could still report; `Said` ties the codes in the pipe to a call that failed in a process
without which the command cannot run.

### PathExec

`MaxBefore` says that `longest` bounds the widths before the element the first loop
is at, and is one of them or the initial 1; `Measured` keeps that for the result.
`Searching` says that each element before the one the second loop is at had its turn
and was passed over exactly if it did not fit (`Judged`), and that `code` is the last
error of the kind kept (`LastKept`). `Turn`, `CodeFollows` and `AdvanceInvariant` are
the loop body, shared by `Skip` and `Try`.

### LuaCalls

The four properties hold because of the form the functions have, so that comes first.
`Functions(w)` describes it: steps with nothing held, in which a step that reads
`errno` comes right after the one that clears it; then at most one step that opens one or two
descriptors; then objects for them, or the one is freed. If the flags `w` are not set
by the opening call itself, signals are blocked before, every flag of every descriptor is
set before `release`, and objects come after `restore`. `ShapesAreFunctions` proves this of
every function of `Bindings`, on both builds and for every set of flags: a function
added to a table is covered if it has the form, and the proof of its table fails if not.

The invariant then says what may be left of a function and what the call holds
meanwhile, one `Phase` each: before it opens anything (`Ahead`, `Late`), in a fallback
before and after the opening (`ToOpen`, `SettingFlags`, `ToRestore`), with descriptors to
give away (`Giving`), on the way out of a failure (`OnWayOut`), or not running (`Idle`). `SettingFlags`
is what makes `FlagsBeforeSignals` inductive: a flag that was asked for is set, or the step
that sets it is still to come. `OnWayOut` says that what is left are exactly the
destructors of what is held (`WayOut`), whichever step failed, and that `errno` is the
call's own unless the step was a `SilentCall` (`unset`): `ErrorIsItsOwn` excepts these. `Owners` is about the
descriptors alone: owner and object name each other, nobody owns what the call holds.
Each action is one lemma; steps with nothing held share `NothingHeld`, steps that end
in a Lua error `LuaErrorStep`, those that close through an object `LetsGo`.

### LuaTasks

That the collector leaves the tasks in flight alone rests on the references being
exactly those of the tasks in flight and stranded, that on a task being in flight
once (`Once`), and both on who may still run when the service is shut
(`Owned`, `Held`).

### LuaX

`Mach(s, T)` is a stack and a family of tables; the first lemmas say what each
function of the Lua API makes of one, the next ones follow a helper through them, with
an index that means slot `luaX_abs_index` before and after every push. The invariant
`StackOK` says that the stack and the fields hold values, that a saved top lies
between the arguments and the top (so `Throw` and the saver's destructor cut off
nothing of the caller's), and that no table is its own metatable: without the last,
`SetMetafield` of a table that is would change the table itself. `BottomStays` follows the
part of the stack that `StackPromise` is about through each helper. `Told` adds that the
last answer is what was promised, from `ConvertIs` (a comparison in an unsigned type
of a number that fits it), `ToIntegerIs`, `UdataIsNamed` and `BytesOfSub`. The theorem
has the exceptions of the property, the ones section 3 names.

### Timespec

`TimeOK` is only that both variables hold times; what is proved of each function
is arithmetic on the units that a time stands for. The length of a second is a
constant the provers do not know, so `Distribute` opens the products once and the other
lemmas treat them as numbers. The types are a comparison of the tables in the source with
what the sums and differences of points and lengths can be, entry by entry
(`SumsAre`, `DifferencesAre`, `AddIsTheSum`, `SubIsTheDifference`). Times are
exact here; that a double holds the seconds and nanoseconds of a number exactly is an
abstraction of the module.

### The selectors

`Registrations`: a registration needs an open selector and an open descriptor, and
lacks the WRITE filter only in kqueue and only for a descriptor that lost
its other end; without that `mod` could fail for no reason `Selector`
knows. `Room`: `result_` counts entries the buffer has. A call changes the filters of one
descriptor, so `RowSeen` says once what a program sees of such a change; `Fetched` says what
can be read after a select whatever entries the kernel chose, and both back ends use it.

### Only model-checked

* Liveness under fairness, which is beyond the prover: `EventuallyCalled`,
  `CloseReturns`, `ImplementsFairPool`, `LoopEnds`, `SignalSeen`, `CallsReturn`,
  `CallReturns`, `ReadyReported`, `Collected`.

Every other property of a passing run is stated by a theorem.

## 5. Plan

The reaping loop of `test_selfpipe.lua` over `SelfPipe`.

## 6. Not modelled

* `argument_vector`: strings and a table of pointers made from them on demand, within
  one call of one thread. `ForkExec` and `PathExec` start from its result.
* What values mean: the fields of addresses, of `stat` and of directory
  entries, `tostring` and `tonumber` of times, the text of error messages.
  `Bindings` has the calls and their failures, not their contents.
* The tables of constants, the build, the tests (except as the clients of
  `AsyncLoop` and of the contracts above), and `compat_clock_gettime` and
  `hardware_concurrency`, which keep nothing.
* Programs that break a contract the code does not check: a second `close` of a
  service or a push after it, a push of a task in flight, two objects
  for one number, a directory used after its iterator has ended, `lua_close`
  over an open service with younger tasks in flight. What happens then is undefined
  in C++ or in the C library; those that bite are listed as hazards.
* Two threads in one Lua state, which Lua does not allow; the fork of another thread
  between the calls of a fallback, before close-on-exec is set (`FlagsBeforeSignals`
  is about this thread); `errno` in the signal handler of `selfpipe`.
