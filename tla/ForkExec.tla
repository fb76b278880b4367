---- MODULE ForkExec ----
(***************************************************************************)
(* src/lib/forkexec.cpp: one call of forkexec or of forkexec_daemon.  The  *)
(* parent learns of a failure from the die pipe, whose writers exec        *)
(* closes, and of the pid of a daemon from the pid pipe.                   *)
(*                                                                         *)
(* A process is a record: where it is, its descriptor table, the numbers   *)
(* that are close-on-exec, the file_descriptor members of forkexec_impl    *)
(* and its signal mask; fork copies the record.  Another thread of the     *)
(* program may fork and exec in between (process "other").                 *)
(***************************************************************************)
EXTENDS Integers, FiniteSets, Sequences

CONSTANTS
  Fds,      \* descriptor numbers
  Opened,   \* numbers open in the program when it calls
  Sources,  \* what the caller may put into dup2_stdio
  Flags     \* sets of numbers the caller may have made close-on-exec

None == -1
Stdio == 0..2

ASSUME ForkExecAssumption ==
  /\ Fds \subseteq Nat /\ IsFiniteSet(Fds)
  /\ Stdio \subseteq Opened /\ Opened \subseteq Fds
  /\ Sources \cap Fds \subseteq Opened
  /\ \A c \in Flags : c \subseteq Opened

Procs == {"parent", "child", "grandchild", "other"}
Ends == {"die_reader", "die_writer", "pid_reader", "pid_writer", "null"}
Free == <<>>
AtCall == [n \in Fds |-> IF n \in Opened THEN <<"file", n>> ELSE Free]
NoEnds == [e \in Ends |-> None]
Nobody == [at |-> "none", fds |-> [n \in Fds |-> Free], coe |-> {}, own |-> NoEnds, mask |-> "all"]

VARIABLES
  call,    \* the arguments: daemon, dup2_stdio, close-on-exec flags at the call
  proc,    \* the processes
  die,     \* error codes in the die pipe
  pid,     \* pids in the pid pipe
  answer,  \* the local code of the call: "success" or the call that failed
  pids,    \* pid1 and pid2
  failed,  \* the call that failed in each process
  killed   \* processes ended by a signal before exec

pipes == <<die, pid>>
history == <<failed, killed>>
vars == <<call, proc, pipes, answer, pids, history>>

Init ==
  /\ call \in [daemon : BOOLEAN, stdio : [Stdio -> Sources], coe : Flags]
  /\ call.daemon => call.stdio = [i \in Stdio |-> None]
  /\ proc = [p \in Procs |-> IF p = "parent" THEN
               [Nobody EXCEPT !.at = "ready", !.fds = AtCall, !.coe = call.coe, !.mask = "caller"]
             ELSE Nobody]
  /\ die = <<>> /\ pid = <<>>
  /\ answer = "none"
  /\ pids = [first |-> "none", second |-> "none"]
  /\ failed = [p \in Procs |-> "none"]
  /\ killed = {}

At(p, place) == proc[p].at = place
Runner == IF call.daemon THEN "grandchild" ELSE "child"
HasFile(p, file) == \E n \in Fds : proc[p].fds[n] = file

-----------------------------------------------------------------------------
(* What system calls do to a process. *)

FreeFds(r) == {n \in Fds : r.fds[n] = Free}
Lowest(S) == CHOOSE n \in S : \A m \in S : n <= m

\* A file_descriptor member of forkexec_impl gets a new number, close-on-exec.
WithEnd(r, e) ==
  LET n == Lowest(FreeFds(r))
  IN  [r EXCEPT !.fds[n] = <<e>>, !.coe = @ \cup {n}, !.own[e] = n]

\* Mutant: the member keeps the number it closed.
WithoutKeepsNumber(r, E) ==
  LET gone == {r.own[e] : e \in E}
  IN  [r EXCEPT !.fds = [n \in Fds |-> IF n \in gone THEN Free ELSE @[n]], !.coe = @ \ gone]

\* file_descriptor::close on the members in E, those that hold a number.
Without(r, E) ==
  LET gone == {r.own[e] : e \in E}
  IN  [r EXCEPT !.fds = [n \in Fds |-> IF n \in gone THEN Free ELSE @[n]],
                !.coe = @ \ gone,
                !.own = [e \in Ends |-> IF e \in E THEN None ELSE @[e]]]

\* Mutant: the copy inherits close-on-exec.
Dup2KeepsFlag(r, from, to) ==
  [r EXCEPT !.fds[to] = r.fds[from], !.coe = IF from \in @ THEN @ \cup {to} ELSE @ \ {to}]

Dup2(r, from, to) ==
  IF from = to THEN r ELSE [r EXCEPT !.fds[to] = r.fds[from], !.coe = @ \ {to}]

Executed(r) ==
  [r EXCEPT !.at = "running", !.coe = {}, !.own = NoEnds,
            !.fds = [n \in Fds |-> IF n \in r.coe THEN Free ELSE @[n]]]

To(p, place, r) == proc' = [proc EXCEPT ![p] = [r EXCEPT !.at = place]]
Fork(p, place, q, start) ==
  proc' = [proc EXCEPT ![p].at = place, ![q] = [proc[p] EXCEPT !.at = start]]

-----------------------------------------------------------------------------
(* The caller. *)

BlockSignals ==
  /\ At("parent", "ready")
  /\ To("parent", "open_die", [proc["parent"] EXCEPT !.mask = "all"])
  /\ UNCHANGED <<call, pipes, answer, pids, history>>

OpenPipe(place, reader, writer, next) ==
  /\ At("parent", place)
  /\ Cardinality(FreeFds(proc["parent"])) >= 2
  /\ To("parent", next, WithEnd(WithEnd(proc["parent"], reader), writer))
  /\ UNCHANGED <<call, pipes, answer, pids, history>>

OpenDie == OpenPipe("open_die", "die_reader", "die_writer", IF call.daemon THEN "open_pid" ELSE "fork")
OpenPid == OpenPipe("open_pid", "pid_reader", "pid_writer", "fork")

ForkChild ==
  /\ At("parent", "fork")
  /\ Fork("parent", "close_writers", "child", "close_readers")
  /\ pids' = [pids EXCEPT !.first = "child"]
  /\ UNCHANGED <<call, pipes, answer, history>>

\* An early return of -1, with the errno of the call that failed.
ParentFails ==
  /\ proc["parent"].at \in {"open_die", "open_pid", "fork"}
  /\ answer' = proc["parent"].at
  /\ failed' = [failed EXCEPT !["parent"] = proc["parent"].at]
  /\ To("parent", "leave", proc["parent"])
  /\ UNCHANGED <<call, pipes, pids, killed>>

\* Mutant: the parent keeps its own writer of the die pipe.
CloseWritersOfPid ==
  /\ At("parent", "close_writers")
  /\ To("parent", "read_die", Without(proc["parent"], {"pid_writer"}))
  /\ UNCHANGED <<call, pipes, answer, pids, history>>

CloseWriters ==
  /\ At("parent", "close_writers")
  /\ To("parent", "read_die", Without(proc["parent"], {"die_writer", "pid_writer"}))
  /\ UNCHANGED <<call, pipes, answer, pids, history>>

\* read returns at the first code, or at the end when nobody holds the writer.
ReadDie ==
  /\ At("parent", "read_die")
  /\ die # <<>> \/ \A p \in Procs : ~HasFile(p, <<"die_writer">>)
  /\ answer' = IF die # <<>> THEN Head(die) ELSE "success"
  /\ die' = IF die # <<>> THEN Tail(die) ELSE die
  /\ To("parent", IF call.daemon THEN "read_pid" ELSE "leave", Without(proc["parent"], {"die_reader"}))
  /\ UNCHANGED <<call, pid, pids, history>>

\* Mutant: the read of the pid does not wait.
ReadPidAtOnce ==
  /\ At("parent", "read_pid")
  /\ pids' = IF pid # <<>> THEN [pids EXCEPT !.second = Head(pid)] ELSE pids
  /\ pid' = IF pid # <<>> THEN Tail(pid) ELSE pid
  /\ To("parent", "leave", Without(proc["parent"], {"pid_reader"}))
  /\ UNCHANGED <<call, die, answer, history>>

ReadPid ==
  /\ At("parent", "read_pid")
  /\ pid # <<>> \/ \A p \in Procs : ~HasFile(p, <<"pid_writer">>)
  /\ pids' = IF pid # <<>> THEN [pids EXCEPT !.second = Head(pid)] ELSE pids
  /\ pid' = IF pid # <<>> THEN Tail(pid) ELSE pid
  /\ To("parent", "leave", Without(proc["parent"], {"pid_reader"}))
  /\ UNCHANGED <<call, die, answer, history>>

\* Mutant: only the members of forkexec are closed.
LeaveWithPid ==
  /\ At("parent", "leave")
  /\ To("parent", "returned", [Without(proc["parent"], {"die_reader", "die_writer"}) EXCEPT !.mask = "caller"])
  /\ UNCHANGED <<call, pipes, answer, pids, history>>

\* The destructors of sigmask_saver and of forkexec_impl.
Leave ==
  /\ At("parent", "leave")
  /\ To("parent", "returned", [Without(proc["parent"], Ends) EXCEPT !.mask = "caller"])
  /\ UNCHANGED <<call, pipes, answer, pids, history>>

ParentStep ==
  \/ BlockSignals \/ OpenDie \/ OpenPid \/ ForkChild \/ ParentFails
  \/ CloseWriters \/ ReadDie \/ ReadPid \/ Leave

-----------------------------------------------------------------------------
(* The child of forkexec, and both children of forkexec_daemon. *)

\* Of the two children only the one of forkexec goes on to the command.
ChildClosesReaders ==
  /\ At("child", "close_readers")
  /\ To("child", IF call.daemon THEN "setsid" ELSE "chdir",
        Without(proc["child"], {"die_reader", "pid_reader"}))
  /\ UNCHANGED <<call, pipes, answer, pids, history>>

SetSid ==
  /\ At("child", "setsid")
  /\ To("child", "fork", proc["child"])
  /\ UNCHANGED <<call, pipes, answer, pids, history>>

ForkGrandchild ==
  /\ At("child", "fork")
  /\ Fork("child", "quit", "grandchild", "close_pid_writer")
  /\ UNCHANGED <<call, pipes, answer, pids, history>>

Quit ==
  /\ At("child", "quit")
  /\ pid' = Append(pid, "grandchild")
  /\ To("child", "exit", proc["child"])
  /\ UNCHANGED <<call, die, answer, pids, history>>

GrandchildClosesPidWriter ==
  /\ At("grandchild", "close_pid_writer")
  /\ To("grandchild", "chdir", Without(proc["grandchild"], {"pid_writer"}))
  /\ UNCHANGED <<call, pipes, answer, pids, history>>

\* Mutant: the process ends without a word.
DieSilently(p) ==
  /\ At(p, "die")
  /\ To(p, "exit", proc[p])
  /\ UNCHANGED <<call, pipes, answer, pids, history>>

\* die: the code goes to the pipe, then the process ends.
Die(p) ==
  /\ At(p, "die")
  /\ die' = Append(die, failed[p])
  /\ To(p, "exit", proc[p])
  /\ UNCHANGED <<call, pid, answer, pids, history>>

\* close(0), close(1), close(2), the destructor and _exit, of die and of quit.
Exit(p) ==
  /\ At(p, "exit")
  /\ proc' = [proc EXCEPT ![p] = [Nobody EXCEPT !.at = "ended"]]
  /\ UNCHANGED <<call, pipes, answer, pids, history>>

-----------------------------------------------------------------------------
(* forkexec_impl::forkexec, in the process that becomes the command. *)

DupAt == [i \in Stdio |-> CASE i = 0 -> "dup2_0" [] i = 1 -> "dup2_1" [] i = 2 -> "dup2_2"]
NullAt == [i \in Stdio |-> CASE i = 0 -> "null_0" [] i = 1 -> "null_1" [] i = 2 -> "null_2"]

ChangeDirectory(p) ==
  /\ At(p, "chdir")
  /\ To(p, IF call.daemon THEN "open_null" ELSE "dup2_0", proc[p])
  /\ UNCHANGED <<call, pipes, answer, pids, history>>

Redirect(p, i) ==
  /\ At(p, DupAt[i])
  /\ LET from == call.stdio[i] IN
     /\ from # None => from \in Fds /\ proc[p].fds[from] # Free
     /\ To(p, IF i < 2 THEN DupAt[i + 1] ELSE "unblock",
           IF from = None THEN proc[p] ELSE Dup2(proc[p], from, i))
  /\ UNCHANGED <<call, pipes, answer, pids, history>>

OpenNull(p) ==
  /\ At(p, "open_null")
  /\ FreeFds(proc[p]) # {}
  /\ To(p, "null_0", WithEnd(proc[p], "null"))
  /\ UNCHANGED <<call, pipes, answer, pids, history>>

RedirectNull(p, i) ==
  /\ At(p, NullAt[i])
  /\ To(p, IF i < 2 THEN NullAt[i + 1] ELSE "close_null", Dup2(proc[p], proc[p].own["null"], i))
  /\ UNCHANGED <<call, pipes, answer, pids, history>>

CloseNull(p) ==
  /\ At(p, "close_null")
  /\ To(p, "unblock", Without(proc[p], {"null"}))
  /\ UNCHANGED <<call, pipes, answer, pids, history>>

UnblockSignals(p) ==
  /\ At(p, "unblock")
  /\ To(p, "exec", [proc[p] EXCEPT !.mask = "empty"])
  /\ UNCHANGED <<call, pipes, answer, pids, history>>

\* pathexec does not return: the new program has what is not close-on-exec.
Exec(p) ==
  /\ At(p, "exec")
  /\ proc' = [proc EXCEPT ![p] = Executed(proc[p])]
  /\ UNCHANGED <<call, pipes, answer, pids, history>>

\* A system call of a child returns -1; dup2 is called only for numbers given.
Fallible(p) ==
  \/ proc[p].at \in {"setsid", "fork", "chdir", "open_null", "null_0", "null_1", "null_2", "exec"}
  \/ \E i \in Stdio : At(p, DupAt[i]) /\ call.stdio[i] # None

ChildFails(p) ==
  /\ Fallible(p)
  /\ failed' = [failed EXCEPT ![p] = proc[p].at]
  /\ To(p, "die", proc[p])
  /\ UNCHANGED <<call, pipes, answer, pids, killed>>

RunnerStep(p) ==
  \/ ChangeDirectory(p)
  \/ \E i \in Stdio : Redirect(p, i) \/ RedirectNull(p, i)
  \/ OpenNull(p) \/ CloseNull(p) \/ UnblockSignals(p) \/ Exec(p)

ChildStep(p) == RunnerStep(p) \/ ChildFails(p) \/ Die(p) \/ Exit(p)

DaemonStep ==
  \/ ChildClosesReaders \/ SetSid \/ ForkGrandchild \/ Quit
  \/ GrandchildClosesPidWriter

-----------------------------------------------------------------------------
(* What is outside forkexec.cpp. *)

\* SIGKILL, or any other signal once they are unblocked.
Kill(p) ==
  /\ proc[p].at \notin {"none", "running", "ended"}
  /\ killed' = killed \cup {p}
  /\ proc' = [proc EXCEPT ![p] = [Nobody EXCEPT !.at = "ended"]]
  /\ UNCHANGED <<call, pipes, answer, pids, failed>>

\* Another thread of the program starts a process of its own during the call.
OtherForks ==
  /\ At("other", "none") /\ ~At("parent", "returned")
  /\ proc' = [proc EXCEPT !["other"] = [proc["parent"] EXCEPT !.at = "other_exec"]]
  /\ UNCHANGED <<call, pipes, answer, pids, history>>

OtherExecs ==
  /\ At("other", "other_exec")
  /\ proc' = [proc EXCEPT !["other"] = Executed(proc["other"])]
  /\ UNCHANGED <<call, pipes, answer, pids, history>>

\* The end: the caller has its answer, every other process ended or runs a program.
Finished ==
  /\ At("parent", "returned")
  /\ \A p \in Procs \ {"parent"} : proc[p].at \in {"none", "running", "ended"}
  /\ UNCHANGED vars

Next ==
  \/ ParentStep
  \/ DaemonStep
  \/ \E p \in {"child", "grandchild"} : ChildStep(p) \/ Kill(p)
  \/ OtherForks \/ OtherExecs
  \/ Finished

Spec == Init /\ [][Next]_vars

\* Processes go on; nobody has to fail, to be killed or to fork elsewhere.
Fairness ==
  /\ WF_vars(ParentStep)
  /\ WF_vars(DaemonStep)
  /\ \A p \in {"child", "grandchild"} : WF_vars(ChildStep(p))
  /\ WF_vars(OtherExecs)

FairSpec == Spec /\ Fairness

-----------------------------------------------------------------------------
Returned == At("parent", "returned")
Created(p) == ~At(p, "none")
Places ==
  {"none", "ready", "open_die", "open_pid", "fork", "close_writers", "read_die", "read_pid", "leave",
   "returned", "close_readers", "setsid", "quit", "close_pid_writer", "chdir", "dup2_0", "dup2_1",
   "dup2_2", "open_null", "null_0", "null_1", "null_2", "close_null", "unblock", "exec", "die", "exit",
   "running", "ended", "other_exec"}
Files == {Free} \cup {<<"file", n>> : n \in Opened} \cup {<<e>> : e \in Ends}
Codes == {"none", "success"} \cup Places

\* Types, and every file_descriptor member names a descriptor that is open on
\* its own file and close-on-exec: no dup2 of forkexec.cpp:112-145 hits one.
TypeOK ==
  /\ proc \in [Procs -> [at : Places, fds : [Fds -> Files], coe : SUBSET Fds,
                         own : [Ends -> Fds \cup {None}], mask : {"caller", "all", "empty"}]]
  /\ \A p \in Procs, e \in Ends : LET n == proc[p].own[e] IN
       n # None => proc[p].fds[n] = <<e>> /\ n \in proc[p].coe
  /\ die \in Seq(Codes) /\ pid \in Seq({"grandchild"})
  /\ answer \in Codes /\ failed \in [Procs -> Codes] /\ killed \subseteq Procs
  /\ pids \in [first : {"none", "child"}, second : {"none", "grandchild"}]

\* The call returns 0 only if the command runs in place of the process made for
\* it, or a signal ended a child before it could say anything; it returns an
\* error only if that call failed and the command never runs
\* (forkexec.cpp:199-205 and 265-272, read_die at 64-69).
AnswerIsTrue ==
  Returned =>
    IF answer = "success"
    THEN \/ At(Runner, "running")
         \/ Runner \in killed
         \/ "child" \in killed /\ ~Created(Runner)
    ELSE /\ ~At(Runner, "running")
         /\ \E p \in Procs : failed[p] = answer /\ answer # "none"

\* A process that exists is reported, so that it can be waited for: pid1 in any
\* case, pid2 unless the first child was killed before it wrote it; and no pid is
\* reported for a process that was not made (forkexec.cpp:190, 244, 266).
PidsAreTrue ==
  Returned =>
    /\ pids.first = "child" <=> Created("child")
    /\ pids.second = "grandchild" => Created("grandchild")
    /\ Created("grandchild") /\ "child" \notin killed => pids.second = "grandchild"

\* However the call ends, the program has the descriptors, the close-on-exec
\* flags and the signal mask it had before (forkexec.cpp:178-188 and 229-242).
CallerUnchanged ==
  Returned =>
    /\ proc["parent"].fds = AtCall
    /\ proc["parent"].coe = call.coe
    /\ proc["parent"].mask = "caller"

\* No source is a lower number of stdio that was itself redirected before.
Separate ==
  \A i \in Stdio : LET from == call.stdio[i] IN
    from \in Stdio /\ from < i => call.stdio[from] \in {None, from}

\* What the command should find at number n.
Expected(n) ==
  IF n \in Stdio /\ call.daemon THEN <<"null">>
  ELSE IF n \in Stdio /\ call.stdio[n] \notin {None, n} THEN <<"file", call.stdio[n]>>
  ELSE IF n \in call.coe THEN Free
  ELSE AtCall[n]

\* The command runs with signals unblocked, with stdio as asked, and with
\* nothing else than what the caller passes on; no end of the two pipes stays in
\* it or in a program another thread starts meanwhile (forkexec.cpp:112-151).
CommandSees ==
  /\ At(Runner, "running") =>
       /\ proc[Runner].mask = "empty"
       /\ Separate => \A n \in Fds : proc[Runner].fds[n] = Expected(n)
  /\ \A p \in Procs, e \in Ends \ {"null"} : At(p, "running") => ~HasFile(p, <<e>>)

\* The call returns although the command it started may run for ever, and
\* whichever process is killed: the reads of forkexec.cpp:66 and 100 end.
CallReturns == <>Returned

====
