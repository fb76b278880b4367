----------------------------- MODULE ForkExecProofs ----------------------------
(***************************************************************************)
(* Theorems about ForkExec for any descriptor table, any arguments and any *)
(* flags of the caller.                                                    *)
(***************************************************************************)
EXTENDS ForkExec, FiniteSetTheorems, WellFoundedInduction, TLAPS

----
(* The inductive invariant: the tables of the processes.                    *)

Record == [at : Places, fds : [Fds -> Files], coe : SUBSET Fds,
           own : [Ends -> Fds \cup {None}], mask : {"caller", "all", "empty"}]

Typed ==
  /\ call \in [daemon : BOOLEAN, stdio : [Stdio -> Sources], coe : Flags]
  /\ call.daemon => call.stdio = [i \in Stdio |-> None]
  /\ proc \in [Procs -> Record]
  /\ die \in Seq(Codes) /\ pid \in Seq({"grandchild"})
  /\ answer \in Codes /\ failed \in [Procs -> Places] /\ killed \subseteq Procs
  /\ pids \in [first : {"none", "child"}, second : {"none", "grandchild"}]

\* A member names a number that was free when the program called.
Members(r) ==
  \A e \in Ends : r.own[e] # None =>
    r.own[e] \notin Opened /\ r.fds[r.own[e]] = <<e>> /\ r.own[e] \in r.coe

\* Separate, of the arguments c.
Apart(c) ==
  \A i \in Stdio : LET from == c.stdio[i] IN
    from \in Stdio /\ from < i => c.stdio[from] \in {None, from}

\* The numbers of the program's own descriptors, those of stdio that were
\* redirected excepted, are what they were; any other number is a member's.
AsCalled(c, r, n) == r.fds[n] = <<"file", n>> /\ (n \in r.coe <=> n \in c.coe)

Redirected(c, r, i) ==
  IF c.daemon THEN r.fds[i] = <<"null">> /\ i \notin r.coe
  ELSE IF c.stdio[i] \in {None, i} THEN AsCalled(c, r, i)
  ELSE /\ \E m \in Opened : r.fds[i] = <<"file", m>>
       /\ i \notin r.coe
       /\ Apart(c) => r.fds[i] = <<"file", c.stdio[i]>>

Image(c, r, done) ==
  /\ \A n \in Opened : IF n \in done THEN Redirected(c, r, n) ELSE AsCalled(c, r, n)
  /\ \A n \in Fds \ Opened : r.fds[n] # Free \/ n \in r.coe => \E e \in Ends : r.own[e] = n

Done(place) ==
  IF place \in {"dup2_1", "null_1"} THEN {0}
  ELSE IF place \in {"dup2_2", "null_2"} THEN {0, 1}
  ELSE IF place \in {"close_null", "unblock", "exec"} THEN Stdio
  ELSE {}

\* A member gets a number once: it has none before.
WithNull == {"null_0", "null_1", "null_2", "close_null"}

Fresh(r) ==
  /\ r.at \in {"ready", "open_die", "returned", "none", "ended", "running"} => r.own = NoEnds
  /\ r.at = "open_pid" => r.own["pid_reader"] = None /\ r.own["pid_writer"] = None
  /\ r.own["null"] # None => r.at \in WithNull \cup {"die", "exit"}

\* Where a process has a table, and where it still knows what is in it.
AliveAt(place) == place \notin {"none", "ended", "running"}
SoundAt(place) == AliveAt(place) /\ place \notin {"die", "exit"}
Alive(p) == AliveAt(proc[p].at)

Row(c, r) ==
  /\ Fresh(r)
  /\ AliveAt(r.at) => Members(r)
  /\ SoundAt(r.at) => Image(c, r, Done(r.at))
  /\ r.at = "running" => \A n \in Fds, e \in Ends \ {"null"} : r.fds[n] # <<e>>

Tables == \A p \in Procs : Row(call, proc[p])

\* What the command got when it replaced the process.
Command ==
  At(Runner, "running") => proc[Runner].mask = "empty" /\ (Separate => \A n \in Fds : proc[Runner].fds[n] = Expected(n))

----
(* The inductive invariant: who is where, and what was said.                *)

Children == {"child", "grandchild"}

Where ==
  /\ proc["parent"].at \in {"ready", "open_die", "open_pid", "fork", "close_writers", "read_die",
                            "read_pid", "leave", "returned"}
  /\ proc["child"].at \in
       {"none", "close_readers", "die", "exit", "ended"} \cup
       IF call.daemon THEN {"setsid", "fork", "quit"}
       ELSE {"chdir", "dup2_0", "dup2_1", "dup2_2", "unblock", "exec", "running"}
  /\ proc["grandchild"].at \in
       {"none"} \cup
       IF call.daemon THEN {"close_pid_writer", "chdir", "open_null", "null_0", "null_1", "null_2",
                            "close_null", "unblock", "exec", "running", "die", "exit", "ended"}
       ELSE {}
  /\ proc["other"].at \in {"none", "other_exec", "running"}
  /\ \A p \in Children : proc[p].at \in {"exec", "running"} => proc[p].mask = "empty"
  /\ At("parent", "ready") => proc["parent"].mask = "caller"
  /\ At("parent", "returned") => proc["parent"].mask = "caller"

\* The first process is made by the caller, the second by the first, once.
Order ==
  /\ proc["parent"].at \in {"ready", "open_die", "open_pid", "fork"} => ~Created("child")
  /\ proc["parent"].at \in {"close_writers", "read_die", "read_pid"} => Created("child")
  /\ At("parent", "read_pid") => call.daemon
  /\ Created("grandchild") => proc["child"].at \in {"quit", "exit", "ended"} /\ failed["child"] = "none"
  /\ At("child", "quit") => Created("grandchild")
  /\ \A p \in Children :
       /\ failed[p] # "none" => proc[p].at \in {"die", "exit", "ended"}
       /\ At(p, "die") => failed[p] # "none"
       /\ p \in killed => At(p, "ended")

\* Whoever can still speak holds the writing end of the pipe.
Holders ==
  /\ At("parent", "open_pid") => proc["parent"].own["die_writer"] # None
  /\ At("parent", "fork") =>
       /\ proc["parent"].own["die_writer"] # None
       /\ call.daemon => proc["parent"].own["pid_writer"] # None
  /\ \A p \in Children : Alive(p) => proc[p].own["die_writer"] # None
  /\ Alive("child") /\ call.daemon => proc["child"].own["pid_writer"] # None
  /\ \A p \in Children :
       proc[p].at \in WithNull => proc[p].own["null"] # None

\* A process whose failure means that the command will never run.
Speaker(code) ==
  \E p \in Children :
    /\ failed[p] = code /\ code # "none"
    /\ proc[p].at \in {"exit", "ended"}
    /\ p = Runner \/ ~Created("grandchild")

CommandRan ==
  \/ At(Runner, "running")
  \/ Runner \in killed
  \/ "child" \in killed /\ ~Created(Runner)

Said ==
  /\ \A k \in DOMAIN die : Speaker(die[k])
  /\ \A p \in Children :
       proc[p].at \in {"exit", "ended"} /\ p \notin killed =>
         \/ p = "child" /\ Created("grandchild")
         \/ die # <<>>
         \/ answer # "none"
  /\ proc["parent"].at \in {"ready", "open_die", "open_pid", "fork", "close_writers", "read_die"} =>
       answer = "none"
  /\ proc["parent"].at \in {"read_pid", "leave", "returned"} =>
       \/ answer = "success" /\ CommandRan
       \/ answer \in Places \ {"none"} /\ failed["parent"] = answer /\ ~Created("child")
       \/ answer \in Places \ {"none"} /\ Speaker(answer)

Reported ==
  /\ pids.first = "child" <=> Created("child")
  /\ pid # <<>> \/ pids.second = "grandchild" => Created("grandchild")
  /\ proc["parent"].at \notin {"leave", "returned"} => pids.second = "none"
  /\ proc["child"].at \in {"exit", "ended"} /\ "child" \notin killed /\ Created("grandchild") =>
       pid # <<>> \/ pids.second = "grandchild"
  /\ proc["parent"].at \in {"leave", "returned"} =>
       \/ ~call.daemon \/ ~Created("child") \/ pids.second = "grandchild"
       \/ At("child", "ended") /\ ("child" \in killed \/ ~Created("grandchild"))

IInv == Typed /\ Tables /\ Command /\ Where /\ Order /\ Holders /\ Said /\ Reported
----
(* What descriptors refer to, and what the system calls do to a record.     *)

\* A file of the program, an end of a pipe and a free number are different.
LEMMA FilesDiffer ==
  /\ \A n, e : <<"file", n>> # <<e>> /\ <<"file", n>> # Free /\ <<e>> # Free
  /\ \A e, f : <<e>> = <<f>> => e = f
BY DEF Free

\* A nonempty set of numbers has a lowest one.
LEMMA LowestIn ==
  ASSUME NEW S, S \subseteq Nat, S # {}
  PROVE  Lowest(S) \in S
<1> DEFINE R == {ss \in Nat \X Nat : ss[1] < ss[2]}
<1>0. IsWellFoundedOn(R, Nat)
  BY NatLessThanWellFounded DEF OpToRel
<1>1. PICK n \in S : \A m \in S : ~(<<m, n>> \in R)
  BY <1>0, WFMin
<1>2. ASSUME NEW m \in S PROVE n <= m
  <2>1. <<m, n>> \in Nat \X Nat /\ ~(<<m, n>> \in R)
    BY <1>1
  <2>2. ~(m < n)
    BY <2>1
  <2> QED BY <2>2
<1> QED BY <1>2 DEF Lowest

\* Every number is one of the program or not, and None is no number.
LEMMA Numbers == Fds \subseteq Nat /\ Stdio \subseteq Opened /\ Opened \subseteq Fds /\ None \notin Fds
BY ForkExecAssumption DEF None

\* A record keeps what the move to another place does not change.
LEMMA MovedFields ==
  ASSUME NEW r \in Record, NEW place \in Places
  PROVE  LET s == [r EXCEPT !.at = place] IN
         s \in Record /\ s.at = place /\ s.fds = r.fds /\ s.coe = r.coe /\ s.own = r.own /\ s.mask = r.mask
BY DEF Record

\* The same of the signal mask.
LEMMA MaskFields ==
  ASSUME NEW r \in Record, NEW mask \in {"caller", "all", "empty"}
  PROVE  LET s == [r EXCEPT !.mask = mask] IN
         s \in Record /\ s.at = r.at /\ s.fds = r.fds /\ s.coe = r.coe /\ s.own = r.own /\ s.mask = mask
BY DEF Record

\* WithEnd opens the end e on a number that was free.
LEMMA WithEndFields ==
  ASSUME NEW r \in Record, NEW e \in Ends, FreeFds(r) # {}
  PROVE  LET s == WithEnd(r, e)
             n == Lowest(FreeFds(r))
         IN  /\ s \in Record /\ s.at = r.at /\ s.mask = r.mask
             /\ n \in Fds /\ r.fds[n] = Free
             /\ s.fds = [r.fds EXCEPT ![n] = <<e>>]
             /\ s.coe = r.coe \cup {n}
             /\ s.own = [r.own EXCEPT ![e] = n]
<1> DEFINE n == Lowest(FreeFds(r))
<1>1. FreeFds(r) \subseteq Nat
  BY Numbers DEF FreeFds
<1>2. n \in FreeFds(r)
  BY <1>1, LowestIn
<1>3. n \in Fds /\ r.fds[n] = Free
  BY <1>2 DEF FreeFds
<1>4. <<e>> \in Files
  BY DEF Files
<1> HIDE DEF n
<1>5. r \in Record => LET s == [r EXCEPT !.fds[n] = <<e>>, !.coe = @ \cup {n}, !.own[e] = n] IN
        /\ s \in Record /\ s.at = r.at /\ s.mask = r.mask
        /\ s.fds = [r.fds EXCEPT ![n] = <<e>>]
        /\ s.coe = r.coe \cup {n}
        /\ s.own = [r.own EXCEPT ![e] = n]
  BY <1>3, <1>4 DEF Record
<1>6. WithEnd(r, e) = [r EXCEPT !.fds[n] = <<e>>, !.coe = @ \cup {n}, !.own[e] = n]
  BY DEF WithEnd, n
<1> QED BY <1>3, <1>5, <1>6 DEF n

\* Without frees the numbers of the members in E.
LEMMA WithoutFields ==
  ASSUME NEW r \in Record, NEW E \in SUBSET Ends
  PROVE  LET s == Without(r, E)
             gone == {r.own[e] : e \in E}
         IN  /\ s \in Record /\ s.at = r.at /\ s.mask = r.mask
             /\ s.fds = [n \in Fds |-> IF n \in gone THEN Free ELSE r.fds[n]]
             /\ s.coe = r.coe \ gone
             /\ s.own = [e \in Ends |-> IF e \in E THEN None ELSE r.own[e]]
<1> DEFINE gone == {r.own[e] : e \in E}
           fds == [n \in Fds |-> IF n \in gone THEN Free ELSE r.fds[n]]
           own == [e \in Ends |-> IF e \in E THEN None ELSE r.own[e]]
<1>1. fds \in [Fds -> Files] /\ own \in [Ends -> Fds \cup {None}] /\ r.coe \ gone \subseteq Fds
  BY DEF Record, Files
<1>2. Without(r, E) = [r EXCEPT !.fds = fds, !.coe = r.coe \ gone, !.own = own]
  BY DEF Without, Record
<1> HIDE DEF fds, own, gone
<1>3. LET s == Without(r, E) IN
        s \in Record /\ s.at = r.at /\ s.mask = r.mask /\ s.fds = fds /\ s.coe = r.coe \ gone /\ s.own = own
  BY <1>1, <1>2 DEF Record
<1> QED BY <1>3 DEF fds, own, gone

\* Dup2 replaces what is at one number.
LEMMA Dup2Fields ==
  ASSUME NEW r \in Record, NEW from \in Fds, NEW to \in Fds, from # to
  PROVE  LET s == Dup2(r, from, to) IN
         /\ s \in Record /\ s.at = r.at /\ s.mask = r.mask /\ s.own = r.own
         /\ s.fds = [r.fds EXCEPT ![to] = r.fds[from]]
         /\ s.coe = r.coe \ {to}
<1>1. Dup2(r, from, to) = [at |-> r.at, fds |-> [r.fds EXCEPT ![to] = r.fds[from]], coe |-> r.coe \ {to},
                           own |-> r.own, mask |-> r.mask]
  BY DEF Dup2, Record
<1>2. [r.fds EXCEPT ![to] = r.fds[from]] \in [Fds -> Files]
  BY DEF Record
<1>3. Dup2(r, from, to) \in Record
  BY <1>1, <1>2 DEF Record
<1> QED BY <1>1, <1>3

\* It is still a process, with the members it had.
LEMMA Dup2Record ==
  \A r \in Record, from, to \in Fds :
    from # to => Dup2(r, from, to) \in Record /\ Dup2(r, from, to).own = r.own
<1> SUFFICES ASSUME NEW r \in Record, NEW from \in Fds, NEW to \in Fds, from # to
             PROVE  Dup2(r, from, to) \in Record /\ Dup2(r, from, to).own = r.own
  OBVIOUS
<1> QED BY Dup2Fields, ZenonT(60)

\* Executed closes what is close-on-exec.
LEMMA ExecutedFields ==
  ASSUME NEW r \in Record
  PROVE  LET s == Executed(r) IN
         /\ s \in Record /\ s.at = "running" /\ s.mask = r.mask /\ s.own = NoEnds /\ s.coe = {}
         /\ s.fds = [n \in Fds |-> IF n \in r.coe THEN Free ELSE r.fds[n]]
<1> DEFINE fds == [n \in Fds |-> IF n \in r.coe THEN Free ELSE r.fds[n]]
<1>1. fds \in [Fds -> Files] /\ NoEnds \in [Ends -> Fds \cup {None}] /\ "running" \in Places
  BY DEF Record, Files, NoEnds, Places
<1>2. Executed(r) = [r EXCEPT !.at = "running", !.coe = {}, !.own = NoEnds, !.fds = fds]
  BY DEF Executed, Record
<1> HIDE DEF fds
<1>3. LET s == Executed(r) IN
        s \in Record /\ s.at = "running" /\ s.mask = r.mask /\ s.own = NoEnds /\ s.coe = {} /\ s.fds = fds
  BY <1>1, <1>2 DEF Record
<1> QED BY <1>3 DEF fds

\* A process that was not made, or that ended.
LEMMA NobodyFields ==
  ASSUME NEW place \in Places
  PROVE  LET s == [Nobody EXCEPT !.at = place] IN
         s \in Record /\ s.at = place /\ s.own = NoEnds /\ s.mask = "all"
BY DEF Nobody, Record, NoEnds, Files, Places

----
(* What the system calls do to a table.                                     *)

\* A new member gets a number that is not the program's.
LEMMA WithEndTables ==
  ASSUME NEW c, NEW r \in Record, NEW e \in Ends, FreeFds(r) # {},
         r.own[e] = None, Members(r), Image(c, r, {})
  PROVE  Members(WithEnd(r, e)) /\ Image(c, WithEnd(r, e), {})
<1> DEFINE s == WithEnd(r, e)
           n == Lowest(FreeFds(r))
<1>1. /\ n \in Fds /\ r.fds[n] = Free
      /\ s.fds = [r.fds EXCEPT ![n] = <<e>>] /\ s.coe = r.coe \cup {n} /\ s.own = [r.own EXCEPT ![e] = n]
  BY WithEndFields
<1> HIDE DEF s, n
<1>2. n \notin Opened
  BY <1>1, FilesDiffer DEF Image, AsCalled
<1>3. \A f \in Ends : f # e => s.own[f] = r.own[f]
  BY <1>1
<1>4. s.own[e] = n /\ s.fds[n] = <<e>> /\ n \in s.coe
  BY <1>1 DEF Record
<1>5. \A m \in Fds : m # n => s.fds[m] = r.fds[m] /\ (m \in s.coe <=> m \in r.coe)
  BY <1>1
<1>6. ASSUME NEW f \in Ends, s.own[f] # None
      PROVE  s.own[f] \notin Opened /\ s.fds[s.own[f]] = <<f>> /\ s.own[f] \in s.coe
  <2>1. CASE f = e
    BY <1>2, <1>4, <2>1
  <2>2. CASE f # e
    <3>1. r.own[f] # None /\ r.own[f] \in Fds /\ r.fds[r.own[f]] = <<f>> /\ r.own[f] \notin Opened /\ r.own[f] \in r.coe
      BY <1>3, <1>6, <2>2 DEF Members, Record
    <3>2. r.own[f] # n
      BY <1>1, <3>1, FilesDiffer
    <3> QED BY <1>3, <1>5, <2>2, <3>1, <3>2
  <2> QED BY <2>1, <2>2
<1>7. \A m \in Opened : AsCalled(c, s, m)
  BY <1>2, <1>5, Numbers DEF Image, AsCalled
<1>8. ASSUME NEW m \in Fds \ Opened, s.fds[m] # Free \/ m \in s.coe
      PROVE  \E f \in Ends : s.own[f] = m
  <2>1. CASE m = n
    BY <1>4, <2>1
  <2>2. CASE m # n
    <3>1. PICK f \in Ends : r.own[f] = m
      BY <1>5, <1>8, <2>2 DEF Image
    <3>2. f # e
      BY <3>1, Numbers
    <3> QED BY <1>3, <3>1, <3>2
  <2> QED BY <2>1, <2>2
<1>9. Members(s)
  BY <1>6 DEF Members
<1>10. Image(c, s, {})
  BY <1>7, <1>8 DEF Image
<1> QED BY <1>9, <1>10 DEF s

\* Closed members leave the program's numbers and the other members alone.
LEMMA WithoutTables ==
  ASSUME NEW c, NEW r \in Record, NEW E \in SUBSET Ends, Members(r)
  PROVE  /\ Members(Without(r, E))
         /\ \A done \in SUBSET Stdio : Image(c, r, done) => Image(c, Without(r, E), done)
<1> DEFINE s == Without(r, E)
           gone == {r.own[e] : e \in E}
<1>1. /\ s.fds = [n \in Fds |-> IF n \in gone THEN Free ELSE r.fds[n]]
      /\ s.coe = r.coe \ gone
      /\ s.own = [e \in Ends |-> IF e \in E THEN None ELSE r.own[e]]
  BY WithoutFields
<1> HIDE DEF s
<1>2. \A n \in Fds \cap gone : n \notin Opened
  BY Numbers DEF Members
<1>3. \A n \in Opened : s.fds[n] = r.fds[n] /\ (n \in s.coe <=> n \in r.coe)
  BY <1>1, <1>2, Numbers
<1>4. ASSUME NEW e \in Ends, s.own[e] # None
      PROVE  s.own[e] \notin Opened /\ s.fds[s.own[e]] = <<e>> /\ s.own[e] \in s.coe
  <2>1. e \notin E /\ s.own[e] = r.own[e]
    BY <1>1, <1>4
  <2>2. r.own[e] \in Fds /\ r.fds[r.own[e]] = <<e>> /\ r.own[e] \notin Opened /\ r.own[e] \in r.coe
    BY <1>4, <2>1 DEF Members, Record
  <2>3. ASSUME NEW f \in E, r.own[f] = r.own[e] PROVE FALSE
    <3>1. r.fds[r.own[e]] = <<f>>
      BY <1>4, <2>1, <2>3 DEF Members
    <3> QED BY <2>1, <2>2, <2>3, <3>1, FilesDiffer
  <2>4. r.own[e] \notin gone
    BY <2>3
  <2> QED BY <1>1, <2>1, <2>2, <2>4
<1>5. Members(s)
  BY <1>4 DEF Members
<1>6. ASSUME NEW done \in SUBSET Stdio, Image(c, r, done) PROVE Image(c, s, done)
  <2>1. \A n \in Opened : (AsCalled(c, r, n) => AsCalled(c, s, n)) /\ (Redirected(c, r, n) => Redirected(c, s, n))
    BY <1>3 DEF AsCalled, Redirected
  <2>2. ASSUME NEW n \in Fds \ Opened, s.fds[n] # Free \/ n \in s.coe
        PROVE  \E e \in Ends : s.own[e] = n
    <3>1. n \notin gone /\ (r.fds[n] # Free \/ n \in r.coe)
      BY <1>1, <2>2
    <3>2. PICK e \in Ends : r.own[e] = n
      BY <1>6, <3>1 DEF Image
    <3> QED BY <1>1, <3>1, <3>2
  <2> QED BY <1>6, <2>1, <2>2 DEF Image
<1> QED BY <1>5, <1>6 DEF s

\* dup2 onto a number of stdio never hits a member.
LEMMA Dup2Members ==
  ASSUME NEW r \in Record, NEW from \in Fds, NEW to \in Stdio, Members(r)
  PROVE  Members(Dup2(r, from, to))
<1>1. CASE from = to
  BY <1>1 DEF Dup2
<1>2. CASE from # to
  <2> DEFINE s == Dup2(r, from, to)
  <2>1. s.own = r.own /\ s.fds = [r.fds EXCEPT ![to] = r.fds[from]] /\ s.coe = r.coe \ {to}
    BY <1>2, Dup2Fields, Numbers
  <2> HIDE DEF s
  <2>2. Members(s)
    BY <2>1, Numbers DEF Members, Record
  <2> QED BY <2>2 DEF s
<1> QED BY <1>1, <1>2

\* The redirection of number i, of forkexec: what it takes is a file of the program.
LEMMA RedirectImage ==
  ASSUME NEW c, NEW r \in Record, NEW i \in Stdio,
         c.stdio \in [Stdio -> Sources], ~c.daemon, Image(c, r, 0..(i - 1)),
         c.stdio[i] # None => c.stdio[i] \in Fds /\ r.fds[c.stdio[i]] # Free
  PROVE  Image(c, IF c.stdio[i] = None THEN r ELSE Dup2(r, c.stdio[i], i), 0..i)
<1> DEFINE from == c.stdio[i]
           s == IF from = None THEN r ELSE Dup2(r, from, i)
<1>1. i \in Opened /\ i \in 0..2 /\ 0..i = 0..(i - 1) \cup {i} /\ i \notin 0..(i - 1)
  BY Numbers DEF Stdio
<1>2. AsCalled(c, r, i)
  BY <1>1 DEF Image
<1>3. CASE from \in {None, i}
  <2>1. s = r
    BY <1>3 DEF Dup2
  <2>2. Redirected(c, r, i)
    BY <1>2, <1>3 DEF Redirected
  <2>3. Image(c, r, 0..i)
    BY <1>1, <2>2 DEF Image
  <2> QED BY <2>1, <2>3
<1>4. CASE from \notin {None, i}
  <2>1. from \in Opened
    BY <1>4, ForkExecAssumption
  <2>2. s.own = r.own /\ s.fds = [r.fds EXCEPT ![i] = r.fds[from]] /\ s.coe = r.coe \ {i}
    <3>1. from \in Fds /\ i \in Fds /\ from # i /\ s = Dup2(r, from, i)
      BY <1>1, <1>4, Numbers
    <3> HIDE DEF from, s
    <3> QED BY <3>1, Dup2Fields
  <2> HIDE DEF s
  <2>3. \A n \in Fds : n # i => s.fds[n] = r.fds[n] /\ (n \in s.coe <=> n \in r.coe)
    BY <2>2
  <2>4. s.fds[i] = r.fds[from] /\ i \notin s.coe
    BY <1>1, <2>2, Numbers DEF Record
  <2>5. Redirected(c, s, i)
    <3>1. \E m \in Opened : r.fds[from] = <<"file", m>>
      <4>1. CASE from \in 0..(i - 1)
        BY <2>1, <4>1 DEF Image, Redirected, AsCalled
      <4>2. CASE from \notin 0..(i - 1)
        BY <2>1, <4>2 DEF Image, AsCalled
      <4> QED BY <4>1, <4>2
    <3>2. Apart(c) => r.fds[from] = <<"file", from>>
      <4>1. CASE from \in 0..(i - 1)
        <5>1. from \in Stdio /\ from < i
          BY <1>1, <4>1 DEF Stdio
        <5> QED BY <2>1, <4>1, <5>1 DEF Image, Apart, Redirected, AsCalled
      <4>2. CASE from \notin 0..(i - 1)
        BY <2>1, <4>2 DEF Image, AsCalled
      <4> QED BY <4>1, <4>2
    <3> QED BY <1>4, <2>4, <3>1, <3>2 DEF Redirected
  <2>6. \A n \in Opened : n # i => (AsCalled(c, r, n) => AsCalled(c, s, n)) /\ (Redirected(c, r, n) => Redirected(c, s, n))
    BY <2>3, Numbers DEF AsCalled, Redirected
  <2>7. \A n \in Opened : IF n \in 0..i THEN Redirected(c, s, n) ELSE AsCalled(c, s, n)
    BY <1>1, <2>5, <2>6 DEF Image
  <2>8. \A n \in Fds \ Opened : s.fds[n] # Free \/ n \in s.coe => \E e \in Ends : s.own[e] = n
    BY <1>1, <2>2, <2>3 DEF Image
  <2>9. Image(c, s, 0..i)
    BY <2>7, <2>8 DEF Image
  <2> QED BY <2>9 DEF s
<1> QED BY <1>3, <1>4

\* The redirection of number i to /dev/null, of forkexec_daemon.
LEMMA RedirectNullImage ==
  ASSUME NEW c, NEW r \in Record, NEW i \in Stdio, c.daemon, Image(c, r, 0..(i - 1)),
         Members(r), r.own["null"] # None
  PROVE  Image(c, Dup2(r, r.own["null"], i), 0..i)
<1> DEFINE from == r.own["null"]
           s == Dup2(r, from, i)
<1>1. i \in Opened /\ 0..i = 0..(i - 1) \cup {i}
  BY Numbers DEF Stdio
<1>2. from \in Fds /\ from \notin Opened /\ r.fds[from] = <<"null">>
  BY DEF Members, Record, Ends
<1>3. s.own = r.own /\ s.fds = [r.fds EXCEPT ![i] = r.fds[from]] /\ s.coe = r.coe \ {i}
  <2>1. i \in Fds /\ from # i
    BY <1>1, <1>2, Numbers
  <2> HIDE DEF from
  <2> QED BY <1>2, <2>1, Dup2Fields
<1> HIDE DEF s
<1>4. \A n \in Fds : n # i => s.fds[n] = r.fds[n] /\ (n \in s.coe <=> n \in r.coe)
  BY <1>3
<1>5. Redirected(c, s, i)
  BY <1>1, <1>2, <1>3, Numbers DEF Redirected, Record
<1>6. \A n \in Opened : n # i => (AsCalled(c, r, n) => AsCalled(c, s, n)) /\ (Redirected(c, r, n) => Redirected(c, s, n))
  BY <1>4, Numbers DEF AsCalled, Redirected
<1>7. \A n \in Opened : IF n \in 0..i THEN Redirected(c, s, n) ELSE AsCalled(c, s, n)
  BY <1>1, <1>5, <1>6 DEF Image
<1>8. \A n \in Fds \ Opened : s.fds[n] # Free \/ n \in s.coe => \E e \in Ends : s.own[e] = n
  BY <1>1, <1>3, <1>4 DEF Image
<1>9. Image(c, s, 0..i)
  BY <1>7, <1>8 DEF Image
<1> QED BY <1>9 DEF s

\* After exec no end of a pipe is left, whatever was redirected before.
LEMMA ExecutedTable ==
  ASSUME NEW c, NEW r \in Record, NEW done \in SUBSET Stdio, Members(r), Image(c, r, done)
  PROVE  /\ \A n \in Fds \ Opened : Executed(r).fds[n] = Free
         /\ \A n \in Fds, e \in Ends \ {"null"} : Executed(r).fds[n] # <<e>>
<1> DEFINE s == Executed(r)
<1>1. s.fds = [n \in Fds |-> IF n \in r.coe THEN Free ELSE r.fds[n]]
  BY ExecutedFields
<1> HIDE DEF s
<1>2. \A n \in Fds \ Opened : s.fds[n] = Free
  <2>1. SUFFICES ASSUME NEW n \in Fds \ Opened, n \notin r.coe PROVE r.fds[n] = Free
    BY <1>1
  <2>2. \A e \in Ends : r.own[e] = n => r.own[e] # None
    BY Numbers
  <2> QED BY <2>1, <2>2 DEF Image, Members
<1>3. \A n \in Opened : (\E m \in Opened : r.fds[n] = <<"file", m>>) \/ r.fds[n] = <<"null">>
  BY DEF Image, Redirected, AsCalled
<1>4. ASSUME NEW n \in Opened, NEW e \in Ends \ {"null"} PROVE s.fds[n] # <<e>>
  <2>1. r.fds[n] # <<e>>
    BY <1>3, FilesDiffer
  <2> QED BY <1>1, <2>1, FilesDiffer, Numbers
<1>5. \A n \in Fds, e \in Ends \ {"null"} : s.fds[n] # <<e>>
  BY <1>2, <1>4, FilesDiffer
<1> QED BY <1>2, <1>5 DEF s

\* Two numbers for a pipe.
LEMMA TwoFree ==
  ASSUME NEW r \in Record, NEW e \in Ends, Cardinality(FreeFds(r)) >= 2
  PROVE  FreeFds(r) # {} /\ FreeFds(WithEnd(r, e)) # {}
<1> DEFINE n == Lowest(FreeFds(r))
<1>1. IsFiniteSet(FreeFds(r))
  <2>1. FreeFds(r) \subseteq Fds
    BY DEF FreeFds
  <2> QED BY <2>1, ForkExecAssumption, FS_Subset
<1>2. FreeFds(r) # {}
  BY FS_EmptySet
<1>3. /\ n \in Fds /\ r.fds[n] = Free
      /\ WithEnd(r, e).fds = [r.fds EXCEPT ![n] = <<e>>]
  BY <1>2, WithEndFields
<1> HIDE DEF n
<1>4. FreeFds(r) \ {n} \subseteq FreeFds(WithEnd(r, e))
  BY <1>3 DEF FreeFds
<1>5. n \in FreeFds(r)
  BY <1>3 DEF FreeFds
<1>6. Cardinality(FreeFds(r) \ {n}) = Cardinality(FreeFds(r)) - 1 /\ Cardinality(FreeFds(r)) \in Nat
      /\ IsFiniteSet(FreeFds(r) \ {n})
  BY <1>1, <1>5, FS_RemoveElement, FS_CardinalityType
<1>7. FreeFds(r) \ {n} # {}
  BY <1>6, FS_EmptySet
<1> QED BY <1>2, <1>4, <1>7

----
(* The tables of the processes, step by step.                               *)

\* A process arrives at a place with a table that is as it should be there.
LEMMA Placed ==
  ASSUME NEW c, NEW x \in Record, NEW place \in Places, Members(x),
         SoundAt(place) => Image(c, x, Done(place)),
         place \in {"ready", "open_die", "returned"} => x.own = NoEnds,
         place = "open_pid" => x.own["pid_reader"] = None /\ x.own["pid_writer"] = None,
         x.own["null"] # None => place \in WithNull \cup {"die", "exit"},
         AliveAt(place)
  PROVE  Row(c, [x EXCEPT !.at = place]) /\ [x EXCEPT !.at = place] \in Record
<1> DEFINE s == [x EXCEPT !.at = place]
<1>1. s \in Record /\ s.at = place /\ s.fds = x.fds /\ s.coe = x.coe /\ s.own = x.own
  BY MovedFields
<1> HIDE DEF s
<1>2. Fresh(s)
  BY <1>1 DEF Fresh, AliveAt
<1>3. Members(s)
  BY <1>1 DEF Members
<1>4. SoundAt(s.at) => Image(c, s, Done(s.at))
  BY <1>1 DEF Image, AsCalled, Redirected
<1>5. s.at # "running"
  BY <1>1 DEF AliveAt
<1>6. Row(c, s)
  BY <1>2, <1>3, <1>4, <1>5 DEF Row
<1> QED BY <1>1, <1>6 DEF s

\* A process that was not made or that ended.
LEMMA EndedRow ==
  ASSUME NEW c, NEW place \in {"none", "ended"}
  PROVE  Row(c, [Nobody EXCEPT !.at = place]) /\ [Nobody EXCEPT !.at = place] \in Record
<1> DEFINE s == [Nobody EXCEPT !.at = place]
<1>1. s \in Record /\ s.at = place /\ s.own = NoEnds
  <2>1. place \in Places
    BY DEF Places
  <2> QED BY <2>1, NobodyFields
<1> HIDE DEF s
<1>2. Row(c, s)
  BY <1>1 DEF Row, Fresh, AliveAt, SoundAt, NoEnds, Ends
<1> QED BY <1>1, <1>2 DEF s

\* A process that runs a program.
LEMMA RunningRow ==
  ASSUME NEW c, NEW r \in Record, NEW done \in SUBSET Stdio, Members(r), Image(c, r, done)
  PROVE  Row(c, Executed(r)) /\ Executed(r) \in Record
<1>1. Executed(r) \in Record /\ Executed(r).at = "running" /\ Executed(r).own = NoEnds
  BY ExecutedFields
<1>2. \A n \in Fds, e \in Ends \ {"null"} : Executed(r).fds[n] # <<e>>
  BY ExecutedTable
<1> QED BY <1>1, <1>2 DEF Row, Fresh, AliveAt, SoundAt, NoEnds, Ends

\* One process changes.
LEMMA OneChanges ==
  ASSUME Typed, Tables, call' = call, NEW p \in Procs, NEW s, proc' = [proc EXCEPT ![p] = s],
         Row(call, s), s \in Record
  PROVE  proc' \in [Procs -> Record] /\ Tables'
<1>1. proc' \in [Procs -> Record]
  BY DEF Typed
<1>2. \A q \in Procs : proc'[q] = IF q = p THEN s ELSE proc[q]
  BY DEF Typed
<1>3. \A q \in Procs : Row(call', proc'[q])
  BY <1>2 DEF Tables
<1> QED BY <1>1, <1>3 DEF Tables

\* A process makes another one with its own table.
LEMMA TwoChange ==
  ASSUME Typed, Tables, call' = call, NEW p \in Procs, NEW q \in Procs \ {p}, NEW place, NEW start,
         Fork(p, place, q, start),
         Row(call, [proc[p] EXCEPT !.at = place]), [proc[p] EXCEPT !.at = place] \in Record,
         Row(call, [proc[p] EXCEPT !.at = start]), [proc[p] EXCEPT !.at = start] \in Record
  PROVE  proc' \in [Procs -> Record] /\ Tables'
<1>1. proc' = [proc EXCEPT ![p] = [proc[p] EXCEPT !.at = place], ![q] = [proc[p] EXCEPT !.at = start]]
  BY DEF Fork, Typed
<1> DEFINE s == [proc[p] EXCEPT !.at = place]
           t == [proc[p] EXCEPT !.at = start]
<1> HIDE DEF s, t
<1>2. \A o \in Procs : proc'[o] = IF o = q THEN t ELSE IF o = p THEN s ELSE proc[o]
  BY <1>1 DEF Typed, s, t
<1>3. proc' \in [Procs -> Record]
  <2>1. s \in Record /\ t \in Record
    BY DEF s, t
  <2> QED BY <1>1, <2>1 DEF Typed, s, t
<1>4. \A o \in Procs : Row(call', proc'[o])
  <2>1. Row(call, s) /\ Row(call, t)
    BY DEF s, t
  <2> QED BY <1>2, <2>1 DEF Tables
<1> QED BY <1>3, <1>4 DEF Tables

\* All of that about a new member, and about closed members.
LEMMA Opens ==
  ASSUME NEW c, NEW r \in Record, NEW e \in Ends, FreeFds(r) # {},
         r.own[e] = None, Members(r), Image(c, r, {})
  PROVE  /\ WithEnd(r, e) \in Record /\ WithEnd(r, e).at = r.at /\ WithEnd(r, e).mask = r.mask
         /\ Members(WithEnd(r, e)) /\ Image(c, WithEnd(r, e), {})
         /\ WithEnd(r, e).own[e] # None
         /\ \A f \in Ends \ {e} : WithEnd(r, e).own[f] = r.own[f]
<1> DEFINE n == Lowest(FreeFds(r))
<1>1. WithEnd(r, e) \in Record /\ WithEnd(r, e).at = r.at /\ WithEnd(r, e).mask = r.mask
  BY WithEndFields
<1>2. n \in Fds /\ WithEnd(r, e).own = [r.own EXCEPT ![e] = n]
  BY WithEndFields
<1> HIDE DEF n
<1>3. WithEnd(r, e).own[e] # None /\ \A f \in Ends \ {e} : WithEnd(r, e).own[f] = r.own[f]
  BY <1>2, Numbers DEF Record
<1> QED BY <1>1, <1>3, WithEndTables

\* Closing members keeps the types, the members that stay and the image.
LEMMA Closes ==
  ASSUME NEW c, NEW r \in Record, NEW E \in SUBSET Ends, NEW done \in SUBSET Stdio,
         Members(r), Image(c, r, done)
  PROVE  /\ Without(r, E) \in Record /\ Without(r, E).at = r.at /\ Without(r, E).mask = r.mask
         /\ Members(Without(r, E)) /\ Image(c, Without(r, E), done)
BY WithoutFields, WithoutTables

\* Without forgets the numbers of the members in E, and of no other.
LEMMA Forgets ==
  ASSUME NEW r \in Record, NEW E \in SUBSET Ends
  PROVE  /\ \A e \in E : Without(r, E).own[e] = None
         /\ \A e \in Ends : e \notin E => Without(r, E).own[e] = r.own[e]
         /\ \A e \in Ends : r.own[e] = None => Without(r, E).own[e] = None
<1>1. Without(r, E).own = [e \in Ends |-> IF e \in E THEN None ELSE r.own[e]]
  BY WithoutFields
<1> QED BY <1>1

\* A process moves on, with the table x.
LEMMA Moves ==
  ASSUME Typed, Tables, call' = call, NEW p \in Procs, NEW x \in Record, NEW place \in Places, To(p, place, x),
         Members(x), SoundAt(place) => Image(call, x, Done(place)), AliveAt(place),
         place \in {"ready", "open_die", "returned"} => x.own = NoEnds,
         place = "open_pid" => x.own["pid_reader"] = None /\ x.own["pid_writer"] = None,
         x.own["null"] # None => place \in WithNull \cup {"die", "exit"}
  PROVE  proc' \in [Procs -> Record] /\ Tables'
<1> DEFINE s == [x EXCEPT !.at = place]
<1>1. Row(call, s) /\ s \in Record
  BY Placed
<1>2. proc' = [proc EXCEPT ![p] = s]
  BY DEF To
<1> HIDE DEF s
<1> QED BY <1>1, <1>2, OneChanges

\* The steps of the caller.
LEMMA ParentTables ==
  ASSUME IInv, ParentStep
  PROVE  call' = call /\ proc' \in [Procs -> Record] /\ Tables'
<1> DEFINE r == proc["parent"]
           Goal == proc' \in [Procs -> Record] /\ Tables'
<1>0. Typed /\ Tables /\ "parent" \in Procs
  BY DEF IInv, Procs
<1>1. call' = call
  BY DEF ParentStep, BlockSignals, OpenDie, OpenPid, OpenPipe, ForkChild, ParentFails, CloseWriters, ReadDie,
         ReadPid, Leave
<1> SUFFICES Goal
  BY <1>1
<1>2. r \in Record /\ Row(call, r)
  BY <1>0 DEF Typed, Tables
<1>3. r.at \in {"ready", "open_die", "open_pid", "fork", "close_writers", "read_die", "read_pid", "leave",
                "returned"}
  BY DEF IInv, Where
<1>4. Members(r) /\ Image(call, r, {}) /\ r.own["null"] = None
  BY <1>2, <1>3 DEF Row, Fresh, SoundAt, AliveAt, Done, WithNull
<1> HIDE DEF r, Goal
<1>5. ASSUME NEW x \in Record, NEW place, To("parent", place, x), Members(x), Image(call, x, {}),
             place \in {"open_die", "open_pid", "fork", "read_die", "read_pid", "leave", "returned"},
             place \in {"open_die", "returned"} => x.own = NoEnds,
             place = "open_pid" => x.own["pid_reader"] = None /\ x.own["pid_writer"] = None,
             x.own["null"] = None
      PROVE  Goal
  <2>1. AliveAt(place) /\ Done(place) = {} /\ place # "ready" /\ place \in Places
    BY <1>5 DEF AliveAt, Done, Places
  <2> QED BY <1>0, <1>1, <1>5, <2>1, Moves DEF Goal
<1>6. ASSUME NEW E \in SUBSET Ends
      PROVE  /\ Without(r, E) \in Record /\ Members(Without(r, E)) /\ Image(call, Without(r, E), {})
             /\ \A e \in E : Without(r, E).own[e] = None
             /\ Without(r, E).own["null"] = None
  <2>1. {} \in SUBSET Stdio
    OBVIOUS
  <2>2. Without(r, E) \in Record
    BY <1>2, <1>4, <2>1, Closes
  <2>3. Members(Without(r, E)) /\ Image(call, Without(r, E), {})
    BY <1>2, <1>4, <2>1, Closes
  <2>4. (\A e \in E : Without(r, E).own[e] = None)
        /\ (\A e \in Ends : r.own[e] = None => Without(r, E).own[e] = None)
    BY <1>2, Forgets
  <2> QED BY <1>4, <2>2, <2>3, <2>4 DEF Ends
<1>7. CASE BlockSignals
  <2> DEFINE x == [r EXCEPT !.mask = "all"]
  <2>1. x \in Record /\ x.fds = r.fds /\ x.coe = r.coe /\ x.own = r.own
    BY <1>2, MaskFields
  <2>2. r.own = NoEnds
    BY <1>2, <1>7 DEF BlockSignals, At, r, Row, Fresh
  <2>3. To("parent", "open_die", x)
    BY <1>7 DEF BlockSignals, r
  <2> HIDE DEF x
  <2>4. Members(x) /\ Image(call, x, {})
    BY <1>4, <2>1 DEF Members, Image, AsCalled, Redirected
  <2> QED BY <1>4, <1>5, <2>1, <2>2, <2>3, <2>4 DEF Places
<1>8. ASSUME NEW place, NEW reader \in Ends \ {"null"}, NEW writer \in Ends \ {"null"}, reader # writer,
             NEW next \in {"open_pid", "fork"}, OpenPipe(place, reader, writer, next),
             r.own[reader] = None, r.own[writer] = None,
             next = "open_pid" =>
               /\ r.own["pid_reader"] = None /\ r.own["pid_writer"] = None
               /\ {reader, writer} \cap {"pid_reader", "pid_writer"} = {}
      PROVE  Goal
  <2> DEFINE y == WithEnd(r, reader)
             x == WithEnd(y, writer)
  <2>1. Cardinality(FreeFds(r)) >= 2 /\ To("parent", next, x)
    BY <1>8 DEF OpenPipe, r
  <2>2. FreeFds(r) # {} /\ FreeFds(y) # {}
    BY <1>2, <2>1, TwoFree
  <2>3. /\ y \in Record /\ Members(y) /\ Image(call, y, {})
        /\ \A e \in Ends \ {reader} : y.own[e] = r.own[e]
    BY <1>2, <1>4, <1>8, <2>2, Opens
  <2> HIDE DEF y
  <2>4. /\ x \in Record /\ Members(x) /\ Image(call, x, {})
        /\ \A e \in Ends \ {writer} : x.own[e] = y.own[e]
    BY <1>8, <2>2, <2>3, Opens
  <2> HIDE DEF x
  <2>5. x.own["null"] = None
        /\ (next = "open_pid" => x.own["pid_reader"] = None /\ x.own["pid_writer"] = None)
    BY <1>4, <1>8, <2>3, <2>4 DEF Ends
  <2> QED BY <1>5, <1>8, <2>1, <2>4, <2>5
<1>9. CASE OpenDie
  <2>1. r.own = NoEnds
    BY <1>2, <1>9 DEF OpenDie, OpenPipe, At, r, Row, Fresh
  <2> QED BY <1>8, <1>9, <2>1 DEF OpenDie, NoEnds, Ends
<1>10. CASE OpenPid
  <2>1. r.own["pid_reader"] = None /\ r.own["pid_writer"] = None
    BY <1>2, <1>10 DEF OpenPid, OpenPipe, At, r, Row, Fresh
  <2> QED BY <1>8, <1>10, <2>1 DEF OpenPid, Ends
<1>11. CASE ForkChild
  <2>1. ASSUME NEW place \in {"close_writers", "close_readers"}
        PROVE  Row(call, [r EXCEPT !.at = place]) /\ [r EXCEPT !.at = place] \in Record
    <3>1. place \in Places /\ AliveAt(place) /\ Done(place) = {}
      BY DEF Places, AliveAt, Done
    <3> QED BY <1>2, <1>4, <3>1, Placed
  <2> QED BY <1>0, <1>1, <1>11, <2>1, TwoChange DEF ForkChild, Goal, r, Procs
<1>12. CASE ParentFails
  <2>1. To("parent", "leave", r)
    BY <1>12 DEF ParentFails, r
  <2> QED BY <1>2, <1>4, <1>5, <2>1
<1>13. CASE CloseWriters
  <2>1. To("parent", "read_die", Without(r, {"die_writer", "pid_writer"}))
    BY <1>13 DEF CloseWriters, r
  <2>2. {"die_writer", "pid_writer"} \in SUBSET Ends
    BY DEF Ends
  <2> QED BY <1>5, <1>6, <2>1, <2>2
<1>14. CASE ReadDie
  <2>1. PICK place \in {"read_pid", "leave"} : To("parent", place, Without(r, {"die_reader"}))
    BY <1>14 DEF ReadDie, r
  <2>2. {"die_reader"} \in SUBSET Ends
    BY DEF Ends
  <2> QED BY <1>5, <1>6, <2>1, <2>2
<1>15. CASE ReadPid
  <2>1. To("parent", "leave", Without(r, {"pid_reader"}))
    BY <1>15 DEF ReadPid, r
  <2>2. {"pid_reader"} \in SUBSET Ends
    BY DEF Ends
  <2> QED BY <1>5, <1>6, <2>1, <2>2
<1>16. CASE Leave
  <2> DEFINE y == Without(r, Ends)
             x == [y EXCEPT !.mask = "caller"]
  <2>1. /\ y \in Record /\ Members(y) /\ Image(call, y, {}) /\ y.own = NoEnds /\ y.own["null"] = None
    BY <1>6 DEF NoEnds, Record
  <2>2. To("parent", "returned", x)
    BY <1>16 DEF Leave, r
  <2> HIDE DEF y
  <2>3. x \in Record /\ x.fds = y.fds /\ x.coe = y.coe /\ x.own = y.own
    BY <2>1, MaskFields
  <2> HIDE DEF x
  <2>4. Members(x) /\ Image(call, x, {})
    BY <2>1, <2>3 DEF Members, Image, AsCalled, Redirected
  <2> QED BY <1>5, <2>1, <2>2, <2>3, <2>4 DEF Places
<1> QED BY <1>7, <1>9, <1>10, <1>11, <1>12, <1>13, <1>14, <1>15, <1>16 DEF ParentStep

\* What is known of the table of a process where it is.
LEMMA TableAt ==
  ASSUME Typed, Tables, NEW p \in Procs, AliveAt(proc[p].at)
  PROVE  /\ proc[p] \in Record /\ Members(proc[p])
         /\ SoundAt(proc[p].at) => Image(call, proc[p], Done(proc[p].at))
         /\ proc[p].at \notin WithNull \cup {"die", "exit"} => proc[p].own["null"] = None
BY DEF Typed, Tables, Row, Fresh

\* A step that leaves the table alone, between two places with the same table.
LEMMA Stays ==
  ASSUME Typed, Tables, call' = call, NEW p \in Procs, NEW place \in Places, To(p, place, proc[p]),
         AliveAt(proc[p].at), AliveAt(place),
         SoundAt(place) => SoundAt(proc[p].at) /\ Done(place) = Done(proc[p].at),
         place \notin {"ready", "open_die", "open_pid", "returned"},
         place \in {"die", "exit"} \/ (proc[p].at \notin WithNull \cup {"die", "exit"})
  PROVE  proc' \in [Procs -> Record] /\ Tables'
BY TableAt, Moves

\* The steps of the two children before one of them becomes the command.
LEMMA DaemonTables ==
  ASSUME IInv, DaemonStep
  PROVE  call' = call /\ proc' \in [Procs -> Record] /\ Tables'
<1> DEFINE Goal == proc' \in [Procs -> Record] /\ Tables'
<1>0. Typed /\ Tables /\ "child" \in Procs /\ "grandchild" \in Procs
  BY DEF IInv, Procs
<1>1. call' = call
  BY DEF DaemonStep, ChildClosesReaders, SetSid, ForkGrandchild, Quit, GrandchildClosesPidWriter
<1> SUFFICES Goal
  BY <1>1
<1> HIDE DEF Goal
<1>2. ASSUME NEW p \in Procs, NEW E \in SUBSET Ends, NEW place \in {"setsid", "chdir"},
             proc[p].at \in {"close_readers", "close_pid_writer"}, To(p, place, Without(proc[p], E))
      PROVE  Goal
  <2> DEFINE x == Without(proc[p], E)
             none == {}
  <2>1. AliveAt(proc[p].at) /\ SoundAt(proc[p].at) /\ Done(proc[p].at) = {} /\ proc[p].at \notin WithNull \cup {"die", "exit"}
    BY <1>2 DEF AliveAt, SoundAt, Done, WithNull
  <2>2. proc[p] \in Record /\ Members(proc[p]) /\ Image(call, proc[p], none) /\ proc[p].own["null"] = None
    BY <1>0, <2>1, TableAt
  <2>3. none \in SUBSET Stdio
    OBVIOUS
  <2>4. AliveAt(place) /\ Done(place) = none /\ place \in Places /\ place \notin {"ready", "open_die", "returned", "open_pid"}
    BY DEF AliveAt, Done, Places
  <2> HIDE DEF none
  <2>5. x \in Record /\ Members(x) /\ Image(call, x, none)
    BY <2>2, <2>3, Closes
  <2>6. x.own["null"] = None
    <3>1. "null" \in Ends
      BY DEF Ends
    <3> QED BY <2>2, <3>1, Forgets
  <2>7. To(p, place, x)
    BY <1>2
  <2> HIDE DEF x
  <2> QED BY <1>0, <1>1, <2>4, <2>5, <2>6, <2>7, Moves DEF Goal
<1>3. CASE ChildClosesReaders
  <2>1. PICK place \in {"setsid", "chdir"} : To("child", place, Without(proc["child"], {"die_reader", "pid_reader"}))
    BY <1>3 DEF ChildClosesReaders
  <2>2. {"die_reader", "pid_reader"} \in SUBSET Ends /\ proc["child"].at = "close_readers"
    BY <1>3 DEF ChildClosesReaders, At, Ends
  <2> QED BY <1>0, <1>2, <2>1, <2>2
<1>4. CASE GrandchildClosesPidWriter
  <2>1. To("grandchild", "chdir", Without(proc["grandchild"], {"pid_writer"}))
    BY <1>4 DEF GrandchildClosesPidWriter
  <2>2. {"pid_writer"} \in SUBSET Ends /\ proc["grandchild"].at = "close_pid_writer"
    BY <1>4 DEF GrandchildClosesPidWriter, At, Ends
  <2> QED BY <1>0, <1>2, <2>1, <2>2
<1>5. CASE SetSid
  <2>1. proc["child"].at = "setsid" /\ To("child", "fork", proc["child"])
    BY <1>5 DEF SetSid, At
  <2> QED BY <1>0, <1>1, <2>1, Stays DEF AliveAt, SoundAt, Done, WithNull, Places, Goal
<1>6. CASE Quit
  <2>1. proc["child"].at = "quit" /\ To("child", "exit", proc["child"])
    BY <1>6 DEF Quit, At
  <2> QED BY <1>0, <1>1, <2>1, Stays DEF AliveAt, SoundAt, Done, WithNull, Places, Goal
<1>7. CASE ForkGrandchild
  <2> DEFINE r == proc["child"]
  <2>1. AliveAt(r.at) /\ SoundAt(r.at) /\ Done(r.at) = {} /\ r.at \notin WithNull \cup {"die", "exit"}
    BY <1>7 DEF ForkGrandchild, At, AliveAt, SoundAt, Done, WithNull
  <2>2. r \in Record /\ Members(r) /\ Image(call, r, {}) /\ r.own["null"] = None
    BY <1>0, <2>1, TableAt
  <2>3. Fork("child", "quit", "grandchild", "close_pid_writer")
    BY <1>7 DEF ForkGrandchild
  <2>4. ASSUME NEW place \in {"quit", "close_pid_writer"}
        PROVE  Row(call, [r EXCEPT !.at = place]) /\ [r EXCEPT !.at = place] \in Record
    <3>1. place \in Places /\ AliveAt(place) /\ Done(place) = {}
      BY DEF Places, AliveAt, Done
    <3> QED BY <2>2, <3>1, Placed
  <2>5. "grandchild" \in Procs \ {"child"}
    BY DEF Procs
  <2> QED BY <1>0, <1>1, <2>3, <2>4, <2>5, TwoChange DEF Goal
<1> QED BY <1>3, <1>4, <1>5, <1>6, <1>7 DEF DaemonStep

\* Where the redirections are made, and by whom.
LEMMA RedirectPlaces ==
  ASSUME IInv, NEW p \in Children, NEW i \in Stdio
  PROVE  /\ Done(DupAt[i]) = 0..(i - 1) /\ Done(NullAt[i]) = 0..(i - 1)
         /\ Done(IF i < 2 THEN DupAt[i + 1] ELSE "unblock") = 0..i
         /\ Done(IF i < 2 THEN NullAt[i + 1] ELSE "close_null") = 0..i
         /\ proc[p].at = DupAt[i] => ~call.daemon
         /\ proc[p].at = NullAt[i] => call.daemon /\ proc[p].own["null"] # None
         /\ DupAt[i] \in {"dup2_0", "dup2_1", "dup2_2"} /\ NullAt[i] \in {"null_0", "null_1", "null_2"}
         /\ (IF i < 2 THEN DupAt[i + 1] ELSE "unblock") \in {"dup2_1", "dup2_2", "unblock"}
         /\ (IF i < 2 THEN NullAt[i + 1] ELSE "close_null") \in {"null_1", "null_2", "close_null"}
<1>1. i = 0 \/ i = 1 \/ i = 2
  BY DEF Stdio
<1>2. /\ DupAt[0] = "dup2_0" /\ DupAt[1] = "dup2_1" /\ DupAt[2] = "dup2_2"
      /\ NullAt[0] = "null_0" /\ NullAt[1] = "null_1" /\ NullAt[2] = "null_2"
  BY DEF DupAt, NullAt, Stdio
<1>3. 0..(0 - 1) = {} /\ 0..0 = {0} /\ 0..1 = {0, 1} /\ 0..2 = Stdio
  BY DEF Stdio
<1>4. proc[p].at \in {"dup2_0", "dup2_1", "dup2_2"} => ~call.daemon
  BY DEF IInv, Where, Children
<1>5. proc[p].at \in {"null_0", "null_1", "null_2"} => call.daemon /\ proc[p].own["null"] # None
  BY DEF IInv, Where, Holders, WithNull, Children
<1>6. /\ Done("dup2_0") = 0..(0 - 1) /\ Done("dup2_1") = 0..0 /\ Done("dup2_2") = 0..1 /\ Done("unblock") = 0..2
      /\ Done("null_0") = 0..(0 - 1) /\ Done("null_1") = 0..0 /\ Done("null_2") = 0..1 /\ Done("close_null") = 0..2
  BY <1>3 DEF Done
<1>7. CASE i = 0
  BY <1>2, <1>4, <1>5, <1>6, <1>7
<1>8. CASE i = 1
  BY <1>2, <1>4, <1>5, <1>6, <1>8
<1>9. CASE i = 2
  BY <1>2, <1>4, <1>5, <1>6, <1>9
<1> QED BY <1>1, <1>7, <1>8, <1>9

\* The steps of the process that becomes the command.
LEMMA RunnerTables ==
  ASSUME IInv, NEW p \in Children, RunnerStep(p)
  PROVE  call' = call /\ proc' \in [Procs -> Record] /\ Tables'
<1> DEFINE Goal == proc' \in [Procs -> Record] /\ Tables'
           r == proc[p]
<1>0. Typed /\ Tables /\ p \in Procs
  BY DEF IInv, Procs, Children
<1>1. call' = call
  BY DEF RunnerStep, ChangeDirectory, Redirect, RedirectNull, OpenNull, CloseNull, UnblockSignals, Exec
<1> SUFFICES Goal
  BY <1>1
<1> HIDE DEF Goal
<1>2. AliveAt(r.at) => /\ r \in Record /\ Members(r)
                       /\ SoundAt(r.at) => Image(call, r, Done(r.at))
                       /\ r.at \notin WithNull \cup {"die", "exit"} => r.own["null"] = None
  BY <1>0, TableAt
<1>3. CASE ChangeDirectory(p)
  <2>1. r.at = "chdir" /\ \E place \in {"open_null", "dup2_0"} : To(p, place, r)
    BY <1>3 DEF ChangeDirectory, At
  <2> QED BY <1>0, <1>1, <2>1, Stays DEF AliveAt, SoundAt, Done, WithNull, Places, Goal
<1>4. ASSUME NEW i \in Stdio, Redirect(p, i) PROVE Goal
  <2> DEFINE from == call.stdio[i]
             x == IF from = None THEN r ELSE Dup2(r, from, i)
             place == IF i < 2 THEN DupAt[i + 1] ELSE "unblock"
  <2>1. r.at = DupAt[i] /\ To(p, place, x) /\ (from # None => from \in Fds /\ r.fds[from] # Free)
    BY <1>4 DEF Redirect, At
  <2>2. /\ Done(r.at) = 0..(i - 1) /\ Done(place) = 0..i /\ ~call.daemon
        /\ r.at \in {"dup2_0", "dup2_1", "dup2_2"} /\ place \in {"dup2_1", "dup2_2", "unblock"}
    BY <2>1, RedirectPlaces
  <2>3. AliveAt(r.at) /\ SoundAt(r.at) /\ r.at \notin WithNull \cup {"die", "exit"}
    BY <2>2 DEF AliveAt, SoundAt, WithNull
  <2>4. r \in Record /\ Members(r) /\ Image(call, r, 0..(i - 1)) /\ r.own["null"] = None
    BY <1>2, <2>2, <2>3
  <2>5. call.stdio \in [Stdio -> Sources]
    BY <1>0 DEF Typed
  <2>6. Image(call, x, 0..i)
    BY <2>1, <2>2, <2>4, <2>5, RedirectImage
  <2>7. x \in Record /\ Members(x) /\ x.own = r.own
    <3>1. CASE from \in {None, i}
      BY <2>4, <3>1 DEF Dup2
    <3>2. CASE from \notin {None, i}
      <4>1. i \in Fds /\ from \in Fds /\ from # i /\ x = Dup2(r, from, i)
        BY <2>1, <3>2, Numbers
      <4> HIDE DEF from, x, r
      <4>2. Dup2(r, from, i) \in Record /\ Dup2(r, from, i).own = r.own
        BY <2>4, <4>1, Dup2Record
      <4>3. Members(Dup2(r, from, i))
        BY <2>4, <4>1, Dup2Members
      <4> QED BY <4>1, <4>2, <4>3
    <3> QED BY <3>1, <3>2
  <2>8. AliveAt(place) /\ place \in Places /\ place \notin {"ready", "open_die", "returned", "open_pid"}
    BY <2>2 DEF AliveAt, Places
  <2> HIDE DEF x, place
  <2> QED BY <1>0, <1>1, <2>1, <2>2, <2>4, <2>6, <2>7, <2>8, Moves DEF Goal
<1>5. ASSUME NEW i \in Stdio, RedirectNull(p, i) PROVE Goal
  <2> DEFINE from == r.own["null"]
             x == Dup2(r, from, i)
             place == IF i < 2 THEN NullAt[i + 1] ELSE "close_null"
  <2>1. r.at = NullAt[i] /\ To(p, place, x)
    BY <1>5 DEF RedirectNull, At
  <2>2. /\ Done(r.at) = 0..(i - 1) /\ Done(place) = 0..i /\ call.daemon /\ from # None
        /\ r.at \in {"null_0", "null_1", "null_2"} /\ place \in {"null_1", "null_2", "close_null"}
    BY <2>1, RedirectPlaces
  <2>3. AliveAt(r.at) /\ SoundAt(r.at)
    BY <2>2 DEF AliveAt, SoundAt
  <2>4. r \in Record /\ Members(r) /\ Image(call, r, 0..(i - 1))
    BY <1>2, <2>2, <2>3
  <2>5. from \in Fds /\ from # i /\ i \in Fds
    BY <2>2, <2>4, Numbers DEF Members, Record, Ends
  <2>6. Image(call, x, 0..i)
    BY <2>2, <2>4, RedirectNullImage
  <2>7. x \in Record /\ Members(x)
    <3> HIDE DEF from, r
    <3> QED BY <2>4, <2>5, Dup2Record, Dup2Members
  <2>8. AliveAt(place) /\ place \in Places /\ place \notin {"ready", "open_die", "returned", "open_pid"}
        /\ place \in WithNull
    BY <2>2 DEF AliveAt, Places, WithNull
  <2> HIDE DEF x, place
  <2> QED BY <1>0, <1>1, <2>1, <2>2, <2>6, <2>7, <2>8, Moves DEF Goal
<1>6. CASE OpenNull(p)
  <2> DEFINE x == WithEnd(r, "null")
  <2>1. r.at = "open_null" /\ FreeFds(r) # {} /\ To(p, "null_0", x)
    BY <1>6 DEF OpenNull, At
  <2>2. r \in Record /\ Members(r) /\ Image(call, r, {}) /\ r.own["null"] = None /\ "null" \in Ends
    BY <1>2, <2>1 DEF AliveAt, SoundAt, Done, WithNull, Ends
  <2>3. x \in Record /\ Members(x) /\ Image(call, x, {})
    BY <2>1, <2>2, Opens
  <2> HIDE DEF x
  <2>4. AliveAt("null_0") /\ Done("null_0") = {} /\ "null_0" \in Places /\ "null_0" \in WithNull
    BY DEF AliveAt, Done, Places, WithNull
  <2> QED BY <1>0, <1>1, <2>1, <2>3, <2>4, Moves DEF Goal
<1>7. CASE CloseNull(p)
  <2> DEFINE x == Without(r, {"null"})
  <2>1. r.at = "close_null" /\ To(p, "unblock", x)
    BY <1>7 DEF CloseNull, At
  <2>2. r \in Record /\ Members(r) /\ Image(call, r, Stdio) /\ {"null"} \in SUBSET Ends
    BY <1>2, <2>1 DEF AliveAt, SoundAt, Done, Ends
  <2>3. x \in Record /\ Members(x) /\ Image(call, x, Stdio)
    BY <2>2, Closes
  <2>4. x.own["null"] = None
    BY <2>2, Forgets
  <2> HIDE DEF x
  <2>5. AliveAt("unblock") /\ Done("unblock") = Stdio /\ "unblock" \in Places
    BY DEF AliveAt, Done, Places
  <2> QED BY <1>0, <1>1, <2>1, <2>3, <2>4, <2>5, Moves DEF Goal
<1>8. CASE UnblockSignals(p)
  <2> DEFINE x == [r EXCEPT !.mask = "empty"]
  <2>1. r.at = "unblock" /\ To(p, "exec", x)
    BY <1>8 DEF UnblockSignals, At
  <2>2. r \in Record /\ Members(r) /\ Image(call, r, Stdio) /\ r.own["null"] = None
    BY <1>2, <2>1 DEF AliveAt, SoundAt, Done, WithNull
  <2>3. x \in Record /\ x.fds = r.fds /\ x.coe = r.coe /\ x.own = r.own
    BY <2>2, MaskFields
  <2> HIDE DEF x
  <2>4. Members(x) /\ Image(call, x, Stdio)
    BY <2>2, <2>3 DEF Members, Image, AsCalled, Redirected
  <2>5. AliveAt("exec") /\ Done("exec") = Stdio /\ "exec" \in Places
    BY DEF AliveAt, Done, Places
  <2> QED BY <1>0, <1>1, <2>1, <2>2, <2>3, <2>4, <2>5, Moves DEF Goal
<1>9. CASE Exec(p)
  <2>1. r.at = "exec" /\ proc' = [proc EXCEPT ![p] = Executed(r)]
    BY <1>9 DEF Exec, At
  <2>2. r \in Record /\ Members(r) /\ Image(call, r, Stdio)
    BY <1>2, <2>1 DEF AliveAt, SoundAt, Done
  <2>3. Row(call, Executed(r)) /\ Executed(r) \in Record
    BY <2>2, RunningRow
  <2> HIDE DEF r
  <2> QED BY <1>0, <1>1, <2>1, <2>3, OneChanges DEF Goal
<1> QED BY <1>3, <1>4, <1>5, <1>6, <1>7, <1>8, <1>9 DEF RunnerStep

\* A child fails, speaks, ends or is killed; another thread makes a process.
LEMMA OtherTables ==
  ASSUME IInv, NEW p \in Children, ChildFails(p) \/ Die(p) \/ Exit(p) \/ Kill(p) \/ OtherForks \/ OtherExecs
  PROVE  call' = call /\ proc' \in [Procs -> Record] /\ Tables'
<1> DEFINE Goal == proc' \in [Procs -> Record] /\ Tables'
<1>0. Typed /\ Tables /\ p \in Procs /\ "other" \in Procs /\ "parent" \in Procs
  BY DEF IInv, Procs, Children
<1>1. call' = call
  BY DEF ChildFails, Die, Exit, Kill, OtherForks, OtherExecs
<1> SUFFICES Goal
  BY <1>1
<1> HIDE DEF Goal
<1>2. CASE ChildFails(p)
  <2>1. To(p, "die", proc[p])
    BY <1>2 DEF ChildFails
  <2>2. proc[p].at \notin {"none", "ended", "running"}
    BY <1>2 DEF ChildFails, Fallible, At, DupAt, Stdio
  <2>3. AliveAt(proc[p].at) /\ AliveAt("die") /\ ~SoundAt("die") /\ "die" \in Places
    BY <2>2 DEF AliveAt, SoundAt, Places
  <2> QED BY <1>0, <1>1, <2>1, <2>3, Stays DEF Goal
<1>3. CASE Die(p)
  <2>1. proc[p].at = "die" /\ To(p, "exit", proc[p])
    BY <1>3 DEF Die, At
  <2>2. AliveAt(proc[p].at) /\ AliveAt("exit") /\ ~SoundAt("exit") /\ "exit" \in Places
    BY <2>1 DEF AliveAt, SoundAt, Places
  <2> QED BY <1>0, <1>1, <2>1, <2>2, Stays DEF Goal
<1>4. CASE Exit(p) \/ Kill(p)
  <2>1. proc' = [proc EXCEPT ![p] = [Nobody EXCEPT !.at = "ended"]]
    BY <1>4 DEF Exit, Kill
  <2> QED BY <1>0, <1>1, <2>1, EndedRow, OneChanges DEF Goal
<1>5. CASE OtherForks
  <2> DEFINE r == proc["parent"]
             s == [r EXCEPT !.at = "other_exec"]
  <2>1. proc' = [proc EXCEPT !["other"] = s]
    BY <1>5 DEF OtherForks
  <2>2. r.at \in {"ready", "open_die", "open_pid", "fork", "close_writers", "read_die", "read_pid", "leave",
                  "returned"}
    BY DEF IInv, Where
  <2>3. AliveAt(r.at) /\ SoundAt(r.at) /\ Done(r.at) = {} /\ r.at \notin WithNull \cup {"die", "exit"}
    BY <2>2 DEF AliveAt, SoundAt, Done, WithNull
  <2>4. r \in Record /\ Members(r) /\ Image(call, r, {}) /\ r.own["null"] = None
    BY <1>0, <2>3, TableAt
  <2>5. AliveAt("other_exec") /\ Done("other_exec") = {} /\ "other_exec" \in Places
    BY DEF AliveAt, Done, Places
  <2>6. Row(call, s) /\ s \in Record
    BY <2>4, <2>5, Placed
  <2> HIDE DEF s
  <2> QED BY <1>0, <1>1, <2>1, <2>6, OneChanges DEF Goal
<1>6. CASE OtherExecs
  <2> DEFINE r == proc["other"]
             none == {}
  <2>1. r.at = "other_exec" /\ proc' = [proc EXCEPT !["other"] = Executed(r)]
    BY <1>6 DEF OtherExecs, At
  <2>2. r \in Record /\ Members(r) /\ Image(call, r, none) /\ none \in SUBSET Stdio
    BY <1>0, <2>1, TableAt DEF AliveAt, SoundAt, Done, WithNull
  <2> HIDE DEF r, none
  <2>3. Row(call, Executed(r)) /\ Executed(r) \in Record
    BY <2>2, RunningRow
  <2> QED BY <1>0, <1>1, <2>1, <2>3, OneChanges DEF Goal
<1> QED BY <1>2, <1>3, <1>4, <1>5, <1>6

\* Every step keeps the tables.
LEMMA TablesKept ==
  ASSUME IInv, [Next]_vars
  PROVE  call' = call /\ proc' \in [Procs -> Record] /\ Tables'
<1>1. CASE ParentStep
  BY <1>1, ParentTables
<1>2. CASE DaemonStep
  BY <1>2, DaemonTables
<1>3. ASSUME NEW p \in Children, ChildStep(p) \/ Kill(p)
      PROVE  call' = call /\ proc' \in [Procs -> Record] /\ Tables'
  BY <1>3, RunnerTables, OtherTables DEF ChildStep
<1>4. CASE OtherForks \/ OtherExecs
  BY <1>4, OtherTables DEF Children
<1>5. CASE UNCHANGED vars
  BY <1>5 DEF IInv, Typed, Tables, vars
<1> QED BY <1>1, <1>2, <1>3, <1>4, <1>5 DEF Next, Children, Finished

----
(* Who is where, step by step.                                              *)

Protocol == Where /\ Order /\ Holders /\ Said /\ Reported

\* What To does to the processes.
LEMMA ToFields ==
  ASSUME Typed, NEW p \in Procs, NEW x \in Record, NEW place \in Places, To(p, place, x)
  PROVE  /\ \A q \in Procs : q # p => proc'[q] = proc[q]
         /\ proc'[p].at = place /\ proc'[p].own = x.own /\ proc'[p].mask = x.mask
<1> DEFINE s == [x EXCEPT !.at = place]
<1>1. s.at = place /\ s.own = x.own /\ s.mask = x.mask
  BY MovedFields
<1>2. proc' = [proc EXCEPT ![p] = s]
  BY DEF To
<1> HIDE DEF s
<1> QED BY <1>1, <1>2 DEF Typed

\* The places of a child that is at work: it has not failed and did not end.
AtWork == {"close_readers", "setsid", "fork", "close_pid_writer", "chdir", "dup2_0", "dup2_1", "dup2_2",
           "open_null", "null_0", "null_1", "null_2", "close_null", "unblock", "exec"}

\* The places after the first one that p can be at in this call.
Route(p) ==
  IF p = "child"
  THEN IF call.daemon THEN {"setsid", "fork"}
       ELSE {"chdir", "dup2_0", "dup2_1", "dup2_2", "unblock", "exec", "running"}
  ELSE {"chdir", "open_null", "null_0", "null_1", "null_2", "close_null", "unblock", "exec", "running"}

\* A child goes on without a word.
LEMMA ChildGoesOn ==
  ASSUME IInv, NEW p \in Children, UNCHANGED <<call, pipes, answer, pids, history>>,
         \A q \in Procs : q # p => proc'[q] = proc[q],
         proc[p].at \in AtWork, proc'[p].at \in Route(p),
         proc'[p].at \in {"exec", "running"} => proc'[p].mask = "empty",
         proc'[p].at # "running" => proc'[p].own["die_writer"] # None,
         proc'[p].at # "running" /\ p = "child" /\ call.daemon => proc'[p].own["pid_writer"] # None,
         proc'[p].at \in WithNull => proc'[p].own["null"] # None
  PROVE  Protocol'
<1>0. Typed /\ Where /\ Order /\ Holders /\ Said /\ Reported
  BY DEF IInv
<1>1. /\ call' = call /\ die' = die /\ pid' = pid /\ answer' = answer /\ pids' = pids
      /\ failed' = failed /\ killed' = killed
  BY DEF pipes, history
<1>2. failed[p] = "none" /\ p \notin killed /\ (p = "grandchild" => call.daemon)
  BY <1>0 DEF AtWork, Order, Where, Children, At
<1>3. proc'["parent"] = proc["parent"] /\ proc'["other"] = proc["other"]
      /\ \A q \in Children : q # p => proc'[q] = proc[q]
  BY DEF Procs, Children
<1>4. \A q \in Children : Created(q) <=> proc'[q].at # "none"
  BY <1>3 DEF Created, At, AtWork, Route
<1>5. Where'
  BY <1>0, <1>1, <1>2, <1>3 DEF Where, Route, Children, At
<1>6. Order'
  BY <1>0, <1>1, <1>2, <1>3, <1>4 DEF Order, Route, AtWork, Children, At, Created
<1>7. Holders'
  BY <1>0, <1>1, <1>2, <1>3 DEF Holders, Route, AtWork, Children, At, Alive, AliveAt
<1>8. Said'
  BY <1>0, <1>1, <1>2, <1>3, <1>4 DEF Said, Speaker, CommandRan, Runner, Route, AtWork, Children, At, Created
<1>9. Reported'
  BY <1>0, <1>1, <1>2, <1>3, <1>4 DEF Reported, Route, AtWork, Children, At, Created
<1> QED BY <1>5, <1>6, <1>7, <1>8, <1>9 DEF Protocol

\* The caller goes on without a word.
LEMMA ParentGoesOn ==
  ASSUME IInv, UNCHANGED <<call, pipes, answer, pids, history>>,
         \A q \in Procs : q # "parent" => proc'[q] = proc[q],
         <<proc["parent"].at, proc'["parent"].at>> \in
           {<<"ready", "open_die">>, <<"open_die", "open_pid">>, <<"open_die", "fork">>, <<"open_pid", "fork">>,
            <<"close_writers", "read_die">>, <<"leave", "returned">>},
         proc'["parent"].at = "returned" => proc'["parent"].mask = "caller",
         proc'["parent"].at \in {"open_pid", "fork"} => proc'["parent"].own["die_writer"] # None,
         proc'["parent"].at = "fork" /\ call.daemon => proc'["parent"].own["pid_writer"] # None
  PROVE  Protocol'
<1>0. Typed /\ Where /\ Order /\ Holders /\ Said /\ Reported
  BY DEF IInv
<1>1. /\ call' = call /\ die' = die /\ pid' = pid /\ answer' = answer /\ pids' = pids
      /\ failed' = failed /\ killed' = killed
  BY DEF pipes, history
<1>2. proc'["other"] = proc["other"] /\ \A q \in Children : proc'[q] = proc[q]
  BY DEF Procs, Children
<1>3. \/ proc["parent"].at = "ready" /\ proc'["parent"].at = "open_die"
      \/ proc["parent"].at = "open_die" /\ proc'["parent"].at \in {"open_pid", "fork"}
      \/ proc["parent"].at = "open_pid" /\ proc'["parent"].at = "fork"
      \/ proc["parent"].at = "close_writers" /\ proc'["parent"].at = "read_die"
      \/ proc["parent"].at = "leave" /\ proc'["parent"].at = "returned"
  OBVIOUS
<1>4. \A q \in Children : Created(q)' <=> Created(q)
  BY <1>2 DEF Created, At
<1>5. Where'
  BY <1>0, <1>1, <1>2, <1>3 DEF Where, Children, At
<1>6. Order'
  BY <1>0, <1>1, <1>2, <1>3 DEF Order, Children, At, Created
<1>7. Holders'
  BY <1>0, <1>1, <1>2, <1>3 DEF Holders, Children, At, Alive
<1>8. Said'
  BY <1>0, <1>1, <1>2, <1>3 DEF Said, Speaker, CommandRan, Runner, Children, At, Created
<1>9. Reported'
  BY <1>0, <1>1, <1>2, <1>3 DEF Reported, Children, At, Created
<1> QED BY <1>5, <1>6, <1>7, <1>8, <1>9 DEF Protocol

\* A child is made, by the caller or by the first child.
LEMMA ForkChildProtocol ==
  ASSUME IInv, ForkChild
  PROVE  Protocol'
<1>0. Typed /\ Where /\ Order /\ Holders /\ Said /\ Reported
  BY DEF IInv
<1>1. /\ call' = call /\ die' = die /\ pid' = pid /\ answer' = answer /\ failed' = failed /\ killed' = killed
      /\ pids' = [pids EXCEPT !.first = "child"] /\ pids'.first = "child" /\ pids'.second = pids.second
  BY <1>0 DEF ForkChild, pipes, history, Typed
<1>2. /\ proc["parent"].at = "fork" /\ proc'["parent"].at = "close_writers"
      /\ proc'["child"].at = "close_readers" /\ proc'["child"].own = proc["parent"].own
      /\ proc'["grandchild"] = proc["grandchild"] /\ proc'["other"] = proc["other"]
      /\ proc["child"].at = "none" /\ proc["grandchild"].at = "none"
  BY <1>0, ZenonT(60) DEF ForkChild, Fork, At, Typed, Record, Procs, Order, Created
<1>3. failed["child"] = "none" /\ failed["grandchild"] = "none" /\ killed \cap Children = {}
  BY <1>0, <1>2 DEF Order, Children, At
<1>4. Where'
  BY <1>0, <1>1, <1>2 DEF Where, Children, At
<1>5. Order'
  BY <1>0, <1>1, <1>2, <1>3 DEF Order, Children, At, Created
<1>6. Holders'
  BY <1>0, <1>1, <1>2 DEF Holders, Children, At, Alive, AliveAt, WithNull
<1>7. Said'
  BY <1>0, <1>1, <1>2, <1>3 DEF Said, Speaker, Runner, Children, At, Created
<1>8. Reported'
  BY <1>0, <1>1, <1>2 DEF Reported, Children, At, Created
<1> QED BY <1>4, <1>5, <1>6, <1>7, <1>8 DEF Protocol

\* The fork of the grandchild.
LEMMA ForkGrandchildProtocol ==
  ASSUME IInv, ForkGrandchild
  PROVE  Protocol'
<1>0. Typed /\ Where /\ Order /\ Holders /\ Said /\ Reported
  BY DEF IInv
<1>1. /\ call' = call /\ die' = die /\ pid' = pid /\ answer' = answer /\ failed' = failed /\ killed' = killed
      /\ pids' = pids
  BY DEF ForkGrandchild, pipes, history
<1>2. proc["child"].at = "fork" /\ call.daemon /\ proc["grandchild"].at = "none"
  BY <1>0 DEF ForkGrandchild, At, Where, Order, Created
<1>3. /\ proc'["child"].at = "quit" /\ proc'["child"].own = proc["child"].own
      /\ proc'["grandchild"].at = "close_pid_writer" /\ proc'["grandchild"].own = proc["child"].own
      /\ proc'["parent"] = proc["parent"] /\ proc'["other"] = proc["other"]
  BY <1>0 DEF ForkGrandchild, Fork, Typed, Record, Procs
<1>4. /\ failed["child"] = "none" /\ failed["grandchild"] = "none" /\ killed \cap Children = {}
      /\ proc["parent"].at \in {"close_writers", "read_die", "read_pid", "leave", "returned"}
  BY <1>0, <1>2 DEF Order, Children, At, Created, Where
<1>5. Where'
  BY <1>0, <1>1, <1>2, <1>3 DEF Where, Children, At
<1>6. Order'
  BY <1>0, <1>1, <1>2, <1>3, <1>4 DEF Order, Children, At, Created
<1>7. Holders'
  BY <1>0, <1>1, <1>2, <1>3 DEF Holders, Children, At, Alive, AliveAt, WithNull
<1>8. Said'
  BY <1>0, <1>1, <1>2, <1>3, <1>4 DEF Said, Speaker, CommandRan, Runner, Children, At, Created
<1>9. Reported'
  BY <1>0, <1>1, <1>2, <1>3, <1>4 DEF Reported, Children, At, Created
<1> QED BY <1>5, <1>6, <1>7, <1>8, <1>9 DEF Protocol

\* The caller gives up before it makes a process.
LEMMA ParentFailsProtocol ==
  ASSUME IInv, ParentFails
  PROVE  Protocol'
<1>0. Typed /\ Where /\ Order /\ Holders /\ Said /\ Reported
  BY DEF IInv
<1>1. /\ call' = call /\ die' = die /\ pid' = pid /\ killed' = killed /\ pids' = pids
      /\ answer' = proc["parent"].at /\ failed'["parent"] = answer'
      /\ \A q \in Children : failed'[q] = failed[q]
  BY <1>0 DEF ParentFails, pipes, Typed, Procs, Children
<1>2. proc["parent"].at \in {"open_die", "open_pid", "fork"} /\ ~Created("child") /\ ~Created("grandchild")
  BY <1>0 DEF ParentFails, Order, Created, At
<1>3. To("parent", "leave", proc["parent"]) /\ proc["parent"] \in Record /\ "parent" \in Procs /\ "leave" \in Places
  BY <1>0 DEF ParentFails, Typed, Procs, Places
<1>4. proc'["parent"].at = "leave" /\ \A q \in Procs : q # "parent" => proc'[q] = proc[q]
  BY <1>0, <1>3, ToFields
<1>5. proc'["other"] = proc["other"] /\ \A q \in Children : proc'[q] = proc[q]
  BY <1>4 DEF Procs, Children
<1>6. Where'
  BY <1>0, <1>1, <1>4, <1>5 DEF Where, Children, At
<1>7. Order'
  BY <1>0, <1>1, <1>2, <1>4, <1>5 DEF Order, Children, At, Created
<1>8. Holders'
  BY <1>0, <1>1, <1>4, <1>5 DEF Holders, Children, At, Alive
<1>9. Said'
  <2>1. answer' \in Places \ {"none"}
    BY <1>1, <1>2 DEF Places
  <2>2. \A code : Speaker(code)' <=> Speaker(code)
    BY <1>1, <1>5 DEF Speaker, Runner, Children, At, Created
  <2> QED BY <1>0, <1>1, <1>2, <1>4, <1>5, <2>1, <2>2 DEF Said, Children, At, Created
<1>10. Reported'
  BY <1>0, <1>1, <1>2, <1>4, <1>5 DEF Reported, Children, At, Created
<1> QED BY <1>6, <1>7, <1>8, <1>9, <1>10 DEF Protocol

\* A process at work has the end of a pipe that its member names.
LEMMA HoldsEnd ==
  ASSUME Typed, Tables, NEW p \in Procs, NEW e \in Ends, Alive(p), proc[p].own[e] # None
  PROVE  HasFile(p, <<e>>)
<1>1. proc[p] \in Record /\ Members(proc[p])
  BY TableAt DEF Alive
<1>2. proc[p].own[e] \in Fds /\ proc[p].fds[proc[p].own[e]] = <<e>>
  BY <1>1 DEF Members, Record
<1> QED BY <1>2 DEF HasFile

\* The caller reads the first code, or the end of the pipe.
LEMMA ReadDieProtocol ==
  ASSUME IInv, ReadDie
  PROVE  Protocol'
<1>0. Typed /\ Tables /\ Where /\ Order /\ Holders /\ Said /\ Reported
  BY DEF IInv
<1>1. /\ call' = call /\ pid' = pid /\ pids' = pids /\ failed' = failed /\ killed' = killed
      /\ proc["parent"].at = "read_die" /\ Created("child") /\ answer = "none"
  BY <1>0 DEF ReadDie, history, At, Order, Said
<1>2. PICK place \in {"read_pid", "leave"} :
        To("parent", place, Without(proc["parent"], {"die_reader"})) /\ (place = "read_pid" <=> call.daemon)
  BY DEF ReadDie
<1>3. proc'["parent"].at = place /\ \A q \in Procs : q # "parent" => proc'[q] = proc[q]
  <2>1. proc["parent"] \in Record /\ "parent" \in Procs /\ {"die_reader"} \in SUBSET Ends /\ place \in Places
    BY <1>0 DEF Typed, Procs, Ends, Places
  <2>2. Without(proc["parent"], {"die_reader"}) \in Record
    BY <2>1, WithoutFields
  <2> QED BY <1>0, <1>2, <2>1, <2>2, ToFields
<1>4. proc'["other"] = proc["other"] /\ \A q \in Children : proc'[q] = proc[q]
  BY <1>3 DEF Procs, Children
<1>5. Where'
  BY <1>0, <1>1, <1>3, <1>4 DEF Where, Children, At
<1>6. Order'
  BY <1>0, <1>1, <1>2, <1>3, <1>4 DEF Order, Children, At, Created
<1>7. Holders'
  BY <1>0, <1>1, <1>3, <1>4 DEF Holders, Children, At, Alive
<1>8. Reported'
  BY <1>0, <1>1, <1>2, <1>3, <1>4 DEF Reported, Children, At, Created
<1>9. \A code : Speaker(code)' <=> Speaker(code)
  BY <1>1, <1>4 DEF Speaker, Runner, Children, At, Created
<1>10. CommandRan' <=> CommandRan
  BY <1>1, <1>4 DEF CommandRan, Runner, Children, At, Created
<1>11. CASE die # <<>>
  <2>1. answer' = Head(die) /\ die' = Tail(die) /\ Len(die) \in Nat \ {0} /\ Head(die) = die[1] /\ 1 \in DOMAIN die
    BY <1>0, <1>11 DEF ReadDie, Typed
  <2>2. Speaker(answer') /\ answer' \in Places \ {"none"}
    BY <1>0, <2>1 DEF Said, Speaker, Typed, Procs, Children
  <2>3. \A k \in DOMAIN die' : k + 1 \in DOMAIN die /\ die'[k] = die[k + 1]
    BY <1>0, <2>1 DEF Typed
  <2>4. \A k \in DOMAIN die' : Speaker(die'[k])
    BY <1>0, <2>3 DEF Said
  <2> QED BY <1>0, <1>1, <1>3, <1>4, <1>5, <1>6, <1>7, <1>8, <1>9, <2>2, <2>4 DEF Protocol, Said
<1>12. CASE die = <<>>
  <2>1. answer' = "success" /\ die' = die
    BY <1>12 DEF ReadDie
  <2>2. \A q \in Children : ~Alive(q)
    <3>1. \A q \in Procs : ~HasFile(q, <<"die_writer">>)
      BY <1>12 DEF ReadDie
    <3> QED BY <1>0, <3>1, HoldsEnd DEF Holders, Children, Procs, Ends
  <2>3. \A q \in Children : proc[q].at = "ended" => q \in killed \/ (q = "child" /\ Created("grandchild"))
    BY <1>0, <1>1, <1>12 DEF Said
  <2>4. CommandRan
    BY <1>0, <1>1, <2>2, <2>3 DEF CommandRan, Runner, Alive, AliveAt, Children, At, Created, Where, Order
  <2> QED BY <1>0, <1>1, <1>3, <1>4, <1>5, <1>6, <1>7, <1>8, <1>9, <1>10, <2>1, <2>4 DEF Protocol, Said
<1> QED BY <1>11, <1>12

\* The caller reads the pid, or the end of the pipe.
LEMMA ReadPidProtocol ==
  ASSUME IInv, ReadPid
  PROVE  Protocol'
<1>0. Typed /\ Tables /\ Where /\ Order /\ Holders /\ Said /\ Reported
  BY DEF IInv
<1>1. /\ call' = call /\ die' = die /\ answer' = answer /\ failed' = failed /\ killed' = killed
      /\ proc["parent"].at = "read_pid" /\ Created("child") /\ call.daemon
  BY <1>0 DEF ReadPid, history, At, Order
<1>2. proc'["parent"].at = "leave" /\ \A q \in Procs : q # "parent" => proc'[q] = proc[q]
  <2>1. proc["parent"] \in Record /\ "parent" \in Procs /\ {"pid_reader"} \in SUBSET Ends /\ "leave" \in Places
    BY <1>0 DEF Typed, Procs, Ends, Places
  <2>2. Without(proc["parent"], {"pid_reader"}) \in Record
    BY <2>1, WithoutFields
  <2>3. To("parent", "leave", Without(proc["parent"], {"pid_reader"}))
    BY DEF ReadPid
  <2> QED BY <1>0, <2>1, <2>2, <2>3, ToFields
<1>3. proc'["other"] = proc["other"] /\ \A q \in Children : proc'[q] = proc[q]
  BY <1>2 DEF Procs, Children
<1>4. Where'
  BY <1>0, <1>1, <1>2, <1>3 DEF Where, Children, At
<1>5. Order'
  BY <1>0, <1>1, <1>2, <1>3 DEF Order, Children, At, Created
<1>6. Holders'
  BY <1>0, <1>1, <1>2, <1>3 DEF Holders, Children, At, Alive
<1>7. Said'
  BY <1>0, <1>1, <1>2, <1>3 DEF Said, Speaker, CommandRan, Runner, Children, At, Created
<1>8. Reported'
  <2>1. CASE pid # <<>>
    <3>1. Head(pid) = "grandchild" /\ pids'.second = Head(pid) /\ pids'.first = pids.first
      BY <1>0, <2>1 DEF ReadPid, Typed
    <3> QED BY <1>0, <1>1, <1>2, <1>3, <2>1, <3>1 DEF Reported, Children, At, Created
  <2>2. CASE pid = <<>>
    <3>1. pids' = pids /\ pid' = pid /\ ~HasFile("child", <<"pid_writer">>)
      BY <2>2 DEF ReadPid, Procs
    <3>2. ~Alive("child")
      BY <1>0, <1>1, <3>1, HoldsEnd DEF Holders, Procs, Ends
    <3>3. proc["child"].at = "ended"
      BY <1>0, <1>1, <3>2 DEF Where, Alive, AliveAt, Created, At
    <3>4. "child" \in killed \/ ~Created("grandchild")
      BY <1>0, <1>1, <2>2, <3>3 DEF Reported
    <3> QED BY <1>0, <1>1, <1>2, <1>3, <3>1, <3>3, <3>4 DEF Reported, Children, At, Created
  <2> QED BY <2>1, <2>2
<1> QED BY <1>4, <1>5, <1>6, <1>7, <1>8 DEF Protocol

\* The first child of a daemon writes the pid of the second.
LEMMA QuitProtocol ==
  ASSUME IInv, Quit
  PROVE  Protocol'
<1>0. Typed /\ Where /\ Order /\ Holders /\ Said /\ Reported
  BY DEF IInv
<1>1. /\ call' = call /\ die' = die /\ answer' = answer /\ pids' = pids /\ failed' = failed /\ killed' = killed
      /\ proc["child"].at = "quit" /\ pid' = Append(pid, "grandchild")
  BY DEF Quit, history, At
<1>2. pid' # <<>>
  BY <1>0, <1>1 DEF Typed
<1>3. /\ proc'["child"].at = "exit" /\ proc'["child"].own = proc["child"].own
      /\ \A q \in Procs : q # "child" => proc'[q] = proc[q]
  <2>1. proc["child"] \in Record /\ "child" \in Procs /\ "exit" \in Places
    BY <1>0 DEF Typed, Procs, Places
  <2>2. To("child", "exit", proc["child"])
    BY DEF Quit
  <2> QED BY <1>0, <2>1, <2>2, ToFields
<1>4. proc'["other"] = proc["other"] /\ proc'["parent"] = proc["parent"] /\ proc'["grandchild"] = proc["grandchild"]
  BY <1>3 DEF Procs
<1>5. Created("grandchild") /\ call.daemon
  BY <1>0, <1>1 DEF Order, Where, At
<1>6. Where'
  BY <1>0, <1>1, <1>3, <1>4 DEF Where, Children, At
<1>7. Order'
  BY <1>0, <1>1, <1>3, <1>4 DEF Order, Children, At, Created
<1>8. Holders'
  BY <1>0, <1>1, <1>3, <1>4 DEF Holders, Children, At, Alive, AliveAt, WithNull
<1>9. Said'
  BY <1>0, <1>1, <1>3, <1>4, <1>5 DEF Said, Speaker, CommandRan, Runner, Children, At, Created
<1>10. Reported'
  BY <1>0, <1>1, <1>2, <1>3, <1>4, <1>5 DEF Reported, Children, At, Created
<1> QED BY <1>6, <1>7, <1>8, <1>9, <1>10 DEF Protocol

\* A call of a child fails.
LEMMA ChildFailsProtocol ==
  ASSUME IInv, NEW p \in Children, ChildFails(p)
  PROVE  Protocol'
<1>0. Typed /\ Where /\ Order /\ Holders /\ Said /\ Reported
  BY DEF IInv
<1>1. proc[p].at \in {"setsid", "fork", "chdir", "dup2_0", "dup2_1", "dup2_2", "open_null", "null_0", "null_1",
                      "null_2", "exec"}
  BY DEF ChildFails, Fallible, At, DupAt, Stdio
<1>2. /\ call' = call /\ die' = die /\ pid' = pid /\ answer' = answer /\ pids' = pids /\ killed' = killed
      /\ failed'[p] = proc[p].at /\ \A q \in Procs : q # p => failed'[q] = failed[q]
  BY <1>0 DEF ChildFails, pipes, Typed, Children, Procs
<1>3. /\ proc'[p].at = "die" /\ proc'[p].own = proc[p].own
      /\ \A q \in Procs : q # p => proc'[q] = proc[q]
  <2>1. proc[p] \in Record /\ p \in Procs /\ "die" \in Places
    BY <1>0 DEF Typed, Procs, Places, Children
  <2>2. To(p, "die", proc[p])
    BY DEF ChildFails
  <2> QED BY <1>0, <2>1, <2>2, ToFields
<1>4. /\ proc'["other"] = proc["other"] /\ proc'["parent"] = proc["parent"] /\ failed'["parent"] = failed["parent"]
      /\ \A q \in Children : q # p => proc'[q] = proc[q] /\ failed'[q] = failed[q]
  BY <1>2, <1>3 DEF Procs, Children
<1>5. /\ p \notin killed /\ failed[p] = "none"
      /\ p = "child" => ~Created("grandchild")
  BY <1>0, <1>1 DEF Order, Children, At
<1>6. Where'
  BY <1>0, <1>1, <1>2, <1>3, <1>4 DEF Where, Children, At
<1>7. Order'
  BY <1>0, <1>1, <1>2, <1>3, <1>4, <1>5 DEF Order, Children, At, Created
<1>8. Holders'
  BY <1>0, <1>1, <1>2, <1>3, <1>4 DEF Holders, Children, At, Alive, AliveAt, WithNull
<1>9. Said'
  <2>1. \A code : Speaker(code) => Speaker(code)'
    BY <1>1, <1>2, <1>3, <1>4, <1>5 DEF Speaker, Runner, Children, At, Created
  <2>2. CommandRan => CommandRan'
    BY <1>1, <1>2, <1>3, <1>4 DEF CommandRan, Runner, Children, At, Created
  <2>3. Created("child")' <=> Created("child")
    BY <1>1, <1>3, <1>4 DEF Created, At, Children
  <2> QED BY <1>0, <1>1, <1>2, <1>3, <1>4, <1>5, <2>1, <2>2, <2>3 DEF Said, Children, At, Created
<1>10. Reported'
  BY <1>0, <1>1, <1>2, <1>3, <1>4, <1>5 DEF Reported, Children, At, Created
<1> QED BY <1>6, <1>7, <1>8, <1>9, <1>10 DEF Protocol

\* A child writes its code.
LEMMA DieProtocol ==
  ASSUME IInv, NEW p \in Children, Die(p)
  PROVE  Protocol'
<1>0. Typed /\ Where /\ Order /\ Holders /\ Said /\ Reported
  BY DEF IInv
<1>1. /\ call' = call /\ pid' = pid /\ answer' = answer /\ pids' = pids /\ failed' = failed /\ killed' = killed
      /\ proc[p].at = "die" /\ die' = Append(die, failed[p])
  BY DEF Die, history, At
<1>2. die' # <<>> /\ \A k \in DOMAIN die' : (k \in DOMAIN die /\ die'[k] = die[k]) \/ die'[k] = failed[p]
  BY <1>0, <1>1, SMTT(30) DEF Typed
<1>3. /\ proc'[p].at = "exit" /\ proc'[p].own = proc[p].own
      /\ \A q \in Procs : q # p => proc'[q] = proc[q]
  <2>1. proc[p] \in Record /\ p \in Procs /\ "exit" \in Places
    BY <1>0 DEF Typed, Procs, Places, Children
  <2>2. To(p, "exit", proc[p])
    BY DEF Die
  <2> QED BY <1>0, <2>1, <2>2, ToFields
<1>4. proc'["other"] = proc["other"] /\ proc'["parent"] = proc["parent"] /\ \A q \in Children : q # p => proc'[q] = proc[q]
  BY <1>3 DEF Procs, Children
<1>5. p \notin killed /\ failed[p] # "none" /\ (p = "child" => ~Created("grandchild"))
      /\ (p = "grandchild" => call.daemon)
  BY <1>0, <1>1 DEF Order, Where, Children, At
<1>6. Where'
  BY <1>0, <1>1, <1>3, <1>4 DEF Where, Children, At
<1>7. Order'
  BY <1>0, <1>1, <1>3, <1>4, <1>5 DEF Order, Children, At, Created
<1>8. Holders'
  BY <1>0, <1>1, <1>3, <1>4 DEF Holders, Children, At, Alive, AliveAt, WithNull
<1>9. Said'
  <2>1. \A code : Speaker(code) => Speaker(code)'
    BY <1>1, <1>3, <1>4 DEF Speaker, Runner, Children, At, Created
  <2>2. \A code : code = failed[p] => Speaker(code)'
    BY <1>1, <1>3, <1>4, <1>5 DEF Speaker, Runner, Children, At, Created
  <2>3. \A code : (\E k \in DOMAIN die' : code = die'[k]) => Speaker(code)'
    BY <1>0, <1>2, <2>1, <2>2 DEF Said
  <2>4. CommandRan => CommandRan'
    BY <1>1, <1>3, <1>4 DEF CommandRan, Runner, Children, At, Created
  <2>5. Created("child")' <=> Created("child")
    BY <1>1, <1>3, <1>4 DEF Created, At, Children
  <2> QED BY <1>0, <1>1, <1>2, <1>3, <1>4, <2>1, <2>3, <2>4, <2>5 DEF Said
<1>10. Reported'
  BY <1>0, <1>1, <1>3, <1>4, <1>5 DEF Reported, Children, At, Created
<1> QED BY <1>6, <1>7, <1>8, <1>9, <1>10 DEF Protocol

\* A child ends, after it said what it had to say or killed before.
LEMMA EndProtocol ==
  ASSUME IInv, NEW p \in Children, Exit(p) \/ Kill(p)
  PROVE  Protocol'
<1>0. Typed /\ Where /\ Order /\ Holders /\ Said /\ Reported
  BY DEF IInv
<1>1. /\ call' = call /\ die' = die /\ pid' = pid /\ answer' = answer /\ pids' = pids /\ failed' = failed
      /\ \/ proc[p].at = "exit" /\ killed' = killed
         \/ proc[p].at \notin {"none", "running", "ended"} /\ killed' = killed \cup {p}
  BY DEF Exit, Kill, pipes, history, At
<1>2. /\ proc'[p].at = "ended" /\ \A q \in Procs : q # p => proc'[q] = proc[q]
  <2>1. proc' = [proc EXCEPT ![p] = [Nobody EXCEPT !.at = "ended"]]
    BY DEF Exit, Kill
  <2>2. [Nobody EXCEPT !.at = "ended"].at = "ended"
    BY DEF Nobody
  <2>3. p \in Procs
    BY DEF Children, Procs
  <2> QED BY <1>0, <2>1, <2>2, <2>3 DEF Typed
<1>3. proc'["other"] = proc["other"] /\ proc'["parent"] = proc["parent"] /\ \A q \in Children : q # p => proc'[q] = proc[q]
  BY <1>2 DEF Procs, Children
<1>4. proc[p].at \notin {"none", "running", "ended"} /\ p \notin killed
  BY <1>0, <1>1 DEF Order, At, Children
<1>5. Where'
  BY <1>0, <1>1, <1>2, <1>3, <1>4 DEF Where, Children, At
<1>6. Order'
  BY <1>0, <1>1, <1>2, <1>3, <1>4 DEF Order, Children, At, Created
<1>7. Holders'
  BY <1>0, <1>1, <1>2, <1>3 DEF Holders, Children, At, Alive, AliveAt, WithNull
<1>8. Created("child")' <=> Created("child")
  BY <1>2, <1>3, <1>4 DEF Created, At, Children
<1>9. Created("grandchild")' <=> Created("grandchild")
  BY <1>2, <1>3, <1>4 DEF Created, At, Children
<1>10. Said'
  <2>1. \A code : Speaker(code) => Speaker(code)'
    BY <1>1, <1>2, <1>3, <1>9 DEF Speaker, Runner, Children
  <2>2. CommandRan => CommandRan'
    BY <1>1, <1>2, <1>3, <1>4, <1>8, <1>9 DEF CommandRan, Runner, Children, At
  <2>3. \A q \in Children : proc'[q].at \in {"exit", "ended"} /\ q \notin killed' =>
           proc[q].at \in {"exit", "ended"} /\ q \notin killed
    BY <1>1, <1>2, <1>3
  <2> QED BY <1>0, <1>1, <1>3, <1>8, <1>9, <2>1, <2>2, <2>3 DEF Said
<1>11. Reported'
  BY <1>0, <1>1, <1>2, <1>3, <1>8, <1>9 DEF Reported, Children, At
<1> QED BY <1>5, <1>6, <1>7, <1>10, <1>11 DEF Protocol

\* Another thread of the program has no part in the call.
LEMMA OtherProtocol ==
  ASSUME IInv, OtherForks \/ OtherExecs
  PROVE  Protocol'
<1>0. Typed /\ Where /\ Order /\ Holders /\ Said /\ Reported
  BY DEF IInv
<1>1. /\ call' = call /\ die' = die /\ pid' = pid /\ answer' = answer /\ pids' = pids /\ failed' = failed
      /\ killed' = killed
  BY DEF OtherForks, OtherExecs, pipes, history
<1>2. /\ proc'["other"].at \in {"other_exec", "running"} /\ proc'["parent"] = proc["parent"]
      /\ \A q \in Children : proc'[q] = proc[q]
  <2>1. CASE OtherForks
    <3>1. proc' = [proc EXCEPT !["other"] = [proc["parent"] EXCEPT !.at = "other_exec"]]
      BY <2>1 DEF OtherForks
    <3> QED BY <1>0, <3>1 DEF Typed, Record, Procs, Children
  <2>2. CASE OtherExecs
    <3>1. proc' = [proc EXCEPT !["other"] = Executed(proc["other"])] /\ proc["other"] \in Record
      BY <1>0, <2>2 DEF OtherExecs, Typed, Procs
    <3>2. Executed(proc["other"]).at = "running"
      BY <3>1, ExecutedFields
    <3> QED BY <1>0, <3>1, <3>2 DEF Typed, Procs, Children
  <2> QED BY <2>1, <2>2
<1>3. Where'
  BY <1>0, <1>1, <1>2 DEF Where, Children, At
<1>4. Order'
  BY <1>0, <1>1, <1>2 DEF Order, Children, At, Created
<1>5. Holders'
  BY <1>0, <1>1, <1>2 DEF Holders, Children, At, Alive
<1>6. Said'
  BY <1>0, <1>1, <1>2 DEF Said, Speaker, CommandRan, Runner, Children, At, Created
<1>7. Reported'
  BY <1>0, <1>1, <1>2 DEF Reported, Children, At, Created
<1> QED BY <1>3, <1>4, <1>5, <1>6, <1>7 DEF Protocol

\* The steps of the caller in which nothing is said.
LEMMA ParentProtocol ==
  ASSUME IInv, ParentStep
  PROVE  Protocol'
<1> DEFINE r == proc["parent"]
<1>0. Typed /\ Tables /\ Where /\ r \in Record /\ Row(call, r) /\ "parent" \in Procs
  BY DEF IInv, Typed, Tables, Procs
<1>1. r.at \notin {"none", "ended", "running", "die", "exit"} \cup WithNull /\ Done(r.at) = {}
  BY <1>0 DEF Where, WithNull, Done
<1>2. Members(r) /\ Image(call, r, {})
  BY <1>0, <1>1, TableAt DEF AliveAt, SoundAt
<1> HIDE DEF r
<1>3. ASSUME NEW x \in Record, NEW place \in Places, To("parent", place, x),
             UNCHANGED <<call, pipes, answer, pids, history>>,
             <<r.at, place>> \in
               {<<"ready", "open_die">>, <<"open_die", "open_pid">>, <<"open_die", "fork">>, <<"open_pid", "fork">>,
                <<"close_writers", "read_die">>, <<"leave", "returned">>},
             place = "returned" => x.mask = "caller",
             place \in {"open_pid", "fork"} => x.own["die_writer"] # None,
             place = "fork" /\ call.daemon => x.own["pid_writer"] # None
      PROVE  Protocol'
  <2>1. /\ \A q \in Procs : q # "parent" => proc'[q] = proc[q]
        /\ proc'["parent"].at = place /\ proc'["parent"].own = x.own /\ proc'["parent"].mask = x.mask
    BY <1>0, <1>3, ToFields
  <2> QED BY <1>3, <2>1, ParentGoesOn DEF r
<1>4. CASE BlockSignals
  <2>1. [r EXCEPT !.mask = "all"] \in Record
    BY <1>0, MaskFields
  <2> QED BY <1>3, <1>4, <2>1 DEF BlockSignals, At, Places, r
<1>5. ASSUME NEW place, NEW reader \in Ends, NEW writer \in Ends \ {reader}, NEW next \in {"open_pid", "fork"},
             OpenPipe(place, reader, writer, next),
             <<place, next>> \in {<<"open_die", "open_pid">>, <<"open_die", "fork">>, <<"open_pid", "fork">>},
             r.own[reader] = None, r.own[writer] = None,
             writer # "die_writer" => r.own["die_writer"] # None,
             next = "fork" /\ call.daemon => writer = "pid_writer",
             reader \notin {"die_writer", "pid_writer"}
      PROVE  Protocol'
  <2> DEFINE y == WithEnd(r, reader)
             x == WithEnd(y, writer)
  <2>1. Cardinality(FreeFds(r)) >= 2 /\ To("parent", next, x) /\ r.at = place
        /\ UNCHANGED <<call, pipes, answer, pids, history>>
    BY <1>5 DEF OpenPipe, At, r
  <2>2. FreeFds(r) # {} /\ FreeFds(y) # {}
    BY <1>0, <2>1, TwoFree
  <2>3. /\ y \in Record /\ Members(y) /\ Image(call, y, {})
        /\ \A e \in Ends \ {reader} : y.own[e] = r.own[e]
    BY <1>0, <1>2, <1>5, <2>2, Opens
  <2> HIDE DEF y
  <2>4. x \in Record /\ x.own[writer] # None /\ \A e \in Ends \ {writer} : x.own[e] = y.own[e]
    BY <1>5, <2>2, <2>3, Opens
  <2> HIDE DEF x
  <2>5. x.own["die_writer"] # None /\ (next = "fork" /\ call.daemon => x.own["pid_writer"] # None)
    BY <1>5, <2>3, <2>4 DEF Ends
  <2> QED BY <1>3, <1>5, <2>1, <2>4, <2>5 DEF Places
<1>6. CASE OpenDie
  <2>1. r.own = NoEnds
    BY <1>0, <1>6 DEF OpenDie, OpenPipe, At, r, Row, Fresh
  <2> QED BY <1>5, <1>6, <2>1 DEF OpenDie, NoEnds, Ends
<1>7. CASE OpenPid
  <2>1. r.own["pid_reader"] = None /\ r.own["pid_writer"] = None
    BY <1>0, <1>7 DEF OpenPid, OpenPipe, At, r, Row, Fresh
  <2>2. r.own["die_writer"] # None
    BY <1>7 DEF OpenPid, OpenPipe, At, r, IInv, Holders
  <2> QED BY <1>5, <1>7, <2>1, <2>2 DEF OpenPid, Ends
<1>8. CASE CloseWriters
  <2>1. {"die_writer", "pid_writer"} \in SUBSET Ends
    BY DEF Ends
  <2>2. Without(r, {"die_writer", "pid_writer"}) \in Record
    BY <1>0, <2>1, WithoutFields
  <2> QED BY <1>3, <1>8, <2>2 DEF CloseWriters, At, Places, r
<1>9. CASE Leave
  <2>1. Without(r, Ends) \in Record
    BY <1>0, WithoutFields
  <2>2. [Without(r, Ends) EXCEPT !.mask = "caller"] \in Record /\ [Without(r, Ends) EXCEPT !.mask = "caller"].mask = "caller"
    BY <2>1, MaskFields
  <2> QED BY <1>3, <1>9, <2>2 DEF Leave, At, Places, r
<1> QED BY <1>4, <1>6, <1>7, <1>8, <1>9, ForkChildProtocol, ParentFailsProtocol, ReadDieProtocol, ReadPidProtocol
        DEF ParentStep

\* The steps of a child in which nothing is said.
LEMMA ChildProtocol ==
  ASSUME IInv, NEW p \in Children,
         \/ p = "child" /\ (ChildClosesReaders \/ SetSid)
         \/ p = "grandchild" /\ GrandchildClosesPidWriter
         \/ RunnerStep(p)
  PROVE  Protocol'
<1> DEFINE r == proc[p]
<1>0. Typed /\ Tables /\ Where /\ Holders /\ r \in Record /\ p \in Procs
  BY DEF IInv, Typed, Procs, Children
<1>1. ASSUME AliveAt(r.at)
      PROVE  r.own["die_writer"] # None /\ (p = "child" /\ call.daemon => r.own["pid_writer"] # None)
  BY <1>0, <1>1 DEF Holders, Alive
<1>2. ASSUME NEW x \in Record, NEW place \in Places, To(p, place, x), UNCHANGED <<call, pipes, answer, pids, history>>,
             r.at \in AtWork, place \in Route(p) \ {"running"},
             place = "exec" => x.mask = "empty",
             x.own["die_writer"] = r.own["die_writer"],
             p = "child" => x.own["pid_writer"] = r.own["pid_writer"],
             place \in WithNull => x.own["null"] # None
      PROVE  Protocol'
  <2>1. /\ \A q \in Procs : q # p => proc'[q] = proc[q]
        /\ proc'[p].at = place /\ proc'[p].own = x.own /\ proc'[p].mask = x.mask
    BY <1>0, <1>2, ToFields
  <2>2. r.own["die_writer"] # None /\ (p = "child" /\ call.daemon => r.own["pid_writer"] # None)
    BY <1>1, <1>2 DEF AtWork, AliveAt
  <2> QED BY <1>2, <2>1, <2>2, ChildGoesOn
<1>3. ASSUME NEW E \in SUBSET (Ends \ {"die_writer"}), p = "child" => E \subseteq Ends \ {"pid_writer"}
      PROVE  /\ Without(r, E) \in Record /\ Without(r, E).own["die_writer"] = r.own["die_writer"]
             /\ p = "child" => Without(r, E).own["pid_writer"] = r.own["pid_writer"]
  <2>1. E \in SUBSET Ends
    OBVIOUS
  <2>2. \A e \in Ends : e \notin E => Without(r, E).own[e] = r.own[e]
    BY <1>0, <2>1, Forgets
  <2>3. Without(r, E) \in Record
    BY <1>0, <2>1, WithoutFields
  <2> QED BY <1>3, <2>2, <2>3 DEF Ends
<1>4. p = "grandchild" /\ AliveAt(r.at) => call.daemon
  BY <1>0 DEF Where, AliveAt
<1>5. CASE p = "child" /\ ChildClosesReaders
  <2> DEFINE x == Without(r, {"die_reader", "pid_reader"})
  <2>1. PICK place \in {"setsid", "chdir"} : To(p, place, x) /\ (place = "setsid" <=> call.daemon)
    BY <1>5 DEF ChildClosesReaders
  <2>2. r.at = "close_readers" /\ UNCHANGED <<call, pipes, answer, pids, history>>
    BY <1>5 DEF ChildClosesReaders, At
  <2>3. x \in Record /\ x.own["die_writer"] = r.own["die_writer"] /\ x.own["pid_writer"] = r.own["pid_writer"]
    BY <1>3, <1>5 DEF Ends
  <2> HIDE DEF x, r
  <2> QED BY <1>2, <1>5, <2>1, <2>2, <2>3 DEF AtWork, Route, Places, WithNull
<1>6. CASE p = "child" /\ SetSid
  <2>1. r.at = "setsid" /\ To(p, "fork", r) /\ UNCHANGED <<call, pipes, answer, pids, history>>
    BY <1>6 DEF SetSid, At
  <2>2. call.daemon
    BY <1>0, <1>6, <2>1 DEF Where
  <2> QED BY <1>0, <1>2, <1>6, <2>1, <2>2 DEF AtWork, Route, Places, WithNull
<1>7. CASE p = "grandchild" /\ GrandchildClosesPidWriter
  <2> DEFINE x == Without(r, {"pid_writer"})
  <2>1. r.at = "close_pid_writer" /\ To(p, "chdir", x) /\ UNCHANGED <<call, pipes, answer, pids, history>>
    BY <1>7 DEF GrandchildClosesPidWriter, At
  <2>2. x \in Record /\ x.own["die_writer"] = r.own["die_writer"]
    BY <1>3, <1>7 DEF Ends
  <2> HIDE DEF x, r
  <2> QED BY <1>2, <1>7, <2>1, <2>2 DEF AtWork, Route, Places, WithNull
<1>8. CASE ChangeDirectory(p)
  <2>1. r.at = "chdir" /\ UNCHANGED <<call, pipes, answer, pids, history>>
    BY <1>8 DEF ChangeDirectory, At
  <2>2. PICK place \in {"open_null", "dup2_0"} : To(p, place, r) /\ (place = "open_null" <=> call.daemon)
    BY <1>8 DEF ChangeDirectory
  <2>3. p = "grandchild" <=> call.daemon
    BY <1>0, <2>1 DEF Where, Children
  <2> QED BY <1>0, <1>2, <2>1, <2>2, <2>3 DEF AtWork, Route, Places, WithNull, Children
<1>9. ASSUME NEW i \in Stdio, Redirect(p, i) PROVE Protocol'
  <2> DEFINE from == call.stdio[i]
             x == IF from = None THEN r ELSE Dup2(r, from, i)
             place == IF i < 2 THEN DupAt[i + 1] ELSE "unblock"
  <2>1. r.at = DupAt[i] /\ To(p, place, x) /\ (from # None => from \in Fds)
        /\ UNCHANGED <<call, pipes, answer, pids, history>>
    BY <1>9 DEF Redirect, At
  <2>2. /\ ~call.daemon
        /\ r.at \in {"dup2_0", "dup2_1", "dup2_2"} /\ place \in {"dup2_1", "dup2_2", "unblock"}
    BY <2>1, RedirectPlaces
  <2>3. p = "child"
    BY <1>0, <2>2 DEF Where, Children
  <2>4. x \in Record /\ x.own = r.own
    <3>1. CASE from \in {None, i}
      BY <1>0, <3>1 DEF Dup2
    <3>2. CASE from \notin {None, i}
      <4>1. i \in Fds /\ from \in Fds /\ from # i /\ x = Dup2(r, from, i)
        BY <2>1, <3>2, Numbers
      <4> HIDE DEF from, x, r
      <4> QED BY <1>0, <4>1, Dup2Record
    <3> QED BY <3>1, <3>2
  <2> HIDE DEF x, place
  <2> QED BY <1>2, <2>1, <2>2, <2>3, <2>4 DEF AtWork, Route, Places, WithNull
<1>10. ASSUME NEW i \in Stdio, RedirectNull(p, i) PROVE Protocol'
  <2> DEFINE from == r.own["null"]
             x == Dup2(r, from, i)
             place == IF i < 2 THEN NullAt[i + 1] ELSE "close_null"
  <2>1. r.at = NullAt[i] /\ To(p, place, x) /\ UNCHANGED <<call, pipes, answer, pids, history>>
    BY <1>10 DEF RedirectNull, At
  <2>2. /\ call.daemon /\ from # None
        /\ r.at \in {"null_0", "null_1", "null_2"} /\ place \in {"null_1", "null_2", "close_null"}
    BY <2>1, RedirectPlaces
  <2>3. p = "grandchild"
    BY <1>0, <2>2 DEF Where, Children
  <2>4. x \in Record /\ x.own = r.own
    <3>1. Members(r)
      BY <1>0, <2>2, TableAt DEF AliveAt
    <3>2. from \in Fds /\ from # i /\ i \in Fds
      BY <1>0, <2>2, <3>1, Numbers DEF Members, Record, Ends
    <3> HIDE DEF from, r
    <3> QED BY <1>0, <3>2, Dup2Record
  <2> HIDE DEF x, place
  <2> QED BY <1>2, <2>1, <2>2, <2>3, <2>4 DEF AtWork, Route, Places
<1>11. CASE OpenNull(p)
  <2> DEFINE x == WithEnd(r, "null")
  <2>1. r.at = "open_null" /\ FreeFds(r) # {} /\ To(p, "null_0", x) /\ UNCHANGED <<call, pipes, answer, pids, history>>
    BY <1>11 DEF OpenNull, At
  <2>2. Members(r) /\ Image(call, r, {}) /\ r.own["null"] = None /\ "null" \in Ends
    BY <1>0, <2>1, TableAt DEF AliveAt, SoundAt, Done, WithNull, Ends
  <2>3. x \in Record /\ x.own["null"] # None /\ \A e \in Ends \ {"null"} : x.own[e] = r.own[e]
    BY <1>0, <2>1, <2>2, Opens
  <2>4. p = "grandchild"
    BY <1>0, <2>1 DEF Where, Children
  <2> HIDE DEF x, r
  <2> QED BY <1>2, <2>1, <2>3, <2>4 DEF AtWork, Route, Places, Ends
<1>12. CASE CloseNull(p)
  <2> DEFINE x == Without(r, {"null"})
  <2>1. r.at = "close_null" /\ To(p, "unblock", x) /\ UNCHANGED <<call, pipes, answer, pids, history>>
    BY <1>12 DEF CloseNull, At
  <2>2. /\ x \in Record /\ x.own["die_writer"] = r.own["die_writer"]
        /\ p = "child" => x.own["pid_writer"] = r.own["pid_writer"]
    BY <1>3 DEF Ends
  <2> HIDE DEF x, r
  <2> QED BY <1>2, <2>1, <2>2 DEF AtWork, Route, Places, WithNull, Where, Children, IInv, r
<1>13. CASE UnblockSignals(p)
  <2> DEFINE x == [r EXCEPT !.mask = "empty"]
  <2>1. r.at = "unblock" /\ To(p, "exec", x) /\ UNCHANGED <<call, pipes, answer, pids, history>>
    BY <1>13 DEF UnblockSignals, At
  <2>2. x \in Record /\ x.own = r.own /\ x.mask = "empty"
    BY <1>0, MaskFields
  <2>3. "exec" \in Route(p)
    BY <1>0, <2>1 DEF Where, Route, Children
  <2> HIDE DEF x, r
  <2> QED BY <1>2, <2>1, <2>2, <2>3 DEF AtWork, Places, WithNull
<1>14. CASE Exec(p)
  <2>1. r.at = "exec" /\ proc' = [proc EXCEPT ![p] = Executed(r)] /\ UNCHANGED <<call, pipes, answer, pids, history>>
    BY <1>14 DEF Exec, At
  <2>2. Executed(r).at = "running" /\ Executed(r).mask = r.mask
    BY <1>0, ExecutedFields
  <2>3. r.mask = "empty" /\ "running" \in Route(p)
    BY <1>0, <2>1 DEF Where, Route, Children
  <2>4. proc'[p] = Executed(r) /\ \A q \in Procs : q # p => proc'[q] = proc[q]
    BY <1>0, <2>1 DEF Typed
  <2> QED BY <2>1, <2>2, <2>3, <2>4, ChildGoesOn DEF AtWork, WithNull
<1> QED BY <1>5, <1>6, <1>7, <1>8, <1>9, <1>10, <1>11, <1>12, <1>13, <1>14 DEF RunnerStep

\* Every step keeps who is where and what was said.
LEMMA ProtocolKept ==
  ASSUME IInv, [Next]_vars
  PROVE  Protocol'
<1>1. CASE ParentStep
  BY <1>1, ParentProtocol
<1>2. CASE DaemonStep
  BY <1>2, ChildProtocol, ForkGrandchildProtocol, QuitProtocol DEF DaemonStep, Children
<1>3. ASSUME NEW p \in Children, ChildStep(p) \/ Kill(p) PROVE Protocol'
  BY <1>3, ChildProtocol, ChildFailsProtocol, DieProtocol, EndProtocol DEF ChildStep
<1>4. CASE OtherForks \/ OtherExecs
  BY <1>4, OtherProtocol
<1>5. CASE UNCHANGED vars
  BY <1>5 DEF IInv, vars, pipes, history, Protocol, Where, Order, Holders, Said, Reported, At, Alive, Created,
              Speaker, CommandRan, Runner
<1> QED BY <1>1, <1>2, <1>3, <1>4, <1>5 DEF Next, Children, Finished

----
(* The rest of the invariant, and the theorems.                             *)

\* Every step keeps the types.
LEMMA TypedKept ==
  ASSUME IInv, [Next]_vars
  PROVE  Typed'
<1>0. Typed /\ call' = call /\ proc' \in [Procs -> Record]
  BY TablesKept DEF IInv
<1>1. /\ call' \in [daemon : BOOLEAN, stdio : [Stdio -> Sources], coe : Flags]
      /\ call'.daemon => call'.stdio = [i \in Stdio |-> None]
  BY <1>0 DEF Typed
<1> DEFINE Rest == /\ die' \in Seq(Codes) /\ pid' \in Seq({"grandchild"})
                   /\ answer' \in Codes /\ failed' \in [Procs -> Places] /\ killed' \subseteq Procs
                   /\ pids' \in [first : {"none", "child"}, second : {"none", "grandchild"}]
<1>2. \A p \in Procs : proc[p].at \in Places
  BY <1>0 DEF Typed, Record
<1>3. ASSUME ReadDie PROVE Rest
  BY <1>0, <1>3 DEF ReadDie, Typed, history, Codes
<1>4. ASSUME ReadPid PROVE Rest
  <2>1. pid # <<>> => Head(pid) = "grandchild" /\ Tail(pid) \in Seq({"grandchild"})
    BY <1>0 DEF Typed
  <2>2. pid' \in Seq({"grandchild"}) /\ pids' \in [first : {"none", "child"}, second : {"none", "grandchild"}]
    BY <1>0, <1>4, <2>1 DEF ReadPid, Typed
  <2> QED BY <1>0, <1>4, <2>2 DEF ReadPid, Typed, history
<1>5. ASSUME ParentFails PROVE Rest
  BY <1>0, <1>2, <1>5 DEF ParentFails, Typed, pipes, Codes, Procs
<1>6. ASSUME ForkChild PROVE Rest
  BY <1>0, <1>6 DEF ForkChild, Typed, pipes, history
<1>7. ASSUME Quit PROVE Rest
  BY <1>0, <1>7 DEF Quit, Typed, history
<1>8. ASSUME NEW p \in Children, ChildFails(p) PROVE Rest
  BY <1>0, <1>2, <1>8 DEF ChildFails, Typed, pipes, Children, Procs
<1>9. ASSUME NEW p \in Children, Die(p) PROVE Rest
  <2>1. failed[p] \in Codes
    BY <1>0 DEF Typed, Codes, Children, Procs
  <2> QED BY <1>0, <1>9, <2>1 DEF Die, Typed, history
<1>10. ASSUME NEW p \in Children, Kill(p) PROVE Rest
  BY <1>0, <1>10 DEF Kill, Typed, pipes, Children, Procs
<1>11. ASSUME UNCHANGED <<pipes, answer, pids, history>> PROVE Rest
  BY <1>0, <1>11 DEF Typed, pipes, history
<1>12. Rest
  <2>1. ASSUME NEW p \in Children, ChildStep(p) PROVE Rest
    <3>1. CASE RunnerStep(p) \/ Exit(p)
      BY <1>11, <3>1 DEF RunnerStep, ChangeDirectory, Redirect, RedirectNull, OpenNull, CloseNull, UnblockSignals,
                        Exec, Exit
    <3> QED BY <1>8, <1>9, <2>1, <3>1 DEF ChildStep
  <2>2. CASE ParentStep
    <3>1. CASE BlockSignals \/ OpenDie \/ OpenPid \/ CloseWriters \/ Leave
      BY <1>11, <3>1 DEF BlockSignals, OpenDie, OpenPid, OpenPipe, CloseWriters, Leave
    <3> QED BY <1>3, <1>4, <1>5, <1>6, <2>2, <3>1 DEF ParentStep
  <2>3. CASE DaemonStep
    <3>1. CASE ChildClosesReaders \/ SetSid \/ ForkGrandchild \/ GrandchildClosesPidWriter
      BY <1>11, <3>1 DEF ChildClosesReaders, SetSid, ForkGrandchild, GrandchildClosesPidWriter
    <3> QED BY <1>7, <2>3, <3>1 DEF DaemonStep
  <2>4. CASE OtherForks \/ OtherExecs \/ Finished \/ UNCHANGED vars
    BY <1>11, <2>4 DEF OtherForks, OtherExecs, Finished, vars
  <2> QED BY <1>10, <2>1, <2>2, <2>3, <2>4 DEF Next, Children
<1> QED BY <1>0, <1>1, <1>12 DEF Typed

\* A child comes to run the command only by exec.
LEMMA RunsByExec ==
  ASSUME IInv, [Next]_vars, NEW p \in Children, proc'[p].at = "running"
  PROVE  proc'[p] = proc[p] \/ Exec(p)
<1>0. Typed /\ p \in Procs
  BY DEF IInv, Children, Procs
<1>1. ASSUME NEW q \in Procs, NEW s, proc' = [proc EXCEPT ![q] = s], s.at # "running" \/ q # p
      PROVE  proc'[p] = proc[p]
  BY <1>0, <1>1 DEF Typed
<1>2. ASSUME NEW q \in Procs, NEW x, NEW place, To(q, place, x), place # "running"
      PROVE  proc'[p] = proc[p]
  <2> DEFINE s == [x EXCEPT !.at = place]
  <2>1. proc' = [proc EXCEPT ![q] = s]
    BY <1>2 DEF To
  <2>2. s = proc'[q]
    BY <1>0, <2>1 DEF Typed
  <2>3. s \in Record
    BY <2>2, TablesKept
  <2>4. s.at = place
    BY <2>3 DEF Record
  <2> HIDE DEF s
  <2> QED BY <1>1, <1>2, <2>1, <2>4
<1>3. ASSUME NEW q \in Procs, NEW place, NEW o \in Procs \ {q}, NEW start, Fork(q, place, o, start),
             place # "running", start # "running"
      PROVE  proc'[p] = proc[p]
  BY <1>0, <1>3 DEF Fork, Typed, Record
<1>4. CASE ParentStep
  <2>1. "parent" \in Procs /\ "child" \in Procs \ {"parent"}
    BY DEF Procs
  <2>2. CASE ForkChild
    BY <1>3, <2>1, <2>2 DEF ForkChild
  <2>3. CASE BlockSignals \/ OpenDie \/ OpenPid \/ ParentFails \/ CloseWriters \/ ReadDie \/ ReadPid \/ Leave
    <3>1. \E place, x : To("parent", place, x) /\ place # "running"
      BY <2>3 DEF BlockSignals, OpenDie, OpenPid, OpenPipe, ParentFails, CloseWriters, ReadDie, ReadPid, Leave
    <3> QED BY <1>2, <2>1, <3>1
  <2> QED BY <1>4, <2>2, <2>3 DEF ParentStep
<1>5. CASE DaemonStep
  <2>1. "child" \in Procs /\ "grandchild" \in Procs \ {"child"}
    BY DEF Procs
  <2>2. CASE ForkGrandchild
    BY <1>3, <2>1, <2>2 DEF ForkGrandchild
  <2>3. CASE ChildClosesReaders \/ SetSid \/ Quit
    <3>1. \E place, x : To("child", place, x) /\ place # "running"
      BY <2>3 DEF ChildClosesReaders, SetSid, Quit
    <3> QED BY <1>2, <2>1, <3>1
  <2>4. CASE GrandchildClosesPidWriter
    BY <1>2, <2>1, <2>4 DEF GrandchildClosesPidWriter
  <2> QED BY <1>5, <2>2, <2>3, <2>4 DEF DaemonStep
<1>6. ASSUME NEW q \in Children, ChildStep(q) \/ Kill(q) PROVE proc'[p] = proc[p] \/ Exec(p)
  <2>1. q \in Procs
    BY DEF Children, Procs
  <2>2. CASE Exec(q)
    BY <1>1, <2>1, <2>2 DEF Exec
  <2>3. CASE Exit(q) \/ Kill(q)
    BY <1>1, <2>1, <2>3 DEF Exit, Kill, Nobody
  <2>4. CASE \/ ChangeDirectory(q) \/ \E i \in Stdio : Redirect(q, i) \/ RedirectNull(q, i)
             \/ OpenNull(q) \/ CloseNull(q) \/ UnblockSignals(q) \/ ChildFails(q) \/ Die(q)
    <3>1. \E place, x : To(q, place, x) /\ place # "running"
      BY <2>4, RedirectPlaces DEF ChangeDirectory, Redirect, RedirectNull, OpenNull, CloseNull, UnblockSignals,
                                  ChildFails, Die
    <3> QED BY <1>2, <2>1, <3>1
  <2> QED BY <1>6, <2>2, <2>3, <2>4 DEF ChildStep, RunnerStep
<1>7. CASE OtherForks \/ OtherExecs
  <2>1. p # "other" /\ "other" \in Procs
    BY DEF Children, Procs
  <2> QED BY <1>1, <1>7, <2>1 DEF OtherForks, OtherExecs
<1>8. CASE Finished \/ UNCHANGED vars
  BY <1>8 DEF Finished, vars
<1> QED BY <1>4, <1>5, <1>6, <1>7, <1>8 DEF Next, Children

\* What exec leaves is what the command should see.
LEMMA ExecutedSees ==
  ASSUME Typed, NEW r \in Record, Members(r), Image(call, r, Stdio), Separate
  PROVE  \A n \in Fds : Executed(r).fds[n] = Expected(n)
<1> DEFINE s == Executed(r)
<1>1. s.fds = [n \in Fds |-> IF n \in r.coe THEN Free ELSE r.fds[n]]
  BY ExecutedFields
<1>2. \A n \in Fds \ Opened : s.fds[n] = Free
  BY ExecutedTable
<1> HIDE DEF s
<1>3. Apart(call)
  BY DEF Separate, Apart
<1>4. call.coe \subseteq Opened /\ (call.daemon \in BOOLEAN)
  BY ForkExecAssumption DEF Typed
<1>5. ASSUME NEW n \in Fds \ Opened PROVE s.fds[n] = Expected(n)
  BY <1>2, <1>4, <1>5, Numbers DEF Expected, AtCall
<1>6. ASSUME NEW n \in Opened \ Stdio PROVE s.fds[n] = Expected(n)
  <2>1. AsCalled(call, r, n)
    BY DEF Image
  <2> QED BY <1>1, <2>1, Numbers DEF AsCalled, Expected, AtCall
<1>7. ASSUME NEW n \in Stdio PROVE s.fds[n] = Expected(n)
  <2>1. Redirected(call, r, n) /\ n \in Opened /\ n \in Fds
    BY Numbers DEF Image
  <2> QED BY <1>1, <1>3, <2>1 DEF Redirected, AsCalled, Expected, AtCall
<1> QED BY <1>5, <1>6, <1>7 DEF s

\* Every step keeps what the command has.
LEMMA CommandKept ==
  ASSUME IInv, [Next]_vars
  PROVE  Command'
<1>0. Typed /\ Tables /\ Command /\ call' = call
  BY TablesKept DEF IInv
<1>1. Runner' = Runner /\ Runner \in Children /\ (Separate' <=> Separate) /\ \A n \in Fds : Expected(n)' = Expected(n)
  BY <1>0 DEF Runner, Children, Separate, Expected
<1>2. SUFFICES ASSUME proc'[Runner].at = "running"
               PROVE  proc'[Runner].mask = "empty" /\ (Separate => \A n \in Fds : proc'[Runner].fds[n] = Expected(n))
  BY <1>1 DEF Command, At
<1>3. CASE proc'[Runner] = proc[Runner]
  BY <1>0, <1>2, <1>3 DEF Command, At
<1>4. CASE Exec(Runner)
  <2> DEFINE r == proc[Runner]
  <2>1. r.at = "exec" /\ proc' = [proc EXCEPT ![Runner] = Executed(r)] /\ Runner \in Procs
    BY <1>1, <1>4 DEF Exec, At, Children, Procs
  <2>2. proc'[Runner] = Executed(r)
    BY <1>0, <2>1 DEF Typed
  <2>3. r \in Record /\ Members(r) /\ Image(call, r, Stdio)
    BY <1>0, <2>1, TableAt DEF AliveAt, SoundAt, Done
  <2>4. r.mask = "empty"
    BY <1>1, <2>1 DEF IInv, Where
  <2>5. Executed(r).mask = r.mask
    BY <2>3, ExecutedFields
  <2> HIDE DEF r
  <2> QED BY <1>0, <2>2, <2>3, <2>4, <2>5, ExecutedSees
<1> QED BY <1>1, <1>2, <1>3, <1>4, RunsByExec

\* The initial states.
LEMMA InitIInv == Init => IInv
<1> SUFFICES ASSUME Init PROVE IInv
  OBVIOUS
<1> DEFINE r == [Nobody EXCEPT !.at = "ready", !.fds = AtCall, !.coe = call.coe, !.mask = "caller"]
<1>1. call \in [daemon : BOOLEAN, stdio : [Stdio -> Sources], coe : Flags]
      /\ (call.daemon => call.stdio = [i \in Stdio |-> None])
      /\ call.coe \subseteq Opened /\ call.coe \subseteq Fds
  BY ForkExecAssumption DEF Init
<1>2. AtCall \in [Fds -> Files] /\ NoEnds \in [Ends -> Fds \cup {None}] /\ "ready" \in Places /\ "none" \in Places
  BY DEF AtCall, Files, NoEnds, Places
<1>3. r \in Record /\ r.at = "ready" /\ r.fds = AtCall /\ r.coe = call.coe /\ r.own = NoEnds /\ r.mask = "caller"
  BY <1>1, <1>2 DEF Nobody, Record
<1>4. proc = [p \in Procs |-> IF p = "parent" THEN r ELSE Nobody]
  BY DEF Init
<1>5. Nobody \in Record /\ Nobody.at = "none" /\ Nobody.own = NoEnds
  BY <1>2 DEF Nobody, Record, Files
<1>6. Row(call, r)
  <2> HIDE DEF r
  <2>1. \A e \in Ends : r.own[e] = None
    BY <1>3 DEF NoEnds
  <2>2. \A n \in Opened : AsCalled(call, r, n)
    BY <1>3, Numbers DEF AsCalled, AtCall
  <2>3. \A n \in Fds \ Opened : r.fds[n] = Free /\ n \notin r.coe
    BY <1>1, <1>3 DEF AtCall
  <2>4. Members(r) /\ Image(call, r, {})
    BY <2>1, <2>2, <2>3 DEF Members, Image
  <2>5. Fresh(r)
    BY <1>3, <2>1 DEF Fresh, Ends
  <2> QED BY <1>3, <2>4, <2>5 DEF Row, AliveAt, SoundAt, Done
<1>7. Row(call, Nobody)
  BY <1>5 DEF Row, Fresh, AliveAt, SoundAt, NoEnds, Ends
<1> HIDE DEF r
<1>8. /\ proc["parent"].at = "ready" /\ proc["parent"].mask = "caller"
      /\ proc["child"].at = "none" /\ proc["grandchild"].at = "none" /\ proc["other"].at = "none"
  BY <1>3, <1>4, <1>5 DEF Procs
<1>9. /\ die = <<>> /\ pid = <<>> /\ answer = "none" /\ pids = [first |-> "none", second |-> "none"]
      /\ failed = [p \in Procs |-> "none"] /\ killed = {}
  BY DEF Init
<1>10. Typed
  BY <1>1, <1>2, <1>3, <1>4, <1>5, <1>9 DEF Typed, Codes
<1>11. Tables
  BY <1>4, <1>6, <1>7 DEF Tables
<1>12. Command
  BY <1>8 DEF Command, At, Runner
<1>13. Where
  BY <1>8 DEF Where, At, Children
<1>14. Order
  BY <1>8, <1>9 DEF Order, At, Children, Created, Procs
<1>15. Holders
  BY <1>8 DEF Holders, At, Children, Alive, AliveAt, WithNull
<1>16. Said
  BY <1>8, <1>9 DEF Said, Children
<1>17. Reported
  BY <1>8, <1>9 DEF Reported, Created, At
<1> QED BY <1>10, <1>11, <1>12, <1>13, <1>14, <1>15, <1>16, <1>17 DEF IInv

\* The invariant holds in every reachable state.
THEOREM Invariance == Spec => []IInv
<1>1. Init => IInv
  BY InitIInv
<1>2. IInv /\ [Next]_vars => IInv'
  BY TypedKept, TablesKept, CommandKept, ProtocolKept DEF IInv, Protocol
<1> QED BY <1>1, <1>2, PTL DEF Spec

\* The types, and that every file_descriptor member of forkexec_impl names an
\* open close-on-exec descriptor of its own: no dup2 of forkexec.cpp:112-145
\* replaces one, whatever numbers of stdio the caller redirects.
THEOREM TypeCorrect == Spec => []TypeOK
<1>1. IInv => TypeOK
  <2> SUFFICES ASSUME IInv PROVE TypeOK
    OBVIOUS
  <2>1. Typed /\ Tables
    BY DEF IInv
  <2>2. ASSUME NEW p \in Procs, NEW e \in Ends, proc[p].own[e] # None
        PROVE  proc[p].fds[proc[p].own[e]] = <<e>> /\ proc[p].own[e] \in proc[p].coe
    <3>1. AliveAt(proc[p].at)
      BY <2>1, <2>2 DEF Tables, Row, Fresh, AliveAt, NoEnds
    <3> QED BY <2>1, <2>2, <3>1 DEF Tables, Row, Members
  <2> QED BY <2>1, <2>2 DEF TypeOK, Typed, Record, Codes
<1> QED BY <1>1, Invariance, PTL

\* The answer of forkexec and forkexec_daemon is true of what became of the
\* command, wherever a call fails or a child is killed (forkexec.cpp:199-205
\* and 265-272).
THEOREM AnswerCorrect == Spec => []AnswerIsTrue
<1>1. IInv => AnswerIsTrue
  <2> SUFFICES ASSUME IInv, Returned PROVE AnswerIsTrue
    BY DEF AnswerIsTrue
  <2>1. Where /\ Order /\ Said /\ proc["parent"].at = "returned" /\ "success" \notin Places
    BY DEF IInv, Returned, At, Places
  <2>2. CASE answer = "success"
    BY <2>1, <2>2 DEF AnswerIsTrue, Said, CommandRan
  <2>3. CASE answer \in Places \ {"none"} /\ failed["parent"] = answer /\ ~Created("child")
    BY <2>1, <2>3 DEF AnswerIsTrue, Order, Created, At, Runner, Procs
  <2>4. CASE answer \in Places \ {"none"} /\ Speaker(answer)
    BY <2>1, <2>4 DEF AnswerIsTrue, Speaker, Created, At, Runner, Procs, Children
  <2> QED BY <2>1, <2>2, <2>3, <2>4 DEF Said
<1> QED BY <1>1, Invariance, PTL

\* The pids that are reported are those of the processes that were made
\* (forkexec.cpp:190, 244 and 266).
THEOREM PidsCorrect == Spec => []PidsAreTrue
<1>1. IInv => PidsAreTrue
  BY DEF IInv, PidsAreTrue, Returned, Typed, Where, Order, Reported, At, Created
<1> QED BY <1>1, Invariance, PTL

\* The caller has its descriptors, its close-on-exec flags and its signal mask
\* back at every return (forkexec.cpp:178-188 and 229-242).
THEOREM CallerRestored == Spec => []CallerUnchanged
<1>1. IInv => CallerUnchanged
  <2> SUFFICES ASSUME IInv, Returned PROVE CallerUnchanged
    BY DEF CallerUnchanged
  <2> DEFINE r == proc["parent"]
  <2>1. Typed /\ Tables /\ r.at = "returned" /\ r.mask = "caller" /\ "parent" \in Procs
    BY DEF IInv, Where, Returned, At, Procs
  <2>2. r \in Record /\ Image(call, r, {}) /\ r.own = NoEnds
    BY <2>1 DEF Typed, Tables, Row, Fresh, AliveAt, SoundAt, Done
  <2>3. call.coe \subseteq Opened /\ r.coe \subseteq Fds /\ r.fds \in [Fds -> Files]
    BY <2>1, <2>2, ForkExecAssumption DEF Typed, Record
  <2> HIDE DEF r
  <2>4. \A n \in Opened : r.fds[n] = <<"file", n>> /\ (n \in r.coe <=> n \in call.coe)
    BY <2>2 DEF Image, AsCalled
  <2>5. \A n \in Fds \ Opened : r.fds[n] = Free /\ n \notin r.coe
    BY <2>2, Numbers DEF Image, NoEnds
  <2>6. r.fds = AtCall
    BY <2>3, <2>4, <2>5 DEF AtCall
  <2>7. r.coe = call.coe
    BY <2>3, <2>4, <2>5, Numbers
  <2> QED BY <2>1, <2>6, <2>7 DEF CallerUnchanged, r
<1> QED BY <1>1, Invariance, PTL

\* The command finds the stdio that was asked for and nothing it should not
\* have, and no end of a pipe stays in a program (forkexec.cpp:112-151).
THEOREM CommandCorrect == Spec => []CommandSees
<1>1. IInv => CommandSees
  <2> SUFFICES ASSUME IInv PROVE CommandSees
    OBVIOUS
  <2>1. ASSUME NEW p \in Procs, NEW e \in Ends \ {"null"}, At(p, "running") PROVE ~HasFile(p, <<e>>)
    BY <2>1 DEF IInv, Tables, Row, At, HasFile
  <2> QED BY <2>1 DEF IInv, Command, CommandSees
<1> QED BY <1>1, Invariance, PTL

===============================================================================
