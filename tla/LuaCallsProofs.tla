----------------------------- MODULE LuaCallsProofs -----------------------------
(***************************************************************************)
(* Theorems about LuaCalls: what the functions of the module report, what   *)
(* they leave open and what an object closes, whichever of their steps      *)
(* fails.  The invariant says what may be left of a function at each point  *)
(* of it, and that every function of Bindings is of that form is proved     *)
(* first.                                                                   *)
(***************************************************************************)
EXTENDS LuaCalls, SequenceLemmas

----
(* The form of a function.                                                  *)

PlainOps == {"check", "buffer", "call", "silent", "late_call", "clear", "probe",
             "throwing_probe", "mask", "push", "close", "adopt"}
Plain == PlainOps \X Int
AnyStep ==
  (PlainOps \cup {"native", "gai", "block", "open", "mkstemp", "coe", "mode", "release",
                  "restore", "own", "free", "drop", "unlink", "error", "unset", "throw",
                  "bad_alloc", "code"}) \X Int
Probing == {"probe", "throwing_probe"} \X Int

\* Steps with nothing held: a probe follows the step that clears errno.
PlainSteps ==
  {p \in Seq(Plain) : \A i \in 1 .. Len(p) : i > 1 /\ p[i] \in Probing => p[i - 1] = <<"clear", 0>>}

\* The same from the start of a function
PlainStart == {p \in PlainSteps : p # <<>> => p[1] \notin Probing}

\* n descriptors are held and get an object, or the one is freed.
Rest(n) ==
  IF n = 1 THEN {<<<<"own", 0>>>>, <<<<"own", 0>>, <<"push", 0>>>>,
                 <<<<"push", 0>>, <<"own", 0>>>>, <<<<"push", 0>>, <<"free", 0>>>>,
                 <<<<"free", 0>>>>}
           ELSE {<<<<"own", 0>>, <<"own", 0>>>>}

FlagOp(f) == IF f = "cloexec" THEN "coe" ELSE "mode"

\* The flags of n descriptors are set one by one.
FlagSet(n) == {"coe", "mode"} \X (1 .. n)
FlagSteps(n) ==
  {s \in Seq(AnyStep) : \E f \in Seq(FlagSet(n)), r \in Rest(n) : s = f \o (<<<<"release", 0>>>> \o r)}

OpenOps(n) == {<<"open", n>>} \cup IF n = 1 THEN {<<"mkstemp", 0>>} ELSE {}

\* Signals are blocked, and the descriptors to be opened.
OpenSteps(n, w) ==
  {s \in Seq(AnyStep) :
     /\ s # <<>> /\ Head(s) \in OpenOps(n) /\ Tail(s) \in FlagSteps(n)
     /\ \A f \in w, i \in 1 .. n : <<FlagOp(f), i>> \in Range(Tail(s))}

\* The part of a function from the step that opens descriptors on
Opens(w) ==
  {s \in Seq(AnyStep) :
     /\ s # <<>>
     /\ \/ \E n \in 1 .. 2 : Head(s) \in {<<"native", n>>, <<"gai", n>>} /\ Tail(s) \in Rest(n)
        \/ Head(s) = <<"gai", 0>> /\ Tail(s) = <<<<"push", 0>>>>
        \/ Head(s) = <<"block", 0>> /\ \E n \in 1 .. 2 : Tail(s) \in OpenSteps(n, w)}

\* What may be left of a function while it holds nothing, and all of it
Calls(w) == {s \in Seq(AnyStep) : \E p \in PlainSteps, t \in Opens(w) \cup {<<>>} : s = p \o t}
Functions(w) == {s \in Seq(AnyStep) : \E p \in PlainStart, t \in Opens(w) \cup {<<>>} : s = p \o t}

----
(* Sequences of steps.                                                      *)

LEMMA StepKinds == Plain \subseteq AnyStep /\ Probing \subseteq Plain
BY DEF Plain, PlainOps, AnyStep, Probing

LEMMA PlainJoin ==
  ASSUME NEW p \in PlainStart, NEW q \in PlainStart
  PROVE  p \o q \in PlainStart
<1> DEFINE r == p \o q
<1>0. p \in Seq(Plain) /\ q \in Seq(Plain)
  BY DEF PlainStart, PlainSteps
<1>1. /\ r \in Seq(Plain) /\ Len(r) = Len(p) + Len(q) /\ Len(p) \in Nat /\ Len(q) \in Nat
      /\ \A i \in 1 .. Len(p) + Len(q) : r[i] = IF i <= Len(p) THEN p[i] ELSE q[i - Len(p)]
  BY <1>0, ConcatProperties, LenProperties
<1> HIDE DEF r
<1>2. ASSUME NEW i \in 1 .. Len(r), r[i] \in Probing
      PROVE  i > 1 /\ r[i - 1] = <<"clear", 0>>
  <2>1. CASE i <= Len(p)
    <3>1. p # <<>> /\ i \in 1 .. Len(p) /\ p[i] \in Probing
      BY <1>0, <1>1, <1>2, <2>1
    <3>2. i > 1 /\ p[i - 1] = <<"clear", 0>>
      BY <3>1, <1>1 DEF PlainStart, PlainSteps
    <3> QED BY <1>1, <2>1, <3>2
  <2>2. CASE i > Len(p)
    <3>1. q # <<>> /\ i - Len(p) \in 1 .. Len(q) /\ q[i - Len(p)] \in Probing
      BY <1>0, <1>1, <1>2, <2>2
    <3>2. i - Len(p) > 1 /\ q[i - Len(p) - 1] = <<"clear", 0>>
      BY <3>1, <1>1 DEF PlainStart, PlainSteps
    <3>3. r[i - 1] = q[i - 1 - Len(p)]
      BY <1>1, <2>2, <3>1, <3>2
    <3> QED BY <1>1, <3>2, <3>3
  <2> QED BY <1>1, <1>2, <2>1, <2>2
<1>3. r # <<>> => 1 \in 1 .. Len(r)
  BY <1>1, EmptySeq
<1>4. r \in PlainSteps
  BY <1>1, <1>2 DEF PlainSteps
<1>5. r # <<>> => r[1] \notin Probing
  BY <1>2, <1>3
<1>6. r \in PlainStart
  BY <1>4, <1>5 DEF PlainStart
<1> QED BY <1>6 DEF r

\* The short sequences of Bindings
LEMMA PlainOne ==
  ASSUME NEW op \in PlainOps \ {"probe", "throwing_probe"}, NEW n \in Int
  PROVE  <<<<op, n>>>> \in PlainStart
<1>1. <<op, n>> \in Plain
  BY DEF Plain
<1>2. <<op, n>> \notin Probing
  BY DEF Probing
<1> DEFINE a == <<op, n>>
<1>0. a \in Plain
  BY <1>1
<1> HIDE DEF a
<1>3. <<a>> \in Seq(Plain) /\ Len(<<a>>) = 1 /\ <<a>>[1] = a
  BY <1>0
<1>4. \A i \in 1 .. 1 : i = 1
  BY SMT
<1>5. <<a>> \in PlainStart
  BY <1>2, <1>3, <1>4 DEF PlainStart, PlainSteps, a
<1> QED BY <1>5 DEF a

LEMMA PlainEmpty == <<>> \in PlainStart
BY DEF PlainStart, PlainSteps

LEMMA PlainShort ==
  /\ \A n \in Int : Args(n) \in PlainStart
  /\ \A op \in PlainOps \ {"probe", "throwing_probe"} : Step(op) \in PlainStart
  /\ \A n \in Int : Call(n) \in PlainStart /\ Result(n) \in PlainStart
<1>1. \A n \in Int : Args(n) \in PlainStart
  BY PlainOne DEF Args, PlainOps
<1>2. \A op \in PlainOps \ {"probe", "throwing_probe"} : Step(op) \in PlainStart
  <2> TAKE op \in PlainOps \ {"probe", "throwing_probe"}
  <2> QED BY PlainOne, 0 \in Int DEF Step
<1>3. Step("call") \in PlainStart /\ Step("push") \in PlainStart
  BY <1>2, {"call", "push"} \subseteq PlainOps \ {"probe", "throwing_probe"} DEF PlainOps
<1> QED BY <1>1, <1>2, <1>3, PlainJoin DEF Call, Result

----
(* Every function of Bindings has that form.                                *)

PlainTable(m) == \A f \in m : f[2] \in PlainStart
Table(m, w) == \A f \in m : f[2] \in Functions(w)

LEMMA TableOfOne ==
  ASSUME NEW names, NEW s
  PROVE  /\ s \in PlainStart => PlainTable(Names(names, s))
         /\ \A w : s \in Functions(w) => Table(Names(names, s), w)
BY DEF PlainTable, Table, Names

LEMMA TableOfTwo ==
  ASSUME NEW f, NEW g
  PROVE  /\ PlainTable(f) /\ PlainTable(g) => PlainTable(f \cup g)
         /\ \A w : Table(f, w) /\ Table(g, w) => Table(f \cup g, w)
BY DEF PlainTable, Table

LEMMA PlainIsFunction == \A w : PlainStart \subseteq Functions(w)
<1> TAKE w
<1> SUFFICES ASSUME NEW p \in PlainStart PROVE p \in Functions(w)
  OBVIOUS
<1>0. p \in Seq(Plain)
  BY DEF PlainStart, PlainSteps
<1>1. p \o <<>> = p
  BY <1>0, ConcatEmptySeq
<1>2. <<>> \in Opens(w) \cup {<<>>}
  OBVIOUS
<1>3. p \in Seq(AnyStep)
  BY <1>0, StepKinds, SeqMonotonic
<1> QED BY <1>1, <1>2, <1>3, Zenon DEF Functions

LEMMA PlainTableIsTable ==
  ASSUME NEW m, PlainTable(m) PROVE \A w : Table(m, w)
BY PlainIsFunction DEF PlainTable, Table

\* The steps that the tables are built from
LEMMA PlainPieces ==
  /\ <<>> \in PlainStart
  /\ Step("push") \in PlainStart /\ Step("call") \in PlainStart
  /\ Step("buffer") \in PlainStart /\ Step("mask") \in PlainStart
  /\ Step("silent") \in PlainStart /\ Step("late_call") \in PlainStart
  /\ Step("close") \in PlainStart /\ Step("adopt") \in PlainStart
  /\ Args(1) \in PlainStart /\ Args(2) \in PlainStart /\ Args(3) \in PlainStart
  /\ Args(4) \in PlainStart
  /\ Call(1) \in PlainStart /\ Call(2) \in PlainStart /\ Call(3) \in PlainStart
  /\ Call(4) \in PlainStart /\ Call(5) \in PlainStart /\ Call(6) \in PlainStart
  /\ Result(1) \in PlainStart /\ Result(2) \in PlainStart
<1>1. {"push", "call", "buffer", "mask", "silent", "late_call", "close", "adopt"}
        \subseteq PlainOps \ {"probe", "throwing_probe"}
  BY DEF PlainOps
<1>2. 1 .. 6 \subseteq Int
  OBVIOUS
<1> QED BY <1>1, PlainShort, PlainEmpty

\* A probe right after errno is cleared
LEMMA PlainProbe ==
  /\ Args(1) \o Step("clear") \o Step("probe") \in PlainStart
  /\ Args(1) \o Step("clear") \o Step("throwing_probe") \in PlainStart
<1>1. ASSUME NEW s \in {<<"probe", 0>>, <<"throwing_probe", 0>>}
      PROVE  Args(1) \o <<<<"clear", 0>>>> \o <<s>> \in PlainStart
  <2> DEFINE c == <<"clear", 0>>
  <2>1. c \in Plain /\ s \in Plain /\ c \notin Probing
    BY DEF Plain, PlainOps, Probing
  <2>2. c = <<"clear", 0>>
    OBVIOUS
  <2> HIDE DEF c
  <2> DEFINE r == <<c>> \o <<s>>
  <2>3. <<c>> \in Seq(Plain) /\ <<s>> \in Seq(Plain)
    BY <2>1
  <2>4. r \in Seq(Plain) /\ Len(r) = 2 /\ r[1] = c /\ r[2] = s
    BY <2>3
  <2> HIDE DEF r
  <2>5. \A i \in 1 .. 2 : i > 1 => r[i - 1] = c
    BY <2>4
  <2>6. r \in PlainSteps
    BY <2>2, <2>4, <2>5 DEF PlainSteps
  <2>7. r \in PlainStart
    BY <2>1, <2>4, <2>6 DEF PlainStart
  <2>8. Args(1) \in PlainStart /\ Args(1) \in Seq(Plain)
    BY PlainPieces DEF PlainStart, PlainSteps
  <2>9. Args(1) \o r \in PlainStart
    BY <2>7, <2>8, PlainJoin
  <2>10. Args(1) \o r = Args(1) \o <<c>> \o <<s>>
    BY <2>3, <2>8, ConcatAssociative DEF r
  <2> QED BY <2>9, <2>10 DEF c
<1> QED BY <1>1 DEF Step

LEMMA PlainTables ==
  /\ PlainTable(unistd) /\ PlainTable(fd_unistd) /\ PlainTable(fd_djb)
  /\ PlainTable(fd_socket) /\ PlainTable(fd_transfer) /\ PlainTable(termios)
  /\ PlainTable(fd_termios) /\ PlainTable(sys_stat) /\ PlainTable(sys_statvfs)
  /\ PlainTable(sys_xattr) /\ PlainTable(pwd) /\ PlainTable(signal)
  /\ PlainTable(syslog) /\ PlainTable(sys_wait) /\ PlainTable(sys_mman)
  /\ PlainTable(sys_utsname) /\ PlainTable(sched) /\ PlainTable(timer)
  /\ PlainTable(int) /\ PlainTable(time) /\ PlainTable(process)
  /\ PlainTable(pathexec) /\ PlainTable(error) /\ PlainTable(sockaddr)
  /\ PlainTable(fd)
<1>1. \A p, q : p \in PlainStart /\ q \in PlainStart => p \o q \in PlainStart
  BY PlainJoin
<1>2. \A s, names : s \in PlainStart => PlainTable(Names(names, s))
  BY TableOfOne
<1>3. \A f, g : PlainTable(f) /\ PlainTable(g) => PlainTable(f \cup g)
  BY TableOfTwo
<1> USE <1>1, <1>2, <1>3, PlainPieces
<1>4. PlainTable(unistd)
  BY PlainProbe, ZenonT(30) DEF unistd
<1>5. PlainTable(fd_unistd)
  BY ZenonT(30) DEF fd_unistd
<1>6. PlainTable(fd_djb)
  BY ZenonT(30) DEF fd_djb
<1>7. PlainTable(fd_socket)
  BY ZenonT(30) DEF fd_socket
<1>8. PlainTable(fd_transfer)
  BY ZenonT(30) DEF fd_transfer
<1>9. PlainTable(termios)
  BY ZenonT(30) DEF termios
<1>10. PlainTable(fd_termios)
  BY ZenonT(30) DEF fd_termios
<1>11. PlainTable(sys_stat)
  BY ZenonT(30) DEF sys_stat
<1>12. PlainTable(sys_statvfs)
  BY ZenonT(30) DEF sys_statvfs
<1>13. PlainTable(sys_xattr)
  BY ZenonT(30) DEF sys_xattr
<1>14. PlainTable(pwd)
  BY ZenonT(30) DEF pwd
<1>15. PlainTable(signal)
  BY ZenonT(30) DEF signal
<1>16. PlainTable(syslog)
  BY ZenonT(30) DEF syslog
<1>17. PlainTable(sys_wait)
  BY ZenonT(30) DEF sys_wait
<1>18. PlainTable(sys_mman)
  BY ZenonT(30) DEF sys_mman
<1>19. PlainTable(sys_utsname)
  BY ZenonT(30) DEF sys_utsname
<1>20. PlainTable(sched)
  BY ZenonT(30) DEF sched
<1>21. PlainTable(timer)
  BY ZenonT(30) DEF timer
<1>22. PlainTable(int)
  BY ZenonT(30) DEF int
<1>23. PlainTable(time)
  BY ZenonT(30) DEF time
<1>24. PlainTable(process)
  BY ZenonT(30) DEF process
<1>25. PlainTable(pathexec)
  BY ZenonT(30) DEF pathexec
<1>26. PlainTable(error)
  BY ZenonT(30) DEF error
<1>27. PlainTable(sockaddr)
  BY ZenonT(30) DEF sockaddr
<1>28. PlainTable(fd)
  BY ZenonT(30) DEF fd
<1> QED
  BY <1>4, <1>5, <1>6, <1>7, <1>8, <1>9, <1>10, <1>11, <1>12, <1>13, <1>14, <1>15, <1>16, <1>17, <1>18, <1>19, <1>20, <1>21, <1>22, <1>23, <1>24, <1>25, <1>26, <1>27, <1>28

\* What follows the opening of one or two descriptors
LEMMA RestShapes ==
  /\ Own(1) \in Rest(1) /\ Own(2) \in Rest(2)
  /\ Own(1) \o Step("push") \in Rest(1)
  /\ Step("push") \o Own(1) \in Rest(1)
  /\ Step("push") \o Step("free") \in Rest(1)
  /\ \A n \in 1 .. 2 : Rest(n) \subseteq Seq(AnyStep)
  /\ \A n \in 1 .. 2, x \in AnyStep : <<x>> \in Seq(AnyStep)
<1> DEFINE o == <<"own", 0>>
           u == <<"push", 0>>
           f == <<"free", 0>>
<1>1. o \in AnyStep /\ u \in AnyStep /\ f \in AnyStep
  BY DEF AnyStep, PlainOps
<1>2. o = <<"own", 0>> /\ u = <<"push", 0>> /\ f = <<"free", 0>>
  OBVIOUS
<1>3. \A n \in Int : Own(n) = [i \in 1 .. n |-> o]
  BY DEF Own
<1>4. Step("push") = <<u>> /\ Step("free") = <<f>>
  BY DEF Step
<1>5. /\ Rest(1) = {<<o>>, <<o, u>>, <<u, o>>, <<u, f>>, <<f>>}
      /\ Rest(2) = {<<o, o>>}
  BY DEF Rest
<1> HIDE DEF o, u, f
<1>6. /\ <<o>> \o <<u>> = <<o, u>> /\ <<u>> \o <<o>> = <<u, o>> /\ <<u>> \o <<f>> = <<u, f>>
      /\ \A x, y \in AnyStep : <<x, y>> \in Seq(AnyStep) /\ <<x>> \in Seq(AnyStep)
  BY <1>1, PairOfTwo
<1>7. [i \in 1 .. 1 |-> o] = <<o>> /\ [i \in 1 .. 2 |-> o] = <<o, o>>
  OBVIOUS
<1>8. Rest(1) \subseteq Seq(AnyStep) /\ Rest(2) \subseteq Seq(AnyStep)
  BY <1>1, <1>5, <1>6
<1>9. \A n \in 1 .. 2 : n = 1 \/ n = 2
  OBVIOUS
<1>10. Own(1) = <<o>> /\ Own(2) = <<o, o>>
  BY <1>3, <1>7
<1> QED BY <1>4, <1>5, <1>6, <1>8, <1>9, <1>10

\* The steps that set the flags set every one of them.
LEMMA SetFlagsForm ==
  ASSUME NEW n \in 1 .. 2, NEW w \in SUBSET Flags
  PROVE  /\ SetFlags(n, w) \in Seq(FlagSet(n)) /\ SetFlags(n, w) \in Seq(AnyStep)
         /\ \A f \in w, i \in 1 .. n : <<FlagOp(f), i>> \in Range(SetFlags(n, w))
<1>1. ASSUME NEW op \in {"coe", "mode"}
      PROVE  /\ Each(op, n) \in Seq(FlagSet(n))
             /\ \A i \in 1 .. n : <<op, i>> \in Range(Each(op, n))
  <2>1. \A i \in 1 .. n : <<op, i>> \in FlagSet(n)
    BY DEF FlagSet
  <2>2. Each(op, n) = [i \in 1 .. n |-> <<op, i>>]
    BY DEF Each
  <2>3. [i \in 1 .. n |-> <<op, i>>] \in Seq(FlagSet(n))
    BY <2>1, IsASeq, n \in Nat
  <2>4. \A i \in 1 .. n : <<op, i>> \in Range(Each(op, n))
    BY <2>2 DEF Range
  <2> QED BY <2>2, <2>3, <2>4
<1> DEFINE c == IF "cloexec" \in w THEN Each("coe", n) ELSE <<>>
           m == IF "mode" \in w THEN Each("mode", n) ELSE <<>>
<1>2. SetFlags(n, w) = c \o m
  BY DEF SetFlags
<1>3. c \in Seq(FlagSet(n)) /\ m \in Seq(FlagSet(n))
  BY <1>1
<1>4. /\ "cloexec" \in w => \A i \in 1 .. n : <<"coe", i>> \in Range(c)
      /\ "mode" \in w => \A i \in 1 .. n : <<"mode", i>> \in Range(m)
  BY <1>1
<1> HIDE DEF c, m
<1>5. c \o m \in Seq(FlagSet(n)) /\ Range(c \o m) = Range(c) \cup Range(m)
  BY <1>3, ConcatRange, ConcatProperties
<1>6. ASSUME NEW f \in w, NEW i \in 1 .. n PROVE <<FlagOp(f), i>> \in Range(c \o m)
  <2>1. CASE f = "cloexec"
    BY <2>1, <1>4, <1>5 DEF FlagOp
  <2>2. CASE f = "mode"
    BY <2>2, <1>4, <1>5 DEF FlagOp
  <2> QED BY <2>1, <2>2 DEF Flags
<1>7. FlagSet(n) \subseteq AnyStep
  BY DEF FlagSet, AnyStep, PlainOps
<1>8. c \o m \in Seq(AnyStep)
  BY <1>5, <1>7, SeqMonotonic
<1> QED BY <1>2, <1>5, <1>6, <1>8

\* A fallback, before what is done with the descriptors
LEMMA FallbackOpens ==
  ASSUME NEW n \in 1 .. 2, NEW w \in SUBSET Flags, NEW o \in OpenOps(n), NEW r \in Rest(n)
  PROVE  /\ Fallback(<<o>>, n, w) \in Seq(AnyStep)
         /\ Fallback(<<o>>, n, w) \o r \in Opens(w)
<1> DEFINE b == <<"block", 0>>
           e == <<"release", 0>>
           f == SetFlags(n, w)
<1>1. b \in AnyStep /\ e \in AnyStep /\ o \in AnyStep
  BY DEF AnyStep, PlainOps, OpenOps
<1>2. r \in Seq(AnyStep) /\ f \in Seq(AnyStep) /\ f \in Seq(FlagSet(n))
  BY RestShapes, SetFlagsForm
<1>3. e = <<"release", 0>> /\ b = <<"block", 0>>
  OBVIOUS
<1>4. \A g \in w, i \in 1 .. n : <<FlagOp(g), i>> \in Range(f)
  BY SetFlagsForm
<1>5. Fallback(<<o>>, n, w) = <<b>> \o <<o>> \o f \o <<e>>
  BY DEF Fallback, Step
<1> HIDE DEF b, e, f
<1> DEFINE er == <<e>> \o r
           fer == f \o er
           ofer == <<o>> \o fer
           all == <<b>> \o ofer
<1>6. <<b>> \in Seq(AnyStep) /\ <<o>> \in Seq(AnyStep) /\ <<e>> \in Seq(AnyStep)
  BY <1>1
<1>7. er \in Seq(AnyStep)
  BY <1>6, <1>2, ConcatProperties
<1>8. /\ fer \in Seq(AnyStep) /\ Range(fer) = Range(f) \cup Range(er)
      /\ <<b>> \o <<o>> \in Seq(AnyStep) /\ <<b>> \o <<o>> \o f \in Seq(AnyStep)
      /\ <<b>> \o <<o>> \o f \o <<e>> \in Seq(AnyStep)
  <2> HIDE DEF er
  <2>1. Range(f \o er) = Range(f) \cup Range(er)
    BY <1>7, <1>2, ConcatRange
  <2> QED BY <2>1, <1>6, <1>7, <1>2
<1>9. fer \in FlagSteps(n)
  BY <1>2, <1>3, <1>8 DEF FlagSteps
<1>10. ofer \in Seq(AnyStep) /\ ofer # <<>> /\ Head(ofer) = o /\ Tail(ofer) = fer
  BY <1>1, <1>8, HeadTailOfCons
<1>11. ofer \in OpenSteps(n, w)
  BY <1>4, <1>8, <1>9, <1>10 DEF OpenSteps
<1>12. all \in Seq(AnyStep) /\ all # <<>> /\ Head(all) = b /\ Tail(all) = ofer
  BY <1>1, <1>10, HeadTailOfCons
<1>13. all \in Opens(w)
  BY <1>3, <1>11, <1>12 DEF Opens
<1>14. <<b>> \o <<o>> \o f \o <<e>> \o r = all
  <2>1. <<b>> \o <<o>> \o f \o <<e>> \o r = (<<b>> \o <<o>> \o f) \o er
    BY <1>6, <1>8, <1>2, ConcatAssociative
  <2>2. (<<b>> \o <<o>> \o f) \o er = (<<b>> \o <<o>>) \o fer
    BY <1>7, <1>8, <1>2, ConcatAssociative
  <2>3. (<<b>> \o <<o>>) \o fer = all
    BY <1>6, <1>8, ConcatAssociative
  <2> QED BY <2>1, <2>2, <2>3
<1> HIDE DEF all
<1> QED BY <1>5, <1>8, <1>13, <1>14

\* One step that opens descriptors, and a fallback or a native call
LEMMA NativeOpens ==
  ASSUME NEW n \in 1 .. 2, NEW op \in {"native", "gai"}, NEW w, NEW r \in Rest(n)
  PROVE  Steps(op, n) \in Seq(AnyStep) /\ Steps(op, n) \o r \in Opens(w)
<1> DEFINE o == <<op, n>>
<1>1. o \in AnyStep /\ o \in {<<"native", n>>, <<"gai", n>>}
  BY DEF AnyStep, PlainOps
<1>2. r \in Seq(AnyStep) /\ Steps(op, n) = <<o>>
  BY RestShapes DEF Steps
<1> HIDE DEF o
<1>3. /\ <<o>> \in Seq(AnyStep) /\ <<o>> \o r \in Seq(AnyStep) /\ <<o>> \o r # <<>>
      /\ Head(<<o>> \o r) = o /\ Tail(<<o>> \o r) = r
  BY <1>1, <1>2, HeadTailOfCons
<1>4. <<o>> \o r \in Opens(w)
  BY <1>1, <1>3 DEF Opens
<1> QED BY <1>2, <1>3, <1>4

LEMMA CompatOpens ==
  ASSUME NEW which \in Builds, NEW w \in SUBSET Flags
  PROVE  /\ \A n \in 1 .. 2 : \A r \in Rest(n) :
              /\ Compat(which, n, w) \in Seq(AnyStep)
              /\ Compat(which, n, w) \o r \in Opens(w)
         /\ \A r \in Rest(1) :
              /\ compat_mkostemp(which, w) \in Seq(AnyStep)
              /\ compat_mkostemp(which, w) \o r \in Opens(w)
<1>1. ASSUME NEW n \in 1 .. 2, NEW r \in Rest(n)
      PROVE  Compat(which, n, w) \in Seq(AnyStep) /\ Compat(which, n, w) \o r \in Opens(w)
  <2> DEFINE o == <<"open", n>>
  <2>1. o \in OpenOps(n) /\ Steps("open", n) = <<o>>
    BY DEF OpenOps, Steps
  <2> HIDE DEF o
  <2>2. CASE which = "native"
    BY <2>2, NativeOpens DEF Compat
  <2>3. CASE which = "fallback"
    BY <2>1, <2>3, FallbackOpens DEF Compat
  <2> QED BY <2>2, <2>3 DEF Builds
<1>2. ASSUME NEW r \in Rest(1)
      PROVE  compat_mkostemp(which, w) \in Seq(AnyStep) /\ compat_mkostemp(which, w) \o r \in Opens(w)
  <2> DEFINE o == <<"mkstemp", 0>>
  <2>1. o \in OpenOps(1) /\ Step("mkstemp") = <<o>>
    BY DEF OpenOps, Step
  <2> HIDE DEF o
  <2>2. CASE which = "native"
    BY <2>2, NativeOpens DEF compat_mkostemp
  <2>3. CASE which = "fallback"
    BY <2>1, <2>3, FallbackOpens DEF compat_mkostemp
  <2> QED BY <2>2, <2>3 DEF Builds
<1> QED BY <1>1, <1>2

\* A function is its plain steps and then the opening, however its code
\* groups them.
LEMMA FunctionForm ==
  ASSUME NEW w, NEW p \in PlainStart, NEW a \in Seq(AnyStep)
  PROVE  /\ a \in Opens(w) => p \o a \in Functions(w) /\ a \in Functions(w)
         /\ \A b \in Seq(AnyStep) : a \o b \in Opens(w) => p \o a \o b \in Functions(w)
         /\ \A b, c \in Seq(AnyStep) : a \o (b \o c) \in Opens(w) => p \o a \o b \o c \in Functions(w)
<1>0. p \in Seq(AnyStep)
  BY StepKinds, SeqMonotonic DEF PlainStart, PlainSteps
<1>1. \A t \in Opens(w) : p \o t \in Functions(w)
  BY <1>0, ConcatProperties DEF Functions, Opens
<1>2. ASSUME NEW b \in Seq(AnyStep), a \o b \in Opens(w) PROVE p \o a \o b \in Functions(w)
  <2>1. p \o a \o b = p \o (a \o b)
    BY <1>0, ConcatAssociative
  <2> QED BY <1>1, <1>2, <2>1
<1>3. ASSUME NEW b \in Seq(AnyStep), NEW c \in Seq(AnyStep), a \o (b \o c) \in Opens(w)
      PROVE  p \o a \o b \o c \in Functions(w)
  <2>1. p \o a \in Seq(AnyStep)
    BY <1>0, ConcatProperties
  <2>2. p \o a \o b \o c = (p \o a) \o (b \o c)
    BY <2>1, ConcatAssociative, SMTT(30)
  <2>3. (p \o a) \o (b \o c) = p \o (a \o (b \o c))
    BY <1>0, ConcatAssociative, ConcatProperties, SMTT(30)
  <2> QED BY <1>1, <1>3, <2>2, <2>3
<1>4. a \in Opens(w) => a \in Functions(w)
  <2>1. a = <<>> \o a
    BY ConcatEmptySeq
  <2> QED BY <2>1, PlainEmpty DEF Functions
<1> QED BY <1>1, <1>2, <1>3, <1>4

LEMMA GaiWithoutResource ==
  ASSUME NEW w
  PROVE  Steps("gai", 0) \in Seq(AnyStep) /\ Steps("gai", 0) \o Step("push") \in Opens(w)
<1> DEFINE g == <<"gai", 0>>
           u == <<"push", 0>>
<1>1. g \in AnyStep /\ u \in AnyStep
  BY DEF AnyStep, PlainOps
<1>2. Steps("gai", 0) = <<g>> /\ Step("push") = <<u>> /\ g = <<"gai", 0>> /\ u = <<"push", 0>>
  BY DEF Steps, Step
<1> HIDE DEF g, u
<1>3. <<g>> \in Seq(AnyStep) /\ <<u>> \in Seq(AnyStep)
  BY <1>1
<1>4. /\ <<g>> \o <<u>> \in Seq(AnyStep) /\ <<g>> \o <<u>> # <<>>
      /\ Head(<<g>> \o <<u>>) = g /\ Tail(<<g>> \o <<u>>) = <<u>>
  BY <1>1, <1>3, HeadTailOfCons
<1>5. <<g>> \o <<u>> \in Opens(w)
  BY <1>2, <1>4 DEF Opens
<1> QED BY <1>2, <1>3, <1>5

LEMMA OpeningTables ==
  ASSUME NEW which \in Builds, NEW w \in SUBSET Flags
  PROVE  /\ Table(pipe(which, w), w) /\ Table(fcntl, w) /\ Table(sys_socket(which, w), w)
         /\ Table(fd_accept(which, w), w) /\ Table(stdlib(which, w), w)
         /\ Table(selector(which, w), w) /\ Table(selfpipe, w) /\ Table(dirent, w)
         /\ Table(netdb, w)
<1>1. \A s, names : s \in Functions(w) => Table(Names(names, s), w)
  BY TableOfOne
<1>2. \A f, g : Table(f, w) /\ Table(g, w) => Table(f \cup g, w)
  BY TableOfTwo
<1>3. \A s, names : s \in PlainStart => Table(Names(names, s), w)
  BY <1>1, PlainIsFunction
<1>4. \A p, q : p \in PlainStart /\ q \in PlainStart => p \o q \in PlainStart
  BY PlainJoin
<1>5. /\ Own(1) \in Seq(AnyStep) /\ Own(2) \in Seq(AnyStep)
      /\ Step("push") \in Seq(AnyStep) /\ Step("free") \in Seq(AnyStep)
  <2>1. <<"push", 0>> \in AnyStep /\ <<"free", 0>> \in AnyStep
    BY DEF AnyStep, PlainOps
  <2>2. 1 \in 1 .. 2 /\ 2 \in 1 .. 2
    OBVIOUS
  <2> QED BY <2>1, <2>2, RestShapes DEF Step
<1>6. /\ Own(1) \in Rest(1) /\ Own(2) \in Rest(2) /\ Own(1) \o Step("push") \in Rest(1)
      /\ Step("push") \o Own(1) \in Rest(1) /\ Step("push") \o Step("free") \in Rest(1)
      /\ 1 \in 1 .. 2 /\ 2 \in 1 .. 2
  BY RestShapes
\* An opening step a for n descriptors, whatever follows
<1> DEFINE Opener(a, n) == a \in Seq(AnyStep) /\ \A r \in Rest(n) : a \o r \in Opens(w)
<1>7. /\ Opener(Compat(which, 1, w), 1) /\ Opener(Compat(which, 2, w), 2)
      /\ Opener(Compat("fallback", 1, w), 1) /\ Opener(compat_mkostemp(which, w), 1)
      /\ Opener(Steps("native", 1), 1) /\ Opener(Steps("gai", 1), 1)
  BY <1>6, CompatOpens, NativeOpens DEF Builds
<1>8. ASSUME NEW p \in PlainStart, NEW a, Opener(a, 1)
      PROVE  /\ p \o a \o Own(1) \in Functions(w)
             /\ p \o a \o Own(1) \o Step("push") \in Functions(w)
             /\ p \o a \o Step("push") \o Own(1) \in Functions(w)
             /\ p \o a \o Step("push") \o Step("free") \in Functions(w)
             /\ a \o Own(1) \in Functions(w)
  BY <1>5, <1>6, <1>8, FunctionForm, ConcatProperties
<1>9. ASSUME NEW p \in PlainStart, NEW a, Opener(a, 2)
      PROVE  p \o a \o Own(2) \in Functions(w)
  BY <1>5, <1>6, <1>9, FunctionForm
<1>10. ASSUME NEW p \in PlainStart
       PROVE  p \o Steps("gai", 0) \o Step("push") \in Functions(w)
  BY <1>5, GaiWithoutResource, FunctionForm
<1> HIDE DEF Opener
<1> USE <1>1, <1>2, <1>3, <1>4, PlainPieces
<1>11. Table(pipe(which, w), w)
  BY <1>7, <1>9 DEF pipe, compat_pipe2
<1>12. Table(fcntl, w)
  BY <1>7, <1>8 DEF fcntl
<1>13. Table(sys_socket(which, w), w)
  BY <1>7, <1>8, <1>9, ZenonT(30) DEF sys_socket, compat_socket, compat_socketpair
<1>14. Table(fd_accept(which, w), w)
  BY <1>7, <1>8 DEF fd_accept, compat_accept4
<1>15. Table(stdlib(which, w), w)
  BY <1>7, <1>8, ZenonT(30) DEF stdlib
<1>16. Table(selector(which, w), w)
  BY <1>7, <1>8, ZenonT(30) DEF selector, epoll_open, kqueue_open
<1>17. Table(selfpipe, w)
  BY <1>7, <1>8, ZenonT(30) DEF selfpipe
<1>18. Table(dirent, w)
  BY <1>7, <1>8, PlainProbe, ZenonT(30) DEF dirent, ReadEntry
<1>19. Table(netdb, w)
  BY <1>7, <1>8, <1>10, ZenonT(30) DEF netdb
<1> QED
  BY <1>11, <1>12, <1>13, <1>14, <1>15, <1>16, <1>17, <1>18, <1>19

\* Every function is plain steps, and then at most one step that opens
\* descriptors and what is done with them.
LEMMA ShapesAreFunctions ==
  ASSUME NEW which \in Builds, NEW w \in SUBSET Flags
  PROVE  Shapes[which][w] \subseteq Functions(w)
<1>1. Table(Module(which, w), w)
  <2>1. \A f, g : Table(f, w) /\ Table(g, w) => Table(f \cup g, w)
    BY TableOfTwo
  <2>2. \A m : PlainTable(m) => Table(m, w)
    BY PlainTableIsTable
  <2>3. /\ Table(unistd, w) /\ Table(fd_unistd, w) /\ Table(fd_djb, w) /\ Table(fd_socket, w)
        /\ Table(fd_transfer, w) /\ Table(termios, w) /\ Table(fd_termios, w)
        /\ Table(sys_stat, w) /\ Table(sys_statvfs, w) /\ Table(sys_xattr, w)
        /\ Table(pwd, w) /\ Table(signal, w) /\ Table(syslog, w) /\ Table(sys_wait, w)
        /\ Table(sys_mman, w) /\ Table(sys_utsname, w) /\ Table(sched, w) /\ Table(timer, w)
        /\ Table(int, w) /\ Table(time, w) /\ Table(process, w) /\ Table(pathexec, w)
        /\ Table(error, w) /\ Table(sockaddr, w) /\ Table(fd, w)
    BY <2>2, PlainTables
  <2>4. /\ Table(pipe(which, w), w) /\ Table(fcntl, w) /\ Table(sys_socket(which, w), w)
        /\ Table(fd_accept(which, w), w) /\ Table(stdlib(which, w), w)
        /\ Table(selector(which, w), w) /\ Table(selfpipe, w) /\ Table(dirent, w)
        /\ Table(netdb, w)
    BY OpeningTables
  <2> QED BY <2>3, <2>4, SMTT(60) DEF Module, Table
<1>2. Shapes[which][w] = {f[2] : f \in Module(which, w)}
  BY DEF Shapes
<1> QED BY <1>1, <1>2 DEF Table

----
(* One step of a function.                                                  *)

LEMMA CallsStep ==
  ASSUME NEW w, NEW s \in Calls(w), s # <<>>
  PROVE  \/ /\ Head(s) \in Plain /\ Tail(s) \in Calls(w)
            /\ Tail(s) # <<>> /\ Head(Tail(s)) \in Probing => Head(s) = <<"clear", 0>>
         \/ s \in Opens(w)
<1>1. PICK p \in PlainSteps, t \in Opens(w) \cup {<<>>} : s = p \o t
  BY DEF Calls
<1>2. p \in Seq(Plain) /\ p \in Seq(AnyStep) /\ t \in Seq(AnyStep)
  <2>1. p \in Seq(Plain) /\ Opens(w) \subseteq Seq(AnyStep)
    BY DEF PlainSteps, Opens
  <2>2. p \in Seq(AnyStep)
    BY <2>1, StepKinds, SeqMonotonic
  <2>3. <<>> \in Seq(AnyStep)
    OBVIOUS
  <2> QED BY <2>1, <2>2, <2>3
<1>3. CASE p = <<>>
  <2>1. s = t
    BY <1>1, <1>2, <1>3, ConcatEmptySeq
  <2> QED BY <2>1
<1>4. CASE p # <<>>
  <2> DEFINE h == Head(p)
             q == Tail(p)
             r == q \o t
  <2>1. /\ h \in Plain /\ q \in Seq(Plain) /\ Len(q) = Len(p) - 1 /\ h = p[1]
        /\ \A i \in 1 .. Len(q) : q[i] = p[i + 1]
        /\ Len(p) \in Nat \ {0} /\ Len(q) \in Nat
    BY <1>2, <1>4, HeadTailProperties, EmptySeq
  <2>2. h \in AnyStep /\ q \in Seq(AnyStep) /\ p = <<h>> \o q
    BY <1>2, <1>4, <2>1, StepKinds, SeqMonotonic, HeadBeforeTail
  <2> HIDE DEF h, q
  <2>3. r \in Seq(AnyStep) /\ s = <<h>> \o r
    BY <1>1, <1>2, <2>2, ConcatAssociative, ConcatProperties
  <2>4. Head(s) = h /\ Tail(s) = r
    BY <2>2, <2>3, HeadTailOfCons
  <2>5. q \in PlainSteps
    <3>1. ASSUME NEW i \in 1 .. Len(q), i > 1, q[i] \in Probing
          PROVE  q[i - 1] = <<"clear", 0>>
      <4>1. i + 1 \in 1 .. Len(p) /\ i + 1 > 1 /\ p[i + 1] \in Probing
        BY <2>1, <3>1
      <4>2. p[(i + 1) - 1] = <<"clear", 0>>
        BY <4>1 DEF PlainSteps
      <4>3. i - 1 \in 1 .. Len(q) /\ (i - 1) + 1 = (i + 1) - 1
        BY <3>1, <2>1
      <4> QED BY <4>2, <4>3, <2>1
    <3> QED BY <3>1, <2>1 DEF PlainSteps
  <2>6. r \in Calls(w)
    BY <2>3, <2>5 DEF Calls
  <2>7. ASSUME r # <<>>, Head(r) \in Probing PROVE h = <<"clear", 0>>
    <3>1. CASE q = <<>>
      <4>1. r = t
        BY <1>2, <3>1, ConcatEmptySeq
      <4>2. t \in Opens(w)
        BY <2>7, <4>1
      <4>3. Head(t) \notin Probing
        BY <4>2 DEF Opens, Probing
      <4> QED BY <4>1, <4>3, <2>7
    <3>2. CASE q # <<>>
      <4>1. 1 \in 1 .. Len(q) /\ 2 \in 1 .. Len(p) /\ q[1] = p[2]
        BY <2>1, <3>2
      <4>2. Head(r) = q[1]
        <5>1. /\ r \in Seq(AnyStep) /\ Len(r) = Len(q) + Len(t) /\ Len(t) \in Nat
              /\ \A i \in 1 .. Len(q) + Len(t) : r[i] = IF i <= Len(q) THEN q[i] ELSE t[i - Len(q)]
          BY <1>2, <2>2, ConcatProperties
        <5>2. r[1] = q[1]
          BY <5>1, <4>1, <2>1
        <5> HIDE DEF r
        <5> QED BY <5>1, <5>2
      <4>3. p[2 - 1] = <<"clear", 0>>
        BY <4>1, <4>2, <2>7 DEF PlainSteps
      <4> QED BY <4>3, <2>1
    <3> QED BY <3>1, <3>2
  <2> QED BY <2>1, <2>4, <2>6, <2>7
<1> QED BY <1>3, <1>4

LEMMA FlagStepsStep ==
  ASSUME NEW n \in 1 .. 2, NEW s \in FlagSteps(n)
  PROVE  /\ s \in Seq(AnyStep) /\ s # <<>>
         /\ \/ Head(s) \in FlagSet(n) /\ Tail(s) \in FlagSteps(n)
            \/ Head(s) = <<"release", 0>> /\ Tail(s) \in Rest(n)
<1> DEFINE e == <<"release", 0>>
<1>1. PICK f \in Seq(FlagSet(n)), r \in Rest(n) : s = f \o (<<e>> \o r)
  BY DEF FlagSteps
<1>2. e = <<"release", 0>> /\ e \in AnyStep /\ FlagSet(n) \subseteq AnyStep
  BY DEF AnyStep, PlainOps, FlagSet
<1> HIDE DEF e
<1>3. f \in Seq(AnyStep) /\ r \in Seq(AnyStep)
  BY <1>2, SeqMonotonic, RestShapes
<1> DEFINE er == <<e>> \o r
<1>4. er \in Seq(AnyStep) /\ er # <<>> /\ Head(er) = e /\ Tail(er) = r
  BY <1>2, <1>3, HeadTailOfCons
<1> HIDE DEF er
<1>5. CASE f = <<>>
  <2>1. s = er
    BY <1>1, <1>4, <1>5, ConcatEmptySeq DEF er
  <2> QED BY <1>2, <1>4, <2>1
<1>6. CASE f # <<>>
  <2> DEFINE h == Head(f)
             q == Tail(f)
             g == q \o er
  <2>1. h \in FlagSet(n) /\ q \in Seq(FlagSet(n)) /\ f = <<h>> \o q
    BY <1>6, HeadTailProperties, HeadBeforeTail
  <2>2. h \in AnyStep /\ q \in Seq(AnyStep)
    BY <1>2, <2>1, SeqMonotonic
  <2> HIDE DEF h, q
  <2>3. g \in Seq(AnyStep) /\ s = <<h>> \o g
    BY <1>1, <1>4, <2>1, <2>2, ConcatAssociative, ConcatProperties DEF er
  <2>4. s \in Seq(AnyStep) /\ s # <<>> /\ Head(s) = h /\ Tail(s) = g
    BY <2>2, <2>3, HeadTailOfCons
  <2>5. g \in FlagSteps(n)
    BY <1>2, <2>1, <2>3 DEF FlagSteps, er
  <2> QED BY <2>1, <2>4, <2>5
<1> QED BY <1>5, <1>6

LEMMA RestStep ==
  ASSUME NEW n \in 1 .. 2, NEW s \in Rest(n)
  PROVE  /\ s # <<>>
         /\ \/ Head(s) = <<"own", 0>> /\ n = 1 /\ Tail(s) \in {<<>>, <<<<"push", 0>>>>}
            \/ Head(s) = <<"own", 0>> /\ n = 2 /\ Tail(s) \in Rest(1)
            \/ Head(s) = <<"push", 0>> /\ Tail(s) \in Rest(n)
            \/ Head(s) = <<"free", 0>> /\ n = 1 /\ Tail(s) = <<>>
<1> DEFINE o == <<"own", 0>>
           u == <<"push", 0>>
           f == <<"free", 0>>
<1>1. o \in AnyStep /\ u \in AnyStep /\ f \in AnyStep
  BY DEF AnyStep, PlainOps
<1>2. o = <<"own", 0>> /\ u = <<"push", 0>> /\ f = <<"free", 0>>
  OBVIOUS
<1>3. /\ Rest(1) = {<<o>>, <<o, u>>, <<u, o>>, <<u, f>>, <<f>>}
      /\ Rest(2) = {<<o, o>>}
  BY DEF Rest
<1> HIDE DEF o, u, f
<1>4. \A x \in AnyStep : <<x>> # <<>> /\ Head(<<x>>) = x /\ Tail(<<x>>) = <<>>
  OBVIOUS
<1>5. ASSUME NEW x \in AnyStep, NEW y \in AnyStep
      PROVE  <<x, y>> # <<>> /\ Head(<<x, y>>) = x /\ Tail(<<x, y>>) = <<y>>
  <2>1. <<x, y>> = <<x>> \o <<y>> /\ <<y>> \in Seq(AnyStep)
    BY PairOfTwo, RestShapes
  <2> QED BY <2>1, HeadTailOfCons
<1>6. CASE n = 1
  <2>1. CASE s = <<o>> \/ s = <<f>>
    BY <1>1, <1>2, <1>4, <1>6, <2>1
  <2>2. CASE s = <<o, u>>
    BY <1>1, <1>2, <1>5, <1>6, <2>2
  <2>3. CASE s = <<u, o>> \/ s = <<u, f>>
    <3>1. s # <<>> /\ Head(s) = u /\ Tail(s) \in {<<o>>, <<f>>}
      BY <1>1, <1>5, <2>3
    <3>2. <<o>> \in Rest(n) /\ <<f>> \in Rest(n)
      BY <1>3, <1>6
    <3> QED BY <1>2, <3>1, <3>2
  <2> QED BY <1>3, <1>6, <2>1, <2>2, <2>3
<1>7. CASE n = 2
  <2>1. s = <<o, o>>
    BY <1>3, <1>7
  <2> QED BY <1>1, <1>2, <1>3, <1>5, <1>7, <2>1
<1> QED BY <1>6, <1>7

\* What is left of a function is a push, or nothing.
LEMMA ShortCalls ==
  ASSUME NEW w
  PROVE  <<>> \in Calls(w) /\ <<<<"push", 0>>>> \in Calls(w)
<1>1. <<>> \in PlainSteps /\ Step("push") \in PlainSteps
  BY PlainPieces DEF PlainStart
<1>2. <<>> \in Functions(w) /\ Step("push") \in Functions(w)
  BY PlainPieces, PlainIsFunction
<1> QED BY <1>2 DEF Functions, Calls, Step, PlainStart

\* The way out: k descriptors are closed, and then z.
Drops(k) == [i \in 1 .. k |-> <<"drop", 0>>]

LEMMA DropsForm ==
  ASSUME NEW k \in Nat
  PROVE  /\ Drops(k) \in Seq(AnyStep) /\ Len(Drops(k)) = k
         /\ \A i \in 1 .. k : Drops(k)[i] = <<"drop", 0>>
         /\ k = 0 => Drops(k) = <<>>
<1> DEFINE d == <<"drop", 0>>
           r == [i \in 1 .. k |-> d]
<1>1. d \in AnyStep
  BY DEF AnyStep, PlainOps
<1>2. Drops(k) = r /\ d = <<"drop", 0>>
  BY DEF Drops
<1> HIDE DEF d
<1>3. r \in Seq(AnyStep)
  BY <1>1, IsASeq
<1>4. DOMAIN r = 1 .. k /\ \A i \in 1 .. k : r[i] = d
  OBVIOUS
<1> HIDE DEF r
<1>5. Len(r) = k
  BY <1>3, <1>4, LenProperties
<1>6. k = 0 => r = <<>>
  BY <1>3, <1>5, EmptySeq
<1> QED BY <1>2, <1>3, <1>4, <1>5, <1>6

LEMMA DropStep ==
  ASSUME NEW k \in Nat, NEW z \in Seq(AnyStep)
  PROVE  /\ Drops(k) \o z \in Seq(AnyStep)
         /\ k = 0 => Drops(k) \o z = z
         /\ k > 0 => /\ Drops(k) \o z # <<>>
                     /\ Head(Drops(k) \o z) = <<"drop", 0>>
                     /\ Tail(Drops(k) \o z) = Drops(k - 1) \o z
<1> DEFINE d == <<"drop", 0>>
<1>1. d \in AnyStep
  BY DEF AnyStep, PlainOps
<1>3. d = <<"drop", 0>>
  OBVIOUS
<1> HIDE DEF d
<1>4. ASSUME NEW j \in Nat
      PROVE  /\ Drops(j) \in Seq(AnyStep) /\ Len(Drops(j)) = j
             /\ \A i \in 1 .. j : Drops(j)[i] = d
             /\ j = 0 => Drops(j) = <<>>
  BY <1>3, DropsForm
<1>5. Drops(k) \o z \in Seq(AnyStep)
  BY <1>4, ConcatProperties
<1>6. ASSUME k = 0 PROVE Drops(k) \o z = z
  <2>1. Drops(k) = <<>>
    BY <1>4, <1>6, EmptySeq
  <2> QED BY <2>1, ConcatEmptySeq
<1>7. ASSUME k > 0
      PROVE  /\ Drops(k) \o z # <<>>
             /\ Head(Drops(k) \o z) = d
             /\ Tail(Drops(k) \o z) = Drops(k - 1) \o z
  <2>1. k - 1 \in Nat
    BY <1>7
  <2> DEFINE q == Drops(k - 1)
             r == <<d>> \o q
  <2>2. q \in Seq(AnyStep) /\ Len(q) = k - 1 /\ \A i \in 1 .. k - 1 : q[i] = d
    BY <1>4, <2>1
  <2>3. <<d>> \in Seq(AnyStep) /\ Len(<<d>>) = 1 /\ <<d>>[1] = d
    BY <1>1
  <2> HIDE DEF q
  <2>4. /\ r \in Seq(AnyStep) /\ Len(r) = 1 + (k - 1)
        /\ \A i \in 1 .. 1 + (k - 1) : r[i] = IF i <= 1 THEN <<d>>[i] ELSE q[i - 1]
    BY <2>2, <2>3, ConcatProperties
  <2> HIDE DEF r
  <2>5. ASSUME NEW i \in 1 .. k PROVE r[i] = d
    <3>1. CASE i = 1
      BY <2>1, <2>3, <2>4, <3>1
    <3>2. CASE i # 1
      <4>1. i - 1 \in 1 .. k - 1 /\ i \in 1 .. 1 + (k - 1) /\ ~(i <= 1)
        BY <3>2
      <4> QED BY <2>2, <2>4, <4>1
    <3> QED BY <3>1, <3>2
  <2>6. Len(r) = Len(Drops(k)) /\ \A i \in 1 .. Len(r) : r[i] = Drops(k)[i]
    BY <1>4, <2>4, <2>5
  <2>7. r = Drops(k)
    BY <1>4, <2>4, <2>6, SeqEqual
  <2>8. q \o z \in Seq(AnyStep)
    BY <2>2, ConcatProperties
  <2>9. Drops(k) \o z = <<d>> \o (q \o z)
    <3>1. Drops(k) = <<d>> \o q
      BY <2>7 DEF r
    <3>2. (<<d>> \o q) \o z = <<d>> \o (q \o z)
      BY <2>2, <2>3, ConcatAssociative
    <3> QED BY <3>1, <3>2
  <2> QED BY <1>1, <2>8, <2>9, HeadTailOfCons DEF q
<1> QED BY <1>3, <1>5, <1>6, <1>7

----
(* The inductive invariant.                                                 *)

\* The descriptors the call holds have the flags asked for.
Flagged == \A i \in 1 .. Len(held) : open[held[i]].want \subseteq open[held[i]].has

\* No call runs.
Idle ==
  /\ ~running /\ steps = <<>> /\ held = <<>> /\ want = {}
  /\ ~scoped /\ ~tmp /\ ~masked /\ blocked = program

\* The call holds nothing.
Ahead ==
  /\ running /\ steps \in Calls(want) /\ held = <<>>
  /\ ~scoped /\ ~tmp /\ ~masked /\ blocked = program
  /\ steps # <<>> /\ Head(steps) \in Probing => errno = None

\* A failure is reported after an allocation.
Late ==
  /\ running /\ steps # <<>> /\ held = <<>>
  /\ Head(steps) = <<"push", 0>> /\ Tail(steps) = <<<<"error", 0>>>> /\ errno = "call"
  /\ ~scoped /\ ~tmp /\ ~masked /\ blocked = program

\* A fallback: signals are blocked, nothing is open yet.
ToOpen ==
  /\ running /\ held = <<>> /\ masked /\ blocked /\ ~scoped /\ ~tmp
  /\ \E n \in 1 .. 2 : steps \in OpenSteps(n, want)

\* A flag that was asked for is set, or the step that sets it is to come.
SettingFlags ==
  /\ running /\ masked /\ blocked /\ scoped
  /\ Len(held) \in 1 .. 2 /\ steps \in FlagSteps(Len(held))
  /\ \A i \in 1 .. Len(held) :
       /\ open[held[i]].want = want
       /\ \A f \in want : f \in open[held[i]].has \/ <<FlagOp(f), i>> \in Range(steps)

\* The fallback has let go of the descriptors.
ToRestore ==
  /\ running /\ masked /\ blocked /\ ~scoped /\ ~tmp
  /\ Len(held) \in 1 .. 2 /\ Flagged
  /\ steps # <<>> /\ Head(steps) = <<"restore", 0>> /\ Tail(steps) \in Rest(Len(held))

\* The descriptors get their objects.
Giving ==
  /\ running /\ ~scoped /\ ~tmp /\ ~masked /\ blocked = program
  /\ Len(held) \in 1 .. 2 /\ Flagged /\ steps \in Rest(Len(held))

\* The call has failed and runs its destructors.
Finish(how) == IF masked THEN <<<<"restore", 0>>>> \o <<<<how, 0>>>> ELSE <<<<how, 0>>>>
WayOut(how) ==
  IF tmp THEN <<<<"unlink", 0>>>> \o (Drops(Len(held)) \o Finish(how))
         ELSE Drops(Len(held)) \o Finish(how)

Ways == {"error", "unset", "throw", "bad_alloc", "code"}
OnWayOut ==
  /\ running
  /\ \E how \in Ways : steps = WayOut(how) /\ (how \in {"error", "throw"} => errno = "call")
  /\ IF masked THEN blocked ELSE blocked = program /\ held = <<>> /\ ~tmp

Phase ==
  \/ Idle \/ Ahead \/ Late \/ ToOpen \/ SettingFlags \/ ToRestore \/ Giving \/ OnWayOut

CallTypes ==
  /\ build \in Builds
  /\ running \in BOOLEAN /\ scoped \in BOOLEAN /\ tmp \in BOOLEAN
  /\ masked \in BOOLEAN /\ blocked \in BOOLEAN /\ program \in BOOLEAN
  /\ want \in SUBSET Flags

Entry == [has : SUBSET Flags, want : SUBSET Flags, owner : Obj \cup {None, "closed"}]
WorldTypes ==
  /\ held \in Seq(Num) /\ IsInjective(held)
  /\ open \in [Num -> Entry]
  /\ objects \in [Obj -> Num \cup {NoObject, Shut}]
  /\ alive \in SUBSET Obj /\ lost \in SUBSET Num

Types == CallTypes /\ WorldTypes

\* Owner and object name each other; a descriptor without an owner is held
\* by the call or lost, and has its flags unless it is held.
Owners ==
  /\ \A o \in alive : objects[o] # NoObject
  /\ \A o \in Obj : objects[o] \in Num => open[objects[o]].owner = o
  /\ \A n \in Num :
       /\ open[n].owner = "closed" => open[n] = Closed
       /\ open[n].owner \in Obj => objects[open[n].owner] = n
       /\ open[n].owner = None => n \in Range(held) \cup lost
       /\ n \in Range(held) => open[n].owner = None
       /\ n \notin Range(held) => open[n].want \subseteq open[n].has

IInv == Types /\ Owners /\ Phase /\ ErrorIsTheCalls

\* What the invariant is for
LEMMA InvariantSuffices == IInv => NothingLost /\ FlagsBeforeSignals /\ ClosesOwn
<1> SUFFICES ASSUME IInv PROVE NothingLost /\ FlagsBeforeSignals /\ ClosesOwn
  OBVIOUS
<1> USE DEF IInv
<1>1. ClosesOwn
  <2> SUFFICES ASSUME NEW o \in Obj, objects[o] >= 0 PROVE open[objects[o]].owner = o
    BY DEF ClosesOwn
  <2>1. objects[o] \in Num
    <3>1. objects[o] \in Num \cup {NoObject, Shut}
      BY DEF Types, CallTypes, WorldTypes, Entry
    <3>2. ~(NoObject >= 0) /\ ~(Shut >= 0)
      BY DEF NoObject, Shut
    <3> QED BY <3>1, <3>2
  <2> QED BY <2>1 DEF Owners
<1>2. ~running => blocked = program /\ ~masked /\ ~tmp
  BY DEF Phase, Idle, Ahead, Late, ToOpen, SettingFlags, ToRestore, Giving, OnWayOut
<1>3. ASSUME NEW n \in Num \ Free
      PROVE  \/ open[n].owner \in Obj /\ objects[open[n].owner] = n
             \/ n \in Range(held)
             \/ n \in lost
  <2>1. open[n].owner # "closed"
    BY DEF Owners, Free
  <2>2. open[n].owner \in Obj \cup {None, "closed"}
    BY DEF Types, CallTypes, WorldTypes, Entry
  <2> QED BY <2>1, <2>2 DEF Owners
<1>4. ASSUME NEW n \in Num \ Free
      PROVE  open[n].want \subseteq open[n].has \/ (n \in Range(held) /\ blocked)
  <2>1. CASE n \notin Range(held)
    BY <2>1 DEF Owners
  <2>2. CASE n \in Range(held) /\ ~blocked
    <3>1. \E i \in 1 .. Len(held) : held[i] = n
      BY <2>2, InRangeOf DEF Types, CallTypes, WorldTypes, Entry
    <3>2. held # <<>>
      BY <3>1
    <3>3. Flagged
      BY <2>2, <3>2
      DEF Types, CallTypes, WorldTypes, Entry, Phase, Idle, Ahead, Late, ToOpen, SettingFlags, ToRestore, Giving, OnWayOut
    <3> QED BY <3>1, <3>3 DEF Flagged
  <2> QED BY <2>1, <2>2 DEF Types, CallTypes, WorldTypes, Entry
<1> QED BY <1>1, <1>2, <1>3, <1>4 DEF NothingLost, FlagsBeforeSignals

LEMMA InitInvariant == Init => IInv
<1> SUFFICES ASSUME Init PROVE IInv
  OBVIOUS
<1> USE DEF Init
<1>1. Types
  <2>1. <<>> \in Seq(Num) /\ IsInjective(<<>>) /\ {} \in SUBSET Flags
    BY RangeEmpty
  <2>2. Closed \in Entry
    BY DEF Closed, Entry
  <2> QED BY <2>1, <2>2 DEF Types, CallTypes, WorldTypes, Entry
<1>2. Owners
  <2>1. NoObject \notin Num
    BY LuaCallsAssumption DEF NoObject
  <2>2. "closed" \notin Obj /\ "closed" # None
    BY LuaCallsAssumption DEF None
  <2>3. \A n \in Num : open[n] = Closed /\ open[n].owner = "closed"
    BY DEF Closed
  <2> QED BY <2>1, <2>2, <2>3, RangeEmpty DEF Owners, Closed
<1>3. Phase
  BY DEF Phase, Idle
<1>4. ErrorIsTheCalls
  BY DEF ErrorIsTheCalls, Nothing
<1> QED BY <1>1, <1>2, <1>3, <1>4 DEF IInv

----
(* Where a step is taken.                                                   *)

\* The end of the way out
LEMMA FinishStep ==
  ASSUME Types, NEW how \in Ways
  PROVE  /\ Finish(how) \in Seq(AnyStep) /\ Finish(how) # <<>>
         /\ masked => Head(Finish(how)) = <<"restore", 0>> /\ Tail(Finish(how)) = <<<<how, 0>>>>
         /\ ~masked => Head(Finish(how)) = <<how, 0>> /\ Tail(Finish(how)) = <<>>
<1> DEFINE h == <<how, 0>>
           e == <<"restore", 0>>
<1>1. h \in AnyStep /\ e \in AnyStep
  BY DEF AnyStep, PlainOps, Ways
<1>2. h = <<how, 0>> /\ e = <<"restore", 0>>
  OBVIOUS
<1>3. /\ masked => Finish(how) = <<e>> \o <<h>>
      /\ ~masked => Finish(how) = <<h>>
  BY DEF Finish
<1> HIDE DEF h, e
<1>4. /\ <<h>> \in Seq(AnyStep) /\ <<h>> # <<>> /\ Head(<<h>>) = h /\ Tail(<<h>>) = <<>>
  BY <1>1
<1>5. /\ <<e>> \o <<h>> \in Seq(AnyStep) /\ <<e>> \o <<h>> # <<>>
      /\ Head(<<e>> \o <<h>>) = e /\ Tail(<<e>> \o <<h>>) = <<h>>
  BY <1>1, <1>4, HeadTailOfCons
<1>6. CASE masked
  BY <1>2, <1>3, <1>5, <1>6
<1>7. CASE ~masked
  BY <1>2, <1>3, <1>4, <1>7
<1> QED BY <1>6, <1>7

\* The way out, one step at a time
LEMMA WayOutStep ==
  ASSUME Types, NEW how \in Ways
  PROVE  /\ WayOut(how) \in Seq(AnyStep) /\ WayOut(how) # <<>>
         /\ tmp => /\ Head(WayOut(how)) = <<"unlink", 0>>
                   /\ Tail(WayOut(how)) = Drops(Len(held)) \o Finish(how)
         /\ ~tmp /\ held # <<>> =>
              /\ Head(WayOut(how)) = <<"drop", 0>>
              /\ Tail(WayOut(how)) = Drops(Len(held) - 1) \o Finish(how)
         /\ ~tmp /\ held = <<>> => WayOut(how) = Finish(how)
<1> DEFINE k == Len(held)
           z == Finish(how)
           d == Drops(k) \o z
           x == <<"unlink", 0>>
<1>1. k \in Nat /\ (held = <<>> <=> k = 0)
  BY EmptySeq, LenProperties DEF Types, CallTypes, WorldTypes, Entry
<1>2. z \in Seq(AnyStep) /\ z # <<>>
  BY FinishStep
<1> HIDE DEF z, k
<1>3. /\ d \in Seq(AnyStep)
      /\ k = 0 => d = z
      /\ k > 0 => d # <<>> /\ Head(d) = <<"drop", 0>> /\ Tail(d) = Drops(k - 1) \o z
  BY <1>1, <1>2, DropStep
<1>4. x \in AnyStep /\ x = <<"unlink", 0>>
  BY DEF AnyStep
<1>5. /\ tmp => WayOut(how) = <<x>> \o d
      /\ ~tmp => WayOut(how) = d
  BY DEF WayOut, z, k
<1> HIDE DEF d, x
<1>6. <<x>> \o d \in Seq(AnyStep) /\ <<x>> \o d # <<>> /\ Head(<<x>> \o d) = x /\ Tail(<<x>> \o d) = d
  BY <1>3, <1>4, HeadTailOfCons
<1>7. CASE tmp
  BY <1>4, <1>5, <1>6, <1>7 DEF d, z, k
<1>8. CASE ~tmp /\ k = 0
  BY <1>1, <1>2, <1>3, <1>5, <1>8 DEF z
<1>9. CASE ~tmp /\ k > 0
  BY <1>1, <1>3, <1>5, <1>9 DEF z, k
<1> QED BY <1>1, <1>7, <1>8, <1>9, SMTT(30)

\* Which phase a step belongs to
LEMMA Where ==
  ASSUME Phase, Types, running, steps # <<>>
  PROVE  \/ /\ Ahead /\ Head1 \in Plain /\ Tail(steps) \in Calls(want)
            /\ Tail(steps) # <<>> /\ Head(Tail(steps)) \in Probing => Head1 = <<"clear", 0>>
         \/ Ahead /\ steps \in Opens(want) /\ Head1[1] \in {"native", "gai", "block"}
         \/ Late /\ Head1[1] = "push"
         \/ ToOpen /\ Head1[1] \in {"open", "mkstemp"}
         \/ SettingFlags /\ Head1[1] \in {"coe", "mode", "release"}
         \/ ToRestore /\ Head1[1] = "restore"
         \/ Giving /\ Head1[1] \in {"own", "push", "free"}
         \/ OnWayOut /\ Head1[1] \in {"unlink", "drop", "restore"} \cup Ways
<1> USE DEF Head1
<1>1. CASE Ahead
  <2>1. steps \in Calls(want)
    BY <1>1 DEF Ahead
  <2>2. steps \in Opens(want) => Head(steps)[1] \in {"native", "gai", "block"}
    BY DEF Opens
  <2> QED BY <1>1, <2>1, <2>2, CallsStep
<1>2. CASE Late
  BY <1>2 DEF Late
<1>3. CASE ToOpen
  BY <1>3 DEF ToOpen, OpenSteps, OpenOps
<1>4. CASE SettingFlags
  <2>1. Len(held) \in 1 .. 2 /\ steps \in FlagSteps(Len(held))
    BY <1>4 DEF SettingFlags
  <2>2. Head(steps) \in FlagSet(Len(held)) \/ Head(steps) = <<"release", 0>>
    BY <2>1, FlagStepsStep
  <2> QED BY <1>4, <2>2 DEF FlagSet
<1>5. CASE ToRestore
  BY <1>5 DEF ToRestore
<1>6. CASE Giving
  <2>1. Len(held) \in 1 .. 2 /\ steps \in Rest(Len(held))
    BY <1>6 DEF Giving
  <2>2. Head(steps) \in {<<"own", 0>>, <<"push", 0>>, <<"free", 0>>}
    BY <2>1, RestStep
  <2> QED BY <1>6, <2>2
<1>7. CASE OnWayOut
  <2>1. PICK how \in Ways : steps = WayOut(how)
    BY <1>7 DEF OnWayOut
  <2>2. Head(steps) \in {<<"unlink", 0>>, <<"drop", 0>>, <<"restore", 0>>, <<how, 0>>}
    BY <2>1, WayOutStep, FinishStep DEF Types, CallTypes, WorldTypes, Entry
  <2> QED BY <1>7, <2>2
<1>8. CASE Idle
  BY <1>8 DEF Idle
<1> QED BY <1>1, <1>2, <1>3, <1>4, <1>5, <1>6, <1>7, <1>8 DEF Phase

\* A failed step starts the way out.
LEMMA FailsWithWayOut ==
  ASSUME Types, NEW how \in Ways, FailsWith(how), scoped \/ held = <<>>
  PROVE  steps' = WayOut(how)
<1> DEFINE h == <<how, 0>>
           e == <<"restore", 0>>
           x == <<"unlink", 0>>
           d == Drops(Len(held))
           u == IF tmp THEN <<x>> ELSE <<>>
           m == IF masked THEN <<e>> ELSE <<>>
           s == IF scoped THEN [i \in 1 .. Len(held) |-> <<"drop", 0>>] ELSE <<>>
<1>1. h \in AnyStep /\ e \in AnyStep /\ x \in AnyStep
  BY DEF AnyStep, PlainOps, Ways
<1>2. steps' = u \o s \o m \o <<h>>
  BY DEF FailsWith, Destructors
<1>3. Len(held) \in Nat /\ (held = <<>> => Len(held) = 0)
  BY EmptySeq, LenProperties DEF Types, CallTypes, WorldTypes, Entry
<1>4. d \in Seq(AnyStep) /\ (Len(held) = 0 => d = <<>>)
  BY <1>3, DropsForm
<1>5. s = d
  BY <1>3, <1>4 DEF Drops
<1>6. /\ <<x>> \in Seq(AnyStep) /\ <<e>> \in Seq(AnyStep) /\ <<h>> \in Seq(AnyStep)
      /\ <<>> \in Seq(AnyStep)
  BY <1>1
<1>7. /\ masked => m = <<e>> /\ Finish(how) = <<e>> \o <<h>>
      /\ ~masked => m = <<>> /\ Finish(how) = <<h>>
      /\ tmp => u = <<x>> /\ WayOut(how) = <<x>> \o (d \o Finish(how))
      /\ ~tmp => u = <<>> /\ WayOut(how) = d \o Finish(how)
  BY DEF Finish, WayOut
<1> HIDE DEF h, e, x, d, u, m, s
<1>8. m \o <<h>> = Finish(how) /\ m \in Seq(AnyStep) /\ Finish(how) \in Seq(AnyStep)
  <2>1. \A a \in Seq(AnyStep), b \in Seq(AnyStep) : a \o b \in Seq(AnyStep)
    BY ConcatProperties
  <2>2. <<>> \o <<h>> = <<h>>
    BY <1>6, ConcatEmptySeq
  <2>3. CASE masked
    BY <1>6, <1>7, <2>1, <2>3
  <2>4. CASE ~masked
    BY <1>6, <1>7, <2>2, <2>4
  <2> QED BY <2>3, <2>4
<1> DEFINE z == Finish(how)
<1>9. z \in Seq(AnyStep) /\ z = Finish(how) /\ m \o <<h>> = z
  BY <1>8
<1> HIDE DEF z
<1>10. d \o z \in Seq(AnyStep) /\ u \in Seq(AnyStep)
  BY <1>4, <1>6, <1>7, <1>9, ConcatProperties
<1>11. u \o (d \o z) = WayOut(how)
  <2>1. CASE tmp
    BY <1>7, <1>9, <2>1
  <2>2. CASE ~tmp
    BY <1>7, <1>9, <1>10, <2>2, ConcatEmptySeq
  <2> QED BY <2>1, <2>2
<1>12. u \o d \in Seq(AnyStep)
  BY <1>4, <1>10, ConcatProperties
<1>13. u \o d \o m \o <<h>> = (u \o d) \o (m \o <<h>>)
  <2>1. ASSUME NEW a \in Seq(AnyStep), NEW b \in Seq(AnyStep), NEW c \in Seq(AnyStep)
        PROVE  (a \o b) \o c = a \o (b \o c)
    BY ConcatAssociative
  <2> QED BY <1>6, <1>8, <1>12, <2>1
<1>14. (u \o d) \o z = u \o (d \o z)
  <2>1. ASSUME NEW a \in Seq(AnyStep), NEW b \in Seq(AnyStep), NEW c \in Seq(AnyStep)
        PROVE  (a \o b) \o c = a \o (b \o c)
    BY ConcatAssociative
  <2> QED BY <1>4, <1>9, <1>10, <2>1
<1> QED BY <1>2, <1>5, <1>9, <1>11, <1>13, <1>14

----
(* Steps that leave the descriptors and objects alone.                      *)

LEMMA SameWorld ==
  ASSUME WorldTypes, Owners, UNCHANGED <<held, worldVars>>
  PROVE  WorldTypes' /\ Owners'
BY DEF WorldTypes, Owners, worldVars, Closed

\* A call that holds nothing goes on.
LEMMA GoesOn ==
  ASSUME running, Head1 \in Plain, Tail(steps) \in Calls(want), held = <<>>,
         Tail(steps) # <<>> /\ Head(Tail(steps)) \in Probing => errno' = None,
         steps' = Tail(steps), blocked' = program', ~scoped, ~tmp, ~masked,
         UNCHANGED <<running, want, held, scoped, tmp, masked>>
  PROVE  Phase'
BY DEF Phase, Ahead

\* A call fails and starts its way out.
LEMMA Fails ==
  ASSUME Types, running, NEW how \in Ways, FailsWith(how), scoped \/ held = <<>>,
         how \in {"error", "throw"} => errno' = "call",
         IF masked THEN blocked ELSE blocked = program /\ held = <<>> /\ ~tmp,
         UNCHANGED <<running, held, tmp, masked, blocked, program>>
  PROVE  Phase'
<1>1. steps' = WayOut(how)
  BY FailsWithWayOut
<1>2. WayOut(how)' = WayOut(how)
  BY DEF WayOut, Finish, Drops
<1>3. OnWayOut'
  BY <1>1, <1>2 DEF OnWayOut
<1> QED BY <1>3 DEF Phase

\* The end of a way out: nothing is held, and an error has its errno.
LEMMA WayOutEnd ==
  ASSUME Types, OnWayOut, Head1[1] \in Ways
  PROVE  /\ held = <<>> /\ ~tmp /\ ~masked
         /\ Head1[1] \in {"error", "throw"} => errno = "call"
         /\ blocked = program
<1>1. PICK how \in Ways : steps = WayOut(how) /\ (how \in {"error", "throw"} => errno = "call")
  BY DEF OnWayOut
<1>2. "unlink" \notin Ways /\ "drop" \notin Ways /\ "restore" \notin Ways
  BY DEF Ways
<1>3. ~tmp /\ held = <<>> /\ steps = Finish(how)
  BY <1>1, <1>2, WayOutStep DEF Head1, Types, CallTypes
<1>4. ~masked /\ Head1 = <<how, 0>>
  BY <1>2, <1>3, FinishStep DEF Head1, Types, CallTypes
<1> QED BY <1>1, <1>3, <1>4 DEF OnWayOut

\* A call that has ended without a Lua error.
LEMMA Ends ==
  ASSUME IInv, ~tmp, ~masked, held = <<>>, blocked = program, NEW result, End(result),
         result[1] = "error" => result[2] = "call",
         UNCHANGED <<build, tmp, masked, blocked, program, worldVars>>
  PROVE  IInv'
<1> USE DEF End
<1>1. CallTypes'
  BY DEF IInv, Types, CallTypes
<1>2. WorldTypes' /\ Owners'
  BY SameWorld DEF IInv, Types
<1>3. Phase'
  BY DEF Phase, Idle
<1>4. ErrorIsTheCalls'
  BY DEF ErrorIsTheCalls
<1> QED BY <1>1, <1>2, <1>3, <1>4 DEF IInv, Types

LEMMA ReturnStep == ASSUME IInv, Return PROVE IInv'
<1> USE DEF IInv
<1>1. steps = <<>> /\ running /\ End(<<"success", None>>)
  BY DEF Return
<1>2. ~tmp /\ ~masked /\ held = <<>> /\ blocked = program
  <2>1. ~OnWayOut
    BY <1>1, WayOutStep DEF OnWayOut
  <2>2. ~ToOpen
    BY <1>1 DEF ToOpen, OpenSteps
  <2>3. ~SettingFlags
    BY <1>1, FlagStepsStep DEF SettingFlags
  <2>4. ~Giving
    BY <1>1, RestStep DEF Giving
  <2> QED BY <1>1, <2>1, <2>2, <2>3, <2>4 DEF Phase, Idle, Ahead, Late, ToRestore
<1> QED BY <1>1, <1>2, Ends DEF Return

LEMMA PushErrorStep == ASSUME IInv, push_error PROVE IInv'
<1> USE DEF IInv
<1>1. running /\ steps # <<>> /\ Head1[1] \in Ways
  BY DEF push_error, At, Ways
<1>2. OnWayOut
  <2>1. \A p : p \in Plain => p[1] \notin Ways
    BY DEF Plain, PlainOps, Ways
  <2>2. Ways \cap {"native", "gai", "block", "push", "open", "mkstemp", "coe", "mode",
                   "release", "restore", "own", "free"} = {}
    BY DEF Ways
  <2> QED BY <1>1, <2>1, <2>2, Where
<1>3. /\ held = <<>> /\ ~tmp /\ ~masked /\ blocked = program
      /\ Head1[1] \in {"error", "throw"} => errno = "call"
  BY <1>1, <1>2, WayOutEnd
<1>4. \E result : End(result) /\ (result[1] = "error" => result[2] = "call")
  BY <1>3 DEF push_error, At
<1> QED BY <1>3, <1>4, Ends DEF push_error

\* Most steps are taken by a call that holds nothing.
LEMMA HoldsNothing ==
  ASSUME IInv, running, steps # <<>>, Head1[1] \in PlainOps \ {"push"}
  PROVE  /\ Ahead /\ Head1 \in Plain /\ Tail(steps) \in Calls(want)
         /\ held = <<>> /\ ~scoped /\ ~tmp /\ ~masked /\ blocked = program
         /\ Tail(steps) # <<>> /\ Head(Tail(steps)) \in Probing => Head1[1] = "clear"
         /\ Head1 \in Probing => errno = None
<1>1. (PlainOps \ {"push"}) \cap ({"native", "gai", "block", "push", "open", "mkstemp", "coe",
        "mode", "release", "restore", "own", "free", "unlink", "drop"} \cup Ways) = {}
  BY DEF PlainOps, Ways
<1>2. /\ Ahead /\ Head1 \in Plain /\ Tail(steps) \in Calls(want)
      /\ Tail(steps) # <<>> /\ Head(Tail(steps)) \in Probing => Head1 = <<"clear", 0>>
  BY <1>1, Where DEF IInv
<1> QED BY <1>2 DEF Ahead, Head1

\* Such a step, whether the call goes on or fails
LEMMA NothingHeld ==
  ASSUME IInv, running, steps # <<>>, Head1[1] \in PlainOps \ {"push"},
         UNCHANGED <<build, running, want, held, scoped, tmp, masked, report>>,
         program' \in BOOLEAN, blocked' \in BOOLEAN,
         WorldTypes', Owners',
         \/ steps' = Tail(steps) /\ blocked' = program' /\ (Head1[1] = "clear" => errno' = None)
         \/ /\ UNCHANGED <<blocked, program>>
            /\ \E how \in Ways : FailsWith(how) /\ (how \in {"error", "throw"} => errno' = "call")
  PROVE  IInv'
<1> USE DEF IInv
<1>1. CallTypes'
  BY DEF Types, CallTypes
<1>2. ErrorIsTheCalls'
  BY DEF ErrorIsTheCalls
<1>3. CASE steps' = Tail(steps) /\ blocked' = program' /\ (Head1[1] = "clear" => errno' = None)
  <2>1. Phase'
    BY <1>3, HoldsNothing, GoesOn
  <2> QED BY <1>1, <1>2, <2>1 DEF Types
<1>4. ASSUME NEW how \in Ways, FailsWith(how), how \in {"error", "throw"} => errno' = "call",
             UNCHANGED <<blocked, program>>
      PROVE  IInv'
  <2>1. Phase'
    BY <1>4, HoldsNothing, Fails
  <2> QED BY <1>1, <1>2, <2>1 DEF Types
<1> QED BY <1>3, <1>4

\* A Lua error leaves without an object what the call holds, with its flags.
LEMMA LuaErrorStep ==
  ASSUME IInv, NEW kind, kind # "error", LuaError(kind),
         Flagged, ~tmp, ~masked, blocked = program
  PROVE  IInv'
<1> USE DEF IInv, LuaError, End, Types
<1>1. CallTypes'
  BY DEF CallTypes
<1>2. Range(held) \subseteq Num /\ \A n \in Range(held) : open[n].owner = None
  BY InRangeOf DEF WorldTypes, Owners
<1>3. open' = open
  <2>1. \A n \in Num : open'[n] = open[n]
    BY <1>2 DEF WorldTypes, Entry
  <2> QED BY <2>1 DEF WorldTypes
<1>4. WorldTypes'
  BY <1>2, <1>3, RangeEmpty DEF WorldTypes
<1>5. \A n \in Range(held) : open[n].want \subseteq open[n].has
  BY InRangeOf DEF Flagged, WorldTypes
<1>6. Owners'
  BY <1>3, <1>5, RangeEmpty DEF Owners, Closed
<1>7. Phase' /\ ErrorIsTheCalls'
  BY DEF Phase, Idle, ErrorIsTheCalls
<1> QED BY <1>1, <1>4, <1>6, <1>7

LEMMA BeginStep == ASSUME IInv, Begin PROVE IInv'
<1> USE DEF IInv, Types
<1>0. PICK w \in SUBSET Flags :
        want' = w /\ \E s \in Shapes[build][w] : s # <<>> /\ steps' = s
  BY DEF Begin
<1>1. PICK s \in Shapes[build][w] : s # <<>> /\ steps' = s /\ want' = w
  BY <1>0
<1>2. Idle
  BY DEF Begin, Phase, Ahead, Late, ToOpen, SettingFlags, ToRestore, Giving, OnWayOut
<1>3. s \in Functions(w)
  BY ShapesAreFunctions DEF CallTypes
<1>4. PICK p \in PlainStart, t \in Opens(w) \cup {<<>>} : s = p \o t /\ s \in Seq(AnyStep)
  BY <1>3 DEF Functions
<1>5. s \in Calls(w)
  BY <1>4 DEF Calls, PlainStart
<1>6. Head(s) \notin Probing
  <2>1. CASE p = <<>>
    <3>1. s = t
      BY <1>4, <2>1, ConcatEmptySeq DEF Opens
    <3>2. t \in Opens(w)
      BY <1>1, <3>1
    <3> QED BY <3>1, <3>2 DEF Opens, Probing
  <2>2. CASE p # <<>>
    <3>1. p \in Seq(Plain) /\ p[1] \notin Probing
      BY <2>2 DEF PlainStart, PlainSteps
    <3>2. p \in Seq(AnyStep) /\ t \in Seq(AnyStep)
      <4>1. <<>> \in Seq(AnyStep)
        OBVIOUS
      <4> QED BY <3>1, <4>1, StepKinds, SeqMonotonic DEF Opens
    <3>3. Len(p) \in Nat /\ Len(t) \in Nat /\ Len(p) > 0
      BY <2>2, <3>1, <3>2, EmptySeq, LenProperties
    <3>4. (p \o t)[1] = p[1]
      BY <3>2, <3>3, ConcatProperties
    <3>5. Head(s) = s[1]
      BY <1>1, <1>4, HeadTailProperties
    <3> QED BY <1>4, <3>1, <3>4, <3>5
  <2> QED BY <2>1, <2>2
<1>7. CallTypes'
  BY <1>1 DEF Begin, CallTypes
<1>8. WorldTypes' /\ Owners'
  BY SameWorld DEF Begin
<1>9. Phase'
  BY <1>1, <1>2, <1>5, <1>6 DEF Begin, Phase, Ahead, Idle
<1>10. ErrorIsTheCalls'
  BY DEF Begin, ErrorIsTheCalls, Nothing
<1> QED BY <1>7, <1>8, <1>9, <1>10

LEMMA CheckStep == ASSUME IInv, Check PROVE IInv'
<1>1. running /\ steps # <<>> /\ Head1[1] = "check" /\ "check" \in PlainOps \ {"push"}
  BY DEF Check, At, PlainOps
<1>2. held = <<>> /\ ~tmp /\ ~masked /\ blocked = program /\ Flagged
  BY <1>1, HoldsNothing DEF Flagged
<1>3. CASE LuaError("argument")
  BY <1>2, <1>3, LuaErrorStep
<1>4. CASE /\ Next1
           /\ UNCHANGED <<build, running, want, held, scoped, tmp, masked, blocked, program,
                          errno, report, worldVars>>
  <2>1. WorldTypes' /\ Owners' /\ program' \in BOOLEAN /\ blocked' \in BOOLEAN
    BY <1>4, SameWorld DEF IInv, Types, CallTypes
  <2> QED BY <1>1, <1>2, <1>4, <2>1, NothingHeld DEF Next1
<1> QED BY <1>3, <1>4 DEF Check

LEMMA BufferStep == ASSUME IInv, Buffer PROVE IInv'
<1>1. running /\ steps # <<>> /\ Head1[1] = "buffer" /\ "buffer" \in PlainOps \ {"push"}
  BY DEF Buffer, At, PlainOps
<1>2. WorldTypes' /\ Owners' /\ program' \in BOOLEAN /\ blocked' \in BOOLEAN
  BY SameWorld DEF Buffer, IInv, Types, CallTypes
<1>3. blocked = program
  BY <1>1, HoldsNothing
<1>4. "bad_alloc" \in Ways
  BY DEF Ways
<1> QED BY <1>1, <1>2, <1>3, <1>4, NothingHeld DEF Buffer, Next1

LEMMA SystemCallStep == ASSUME IInv, SystemCall PROVE IInv'
<1>1. running /\ steps # <<>> /\ Head1[1] \in {"call", "late_call"}
  BY DEF SystemCall, At
<1>2. {"call", "late_call"} \subseteq PlainOps \ {"push"}
  BY DEF PlainOps
<1>3. WorldTypes' /\ Owners' /\ program' \in BOOLEAN /\ blocked' \in BOOLEAN
  BY SameWorld DEF SystemCall, IInv, Types, CallTypes
<1>4. held = <<>> /\ ~scoped /\ ~tmp /\ ~masked /\ blocked = program
  BY <1>1, <1>2, HoldsNothing
<1>5. UNCHANGED <<build, running, want, held, scoped, tmp, masked, blocked, program, report>>
  BY DEF SystemCall
<1>6. CASE Next1
  BY <1>1, <1>2, <1>3, <1>4, <1>5, <1>6, NothingHeld DEF Next1
<1>7. CASE errno' = "call" /\ FailsWith("error")
  BY <1>1, <1>2, <1>3, <1>5, <1>7, NothingHeld DEF Ways
<1>8. CASE errno' = "call" /\ steps' = <<<<"push", 0>>, <<"error", 0>>>>
  <2> DEFINE u == <<"push", 0>>
             e == <<"error", 0>>
  <2>1. u \in AnyStep /\ e \in AnyStep /\ u = <<"push", 0>> /\ e = <<"error", 0>>
    BY DEF AnyStep, PlainOps
  <2>2. steps' = <<u, e>>
    BY <1>8
  <2> HIDE DEF u, e
  <2>3. steps' # <<>> /\ Head(steps') = u /\ Tail(steps') = <<e>>
    <3>1. <<u, e>> = <<u>> \o <<e>> /\ <<e>> \in Seq(AnyStep)
      BY <2>1, PairOfTwo
    <3> QED BY <2>1, <2>2, <3>1, HeadTailOfCons
  <2>4. Late'
    BY <1>1, <1>4, <1>5, <1>8, <2>1, <2>3 DEF Late
  <2>5. CallTypes' /\ ErrorIsTheCalls'
    BY <1>5 DEF IInv, Types, CallTypes, ErrorIsTheCalls
  <2> QED BY <1>3, <2>4, <2>5 DEF IInv, Types, Phase
<1> QED BY <1>6, <1>7, <1>8 DEF SystemCall

\* A failure that need not set errno is reported as one.
LEMMA SilentCallStep == ASSUME IInv, SilentCall PROVE IInv'
<1>1. running /\ steps # <<>> /\ Head1[1] = "silent" /\ "silent" \in PlainOps \ {"push"}
  BY DEF SilentCall, At, PlainOps
<1>2. WorldTypes' /\ Owners' /\ program' \in BOOLEAN /\ blocked' \in BOOLEAN
  BY SameWorld DEF SilentCall, IInv, Types, CallTypes
<1>3. blocked = program
  BY <1>1, HoldsNothing
<1>4. "unset" \in Ways \ {"error", "throw"}
  BY DEF Ways
<1> QED BY <1>1, <1>2, <1>3, <1>4, NothingHeld DEF SilentCall, Next1

LEMMA ClearStep == ASSUME IInv, Clear PROVE IInv'
<1>1. running /\ steps # <<>> /\ Head1[1] = "clear" /\ "clear" \in PlainOps \ {"push"}
  BY DEF Clear, At, PlainOps
<1>2. WorldTypes' /\ Owners' /\ program' \in BOOLEAN /\ blocked' \in BOOLEAN
  BY SameWorld DEF Clear, IInv, Types, CallTypes
<1>3. blocked = program
  BY <1>1, HoldsNothing
<1> QED BY <1>1, <1>2, <1>3, NothingHeld DEF Clear, Next1

\* errno was cleared by the step before the probe.
LEMMA ProbeStep == ASSUME IInv, Probe PROVE IInv'
<1>1. running /\ steps # <<>> /\ Head1[1] \in {"probe", "throwing_probe"}
  BY DEF Probe, At
<1>2. {"probe", "throwing_probe"} \subseteq PlainOps \ {"push"}
  BY DEF PlainOps
<1>3. WorldTypes' /\ Owners' /\ program' \in BOOLEAN /\ blocked' \in BOOLEAN
  BY SameWorld DEF Probe, IInv, Types, CallTypes
<1>4. blocked = program /\ Head1 \in Plain
  BY <1>1, <1>2, HoldsNothing
<1>5. errno = None
  BY <1>1, <1>2, <1>4, HoldsNothing DEF Probing, Plain
<1>6. UNCHANGED <<build, running, want, held, scoped, tmp, masked, blocked, program, report>>
  BY DEF Probe
<1>7. CASE Next1
  BY <1>1, <1>2, <1>3, <1>4, <1>6, <1>7, NothingHeld DEF Next1
<1>8. ASSUME errno' = "call", NEW how \in {"error", "throw"}, FailsWith(how)
      PROVE  IInv'
  BY <1>1, <1>2, <1>3, <1>6, <1>8, NothingHeld DEF Ways
<1>9. Next1 \/ (errno' = "call" /\ (FailsWith("error") \/ FailsWith("throw")))
  <2>1. errno' = None \/ errno' = "call"
    BY <1>5 DEF Probe
  <2>2. ASSUME errno' = None PROVE Next1
    BY <2>2, Zenon DEF Probe
  <2>3. ASSUME errno' = "call" PROVE FailsWith("error") \/ FailsWith("throw")
    <3>1. errno' # None /\ errno' = "call"
      BY <2>3 DEF None
    <3>2. FailsWith(IF At("probe") THEN "error" ELSE "throw")
      BY <3>1 DEF Probe
    <3> QED BY <3>1, <3>2
  <2> QED BY <2>1, <2>2, <2>3
<1> QED BY <1>7, <1>8, <1>9

LEMMA BlockStep == ASSUME IInv, Block PROVE IInv'
<1> USE DEF Types
<1>1. running /\ steps # <<>> /\ Head1[1] \in {"block", "mask"}
  BY DEF Block, At
<1>2. UNCHANGED <<build, running, want, held, scoped, tmp, report, worldVars>>
  BY DEF Block
<1>3. WorldTypes' /\ Owners' /\ ErrorIsTheCalls'
  BY <1>2, SameWorld DEF IInv, ErrorIsTheCalls
<1>4. /\ masked' \in BOOLEAN /\ blocked' \in BOOLEAN /\ program' \in BOOLEAN
  BY DEF Block, IInv, CallTypes, At
<1>5. CallTypes'
  BY <1>2, <1>4 DEF IInv, CallTypes
<1>6. CASE Head1[1] = "mask"
  <2>1. "mask" \in PlainOps \ {"push"} /\ "error" \in Ways
    BY DEF PlainOps, Ways
  <2>2. masked' = masked
    BY <1>6, <2>1, <1>1, HoldsNothing DEF Block, At, IInv, CallTypes
  <2>3. CASE Next1 /\ program' = blocked'
    BY <1>1, <1>2, <1>3, <1>4, <1>6, <2>1, <2>2, <2>3, NothingHeld DEF Next1
  <2>4. CASE FailsWith("error") /\ errno' = "call" /\ UNCHANGED <<blocked, program>>
    BY <1>1, <1>2, <1>3, <1>4, <1>6, <2>1, <2>2, <2>4, NothingHeld
  <2> QED BY <1>1, <1>6, <2>3, <2>4 DEF Block, At
<1>7. CASE Head1[1] = "block"
  <2>1. Ahead /\ steps \in Opens(want)
    <3>1. "block" \notin PlainOps /\ "block" \notin Ways
      BY DEF PlainOps, Ways
    <3> QED BY <1>1, <1>7, <3>1, Where DEF IInv, Plain
  <2>2. held = <<>> /\ ~scoped /\ ~tmp /\ ~masked /\ blocked = program
    BY <2>1 DEF Ahead
  <2>3. CASE /\ Next1 /\ masked' /\ blocked'
    <3>1. \E n \in 1 .. 2 : Tail(steps) \in OpenSteps(n, want)
      BY <1>7, <2>1 DEF Opens, Head1
    <3>2. ToOpen'
      BY <1>1, <1>2, <2>2, <2>3, <3>1 DEF ToOpen, Next1
    <3> QED BY <1>3, <1>5, <3>2 DEF IInv, Phase
  <2>4. CASE FailsWith("error") /\ errno' = "call" /\ UNCHANGED <<blocked, program, masked>>
    <3>1. Phase'
      BY <1>1, <1>2, <2>2, <2>4, Fails DEF Ways, IInv
    <3> QED BY <1>3, <1>5, <3>1 DEF IInv
  <2> QED BY <1>1, <1>7, <2>3, <2>4 DEF Block, At
<1> QED BY <1>1, <1>6, <1>7

LEMMA PushStep == ASSUME IInv, Push PROVE IInv'
<1> USE DEF Types
<1>1. running /\ steps # <<>> /\ Head1[1] = "push"
  BY DEF Push, At
<1>2. "push" \notin Ways
  BY DEF Ways
<1>3. \/ Ahead /\ Head1 \in Plain /\ Tail(steps) \in Calls(want)
         /\ (Tail(steps) # <<>> /\ Head(Tail(steps)) \in Probing => Head1 = <<"clear", 0>>)
      \/ Late \/ Giving
  BY <1>1, <1>2, Where DEF IInv
<1>4. ~scoped /\ ~tmp /\ ~masked /\ blocked = program /\ Flagged
  BY <1>3 DEF Ahead, Late, Giving, Flagged
<1>5. CASE LuaError("memory")
  BY <1>4, <1>5, LuaErrorStep
<1>6. CASE /\ Next1
           /\ UNCHANGED <<build, running, want, held, scoped, tmp, masked, blocked, program,
                          errno, report, worldVars>>
  <2>1. WorldTypes' /\ Owners' /\ ErrorIsTheCalls' /\ CallTypes'
    BY <1>6, SameWorld DEF IInv, CallTypes, ErrorIsTheCalls
  <2>2. steps' = Tail(steps)
    BY <1>6 DEF Next1
  <2>3. CASE /\ Ahead /\ Head1 \in Plain /\ Tail(steps) \in Calls(want)
             /\ (Tail(steps) # <<>> /\ Head(Tail(steps)) \in Probing => Head1 = <<"clear", 0>>)
    <3>1. held = <<>>
      BY <2>3 DEF Ahead
    <3>2. Phase'
      BY <1>1, <1>4, <1>6, <2>2, <2>3, <3>1, GoesOn
    <3> QED BY <2>1, <3>2 DEF IInv
  <2>4. CASE Late
    <3>1. steps' = <<<<"error", 0>>>> /\ held = <<>> /\ errno = "call"
      BY <2>2, <2>4 DEF Late
    <3>2. WayOut("error") = <<<<"error", 0>>>>
      BY <1>4, <3>1, WayOutStep DEF Ways, Finish, IInv, CallTypes
    <3>3. OnWayOut'
      <4>1. WayOut("error")' = WayOut("error")
        BY <1>6 DEF WayOut, Finish, Drops
      <4> QED BY <1>1, <1>4, <1>6, <3>1, <3>2, <4>1 DEF OnWayOut, Ways
    <3> QED BY <2>1, <3>3 DEF IInv, Phase
  <2>5. CASE Giving
    <3>1. Tail(steps) \in Rest(Len(held))
      <4>1. Len(held) \in 1 .. 2 /\ steps \in Rest(Len(held)) /\ Head(steps)[1] = "push"
        BY <1>1, <2>5 DEF Giving, Head1
      <4>2. ASSUME NEW n \in 1 .. 2, NEW s \in Rest(n), Head(s)[1] = "push"
            PROVE  Tail(s) \in Rest(n)
        <5>1. Head(s) # <<"own", 0>> /\ Head(s) # <<"free", 0>>
          BY <4>2
        <5> QED BY <5>1, RestStep
      <4> QED BY <4>1, <4>2
    <3>2. Giving'
      BY <1>6, <2>2, <2>5, <3>1 DEF Giving, Flagged, worldVars
    <3> QED BY <2>1, <3>2 DEF IInv, Phase
  <2> QED BY <1>3, <2>3, <2>4, <2>5
<1> QED BY <1>5, <1>6 DEF Push

----
(* Steps that open descriptors and set their flags.                         *)

LEMMA LowestForm ==
  ASSUME NEW n \in Nat, NEW h \in Lowest(n)
  PROVE  h \in Seq(Num) /\ Len(h) = n /\ IsInjective(h) /\ Range(h) \subseteq Free
<1>1. h \in [1 .. n -> Free] /\ \A i, j \in 1 .. n : i < j => h[i] < h[j]
  BY DEF Lowest
<1>2. Free \subseteq Num /\ Num \subseteq Nat
  BY LuaCallsAssumption DEF Free
<1>3. DOMAIN h = 1 .. n /\ \A i \in 1 .. n : h[i] \in Free /\ h[i] \in Nat
  BY <1>1, <1>2
<1>4. h \in Seq(Num) /\ Len(h) = n
  <2>1. h \in [1 .. n -> Num]
    BY <1>1, <1>2
  <2>2. h \in Seq(Num)
    BY <2>1, SeqDef
  <2> QED BY <1>3, <2>2, LenProperties
<1>5. ASSUME NEW i \in 1 .. n, NEW j \in 1 .. n, h[i] = h[j] PROVE i = j
  <2>1. ~(i < j) /\ ~(j < i)
    BY <1>1, <1>3, <1>5
  <2> QED BY <2>1
<1>6. IsInjective(h)
  BY <1>3, <1>5 DEF IsInjective
<1>7. Range(h) \subseteq Free
  BY <1>3 DEF Range
<1> QED BY <1>4, <1>6, <1>7

\* New descriptors belong to nobody, and no object has their numbers.
LEMMA NewDescriptors ==
  ASSUME WorldTypes, Owners, held = <<>>, NEW n \in Nat, held' \in Lowest(n),
         NEW f \in SUBSET Flags, NEW g \in SUBSET Flags,
         open' = [i \in Num |-> IF i \in Range(held') THEN [has |-> f, want |-> g, owner |-> None]
                                ELSE open[i]],
         UNCHANGED <<objects, alive, lost>>
  PROVE  /\ WorldTypes' /\ Owners' /\ Len(held') = n
         /\ \A i \in 1 .. Len(held') : open'[held'[i]].has = f /\ open'[held'[i]].want = g
<1> DEFINE new == [has |-> f, want |-> g, owner |-> None]
<1>1. held' \in Seq(Num) /\ Len(held') = n /\ IsInjective(held') /\ Range(held') \subseteq Free
  BY LowestForm
<1>2. new \in Entry /\ new.has = f /\ new.want = g /\ new.owner = None
  BY DEF Entry
<1>3. \A i \in Num : /\ i \in Range(held') => open'[i] = new
                     /\ i \notin Range(held') => open'[i] = open[i]
  OBVIOUS
<1>4. \A i \in Range(held') : i \in Num /\ open[i] = Closed /\ open[i].owner = "closed"
  BY <1>1 DEF Free, Closed
<1> HIDE DEF new
<1>5. WorldTypes'
  BY <1>1, <1>2 DEF WorldTypes, new
<1>6. "closed" # None /\ "closed" \notin Obj /\ None \notin Obj
  BY LuaCallsAssumption DEF None
<1>7. \A o \in Obj : objects[o] \in Num => objects[o] \notin Range(held')
  BY <1>4, <1>6 DEF Owners
<1>8. Range(held) = {}
  BY RangeEmpty
<1>9. Owners'
  BY <1>2, <1>3, <1>4, <1>6, <1>7, <1>8 DEF Owners, Closed
<1>10. \A i \in 1 .. Len(held') : held'[i] \in Range(held')
  BY <1>1, InRangeOf
<1> QED BY <1>1, <1>2, <1>3, <1>4, <1>5, <1>9, <1>10

LEMMA OpenFails ==
  ASSUME IInv, running, held = <<>>, NEW how \in {"error", "code"}, FailsWith(how), errno' = "call",
         IF masked THEN blocked ELSE blocked = program /\ ~tmp,
         UNCHANGED <<build, running, want, held, scoped, tmp, masked, blocked, program, report,
                     worldVars>>
  PROVE  IInv'
<1> USE DEF IInv, Types
<1>1. WorldTypes' /\ Owners' /\ CallTypes' /\ ErrorIsTheCalls'
  BY SameWorld DEF CallTypes, ErrorIsTheCalls
<1>2. Phase'
  BY Fails DEF Ways
<1> QED BY <1>1, <1>2

\* Open, with what depends on its kind by name
LEMMA OpenForm ==
  ASSUME Open, NEW n, NEW f, NEW g, NEW how,
         n = (IF At("mkstemp") THEN 1 ELSE Head1[2]),
         f = (IF At("native") THEN want ELSE {}),
         g = (IF At("gai") THEN {} ELSE want),
         how = (IF At("gai") THEN "code" ELSE "error")
  PROVE  \/ /\ held' \in Lowest(n)
            /\ open' = [i \in Num |-> IF i \in Range(held')
                          THEN [has |-> f, want |-> g, owner |-> None] ELSE open[i]]
            /\ scoped' = (At("open") \/ At("mkstemp")) /\ tmp' = At("mkstemp")
            /\ Next1 /\ UNCHANGED errno
         \/ /\ errno' = "call" /\ FailsWith(how) /\ UNCHANGED <<held, open, scoped, tmp>>
<1> DEFINE N == IF At("mkstemp") THEN 1 ELSE Head1[2]
           F == IF At("native") THEN want ELSE {}
           G == IF At("gai") THEN {} ELSE want
           W == IF At("gai") THEN "code" ELSE "error"
<1>1. \/ /\ held' \in Lowest(N)
         /\ open' = [i \in Num |-> IF i \in Range(held')
                       THEN [has |-> F, want |-> G, owner |-> None] ELSE open[i]]
         /\ scoped' = (At("open") \/ At("mkstemp")) /\ tmp' = At("mkstemp")
         /\ Next1 /\ UNCHANGED errno
      \/ /\ errno' = "call" /\ FailsWith(W) /\ UNCHANGED <<held, open, scoped, tmp>>
  BY Zenon DEF Open
<1>2. n = N /\ f = F /\ g = G /\ how = W
  OBVIOUS
<1> HIDE DEF N, F, G, W
<1> QED BY <1>1, <1>2, Zenon

\* A native call, or getaddrinfo
LEMMA OpenNative ==
  ASSUME IInv, Open, Head1[1] \in {"native", "gai"}
  PROVE  IInv'
<1> USE DEF IInv, Types
<1>1. running /\ steps # <<>>
  BY DEF Open, Opening, At
<1>2. Ahead /\ steps \in Opens(want)
  <2>1. {"native", "gai"} \cap (PlainOps \cup Ways) = {}
    BY DEF PlainOps, Ways
  <2> QED BY <1>1, <2>1, Where DEF Plain
<1>3. held = <<>> /\ ~scoped /\ ~tmp /\ ~masked /\ blocked = program
  BY <1>2 DEF Ahead
<1>4. /\ Head1[2] \in 0 .. 2
      /\ Head1[2] \in 1 .. 2 => Tail(steps) \in Rest(Head1[2])
      /\ Head1[2] = 0 => Head1[1] = "gai" /\ Tail(steps) = <<<<"push", 0>>>>
  BY <1>2 DEF Opens, Head1
<1>0. PICK n, f : n = Head1[2] /\ f = (IF Head1[1] = "native" THEN want ELSE {})
  OBVIOUS
<1>5. UNCHANGED <<build, running, want, masked, blocked, program, report, objects, alive, lost>>
  BY DEF Open
<1>6. ErrorIsTheCalls'
  BY <1>5 DEF ErrorIsTheCalls
<1>7. ASSUME /\ held' \in Lowest(n)
             /\ open' = [i \in Num |-> IF i \in Range(held')
                           THEN [has |-> f, want |-> f, owner |-> None] ELSE open[i]]
             /\ scoped' = FALSE /\ tmp' = FALSE /\ Next1
      PROVE  IInv'
  <2>1. f \in SUBSET Flags /\ n \in Nat
    BY <1>0, <1>4 DEF CallTypes
  <2>2. /\ WorldTypes' /\ Owners' /\ Len(held') = n
        /\ \A i \in 1 .. Len(held') : open'[held'[i]].has = f /\ open'[held'[i]].want = f
    <3>1. WorldTypes /\ Owners /\ held' \in Lowest(n) /\ UNCHANGED <<objects, alive, lost>>
      BY <1>5, <1>7
    <3>2. open' = [i \in Num |-> IF i \in Range(held')
                    THEN [has |-> f, want |-> f, owner |-> None] ELSE open[i]]
      BY <1>7
    <3> QED BY <1>3, <2>1, <3>1, <3>2, NewDescriptors
  <2>3. CallTypes'
    BY <1>5, <1>7 DEF CallTypes
  <2>4. CASE n = 0
    <3>1. held' = <<>>
      BY <2>2, <2>4, EmptySeq DEF WorldTypes
    <3>2. Tail(steps) \in Calls(want)
      BY <1>0, <1>4, <2>4, ShortCalls
    <3>3. Head(Tail(steps)) = <<"push", 0>>
      <4>1. \A x : Head(<<x>>) = x
        OBVIOUS
      <4> QED BY <1>0, <1>4, <2>4, <4>1
    <3>4. <<"push", 0>> \notin Probing
      BY DEF Probing
    <3>5. Ahead'
      BY <1>1, <1>3, <1>5, <1>7, <3>1, <3>2, <3>3, <3>4 DEF Ahead, Next1
    <3> QED BY <1>6, <2>2, <2>3, <3>5 DEF Phase
  <2>5. CASE n \in 1 .. 2
    <3>1. Giving'
      BY <1>0, <1>1, <1>3, <1>4, <1>5, <1>7, <2>2, <2>5 DEF Giving, Flagged, Next1
    <3> QED BY <1>6, <2>2, <2>3, <3>1 DEF Phase
  <2> QED BY <1>0, <1>4, <2>4, <2>5
<1>8. ASSUME errno' = "call", NEW how \in {"error", "code"}, FailsWith(how),
             UNCHANGED <<held, open, scoped, tmp>>
      PROVE  IInv'
  BY <1>1, <1>3, <1>5, <1>8, OpenFails DEF worldVars
<1> HIDE DEF IInv
<1>9. CASE Head1[1] = "native"
  <2>1. f = want /\ At("native") /\ ~At("gai") /\ ~At("open") /\ ~At("mkstemp")
    BY <1>0, <1>1, <1>9 DEF At
  <2>2. /\ n = (IF At("mkstemp") THEN 1 ELSE Head1[2])
        /\ f = (IF At("native") THEN want ELSE {}) /\ f = (IF At("gai") THEN {} ELSE want)
        /\ "error" = (IF At("gai") THEN "code" ELSE "error")
    BY <1>0, <2>1
  <2>3. \/ /\ held' \in Lowest(n)
           /\ open' = [i \in Num |-> IF i \in Range(held')
                         THEN [has |-> f, want |-> f, owner |-> None] ELSE open[i]]
           /\ scoped' = (At("open") \/ At("mkstemp")) /\ tmp' = At("mkstemp")
           /\ Next1 /\ UNCHANGED errno
        \/ /\ errno' = "call" /\ FailsWith("error") /\ UNCHANGED <<held, open, scoped, tmp>>
    BY <2>2, OpenForm
  <2>4. (At("open") \/ At("mkstemp")) = FALSE /\ At("mkstemp") = FALSE
    BY <2>1 DEF At
  <2> QED BY <1>7, <1>8, <2>3, <2>4
<1>10. CASE Head1[1] = "gai"
  <2>1. f = {} /\ At("gai") /\ ~At("native") /\ ~At("open") /\ ~At("mkstemp")
    BY <1>0, <1>1, <1>10 DEF At
  <2>2. /\ n = (IF At("mkstemp") THEN 1 ELSE Head1[2])
        /\ f = (IF At("native") THEN want ELSE {}) /\ f = (IF At("gai") THEN {} ELSE want)
        /\ "code" = (IF At("gai") THEN "code" ELSE "error")
    BY <1>0, <2>1
  <2>3. \/ /\ held' \in Lowest(n)
           /\ open' = [i \in Num |-> IF i \in Range(held')
                         THEN [has |-> f, want |-> f, owner |-> None] ELSE open[i]]
           /\ scoped' = (At("open") \/ At("mkstemp")) /\ tmp' = At("mkstemp")
           /\ Next1 /\ UNCHANGED errno
        \/ /\ errno' = "call" /\ FailsWith("code") /\ UNCHANGED <<held, open, scoped, tmp>>
    BY <2>2, OpenForm
  <2>4. (At("open") \/ At("mkstemp")) = FALSE /\ At("mkstemp") = FALSE
    BY <2>1 DEF At
  <2> QED BY <1>7, <1>8, <2>3, <2>4
<1> QED BY <1>9, <1>10

\* The call of a fallback: it is to set the flags itself.
LEMMA OpenFallback ==
  ASSUME IInv, Open, Head1[1] \in {"open", "mkstemp"}
  PROVE  IInv'
<1> USE DEF IInv, Types
<1>1. running /\ steps # <<>>
  BY DEF Open, Opening, At
<1>2. ToOpen
  <2>1. {"open", "mkstemp"} \cap (PlainOps \cup Ways) = {}
    BY DEF PlainOps, Ways
  <2> QED BY <1>1, <2>1, Where DEF Plain
<1>3. held = <<>> /\ masked /\ blocked /\ ~scoped /\ ~tmp
  BY <1>2 DEF ToOpen
<1>4. PICK n \in 1 .. 2 : steps \in OpenSteps(n, want)
  BY <1>2 DEF ToOpen
<1>5. /\ Head1 \in OpenOps(n) /\ Tail(steps) \in FlagSteps(n)
      /\ \A c \in want, i \in 1 .. n : <<FlagOp(c), i>> \in Range(Tail(steps))
  BY <1>4 DEF OpenSteps, Head1
<1>6. PICK f, g : f = {} /\ g = want
  OBVIOUS
<1>7. /\ n = (IF At("mkstemp") THEN 1 ELSE Head1[2])
      /\ f = (IF At("native") THEN want ELSE {}) /\ g = (IF At("gai") THEN {} ELSE want)
      /\ "error" = (IF At("gai") THEN "code" ELSE "error")
  <2>1. ~At("native") /\ ~At("gai")
    BY DEF At
  <2>2. CASE Head1 = <<"open", n>>
    <3>1. ~At("mkstemp") /\ Head1[2] = n
      BY <2>2 DEF At
    <3> QED BY <1>6, <2>1, <3>1
  <2>3. CASE n = 1 /\ Head1 = <<"mkstemp", 0>>
    <3>1. At("mkstemp")
      BY <1>1, <2>3 DEF At
    <3> QED BY <1>6, <2>1, <2>3, <3>1
  <2> QED BY <1>5, <2>2, <2>3 DEF OpenOps
<1>8. \/ /\ held' \in Lowest(n)
         /\ open' = [i \in Num |-> IF i \in Range(held')
                       THEN [has |-> f, want |-> g, owner |-> None] ELSE open[i]]
         /\ scoped' = (At("open") \/ At("mkstemp")) /\ tmp' = At("mkstemp")
         /\ Next1 /\ UNCHANGED errno
      \/ /\ errno' = "call" /\ FailsWith("error") /\ UNCHANGED <<held, open, scoped, tmp>>
  BY <1>7, OpenForm
<1>9. (At("open") \/ At("mkstemp")) = TRUE /\ At("mkstemp") \in BOOLEAN
  BY <1>1 DEF At
<1>10. UNCHANGED <<build, running, want, masked, blocked, program, report, objects, alive, lost>>
  BY DEF Open
<1>11. ErrorIsTheCalls'
  BY <1>10 DEF ErrorIsTheCalls
<1>12. CASE /\ held' \in Lowest(n)
            /\ open' = [i \in Num |-> IF i \in Range(held')
                          THEN [has |-> f, want |-> g, owner |-> None] ELSE open[i]]
            /\ scoped' = TRUE /\ tmp' = At("mkstemp") /\ Next1
  <2>1. f \in SUBSET Flags /\ g \in SUBSET Flags /\ n \in Nat
    BY <1>6 DEF CallTypes
  <2>2. /\ WorldTypes' /\ Owners' /\ Len(held') = n
        /\ \A i \in 1 .. Len(held') : open'[held'[i]].has = f /\ open'[held'[i]].want = g
    BY <1>3, <1>10, <1>12, <2>1, NewDescriptors
  <2>3. CallTypes'
    BY <1>9, <1>10, <1>12 DEF CallTypes
  <2>4. SettingFlags'
    BY <1>1, <1>3, <1>5, <1>6, <1>10, <1>12, <2>2 DEF SettingFlags, Next1
  <2> QED BY <1>11, <2>2, <2>3, <2>4 DEF Phase
<1>13. CASE errno' = "call" /\ FailsWith("error") /\ UNCHANGED <<held, open, scoped, tmp>>
  BY <1>1, <1>3, <1>10, <1>13, OpenFails DEF worldVars
<1> QED BY <1>8, <1>9, <1>12, <1>13

LEMMA OpenStep == ASSUME IInv, Open PROVE IInv'
<1>1. Head1[1] \in {"native", "gai", "open", "mkstemp"}
  BY DEF Open, Opening, At
<1> QED BY <1>1, OpenNative, OpenFallback

\* One flag of one descriptor
LEMMA SetFlagStep == ASSUME IInv, SetFlag PROVE IInv'
<1> USE DEF IInv, Types
<1>1. running /\ steps # <<>> /\ Head1[1] \in {"coe", "mode"}
  BY DEF SetFlag, At
<1>2. SettingFlags
  <2>1. {"coe", "mode"} \cap (PlainOps \cup Ways) = {}
    BY DEF PlainOps, Ways
  <2> QED BY <1>1, <2>1, Where DEF Plain
<1>3. /\ masked /\ blocked /\ scoped /\ Len(held) \in 1 .. 2
      /\ Head1 \in FlagSet(Len(held)) /\ Tail(steps) \in FlagSteps(Len(held))
      /\ Range(steps) = Range(Tail(steps)) \cup {Head1}
  <2>1. /\ masked /\ blocked /\ scoped /\ Len(held) \in 1 .. 2 /\ steps \in FlagSteps(Len(held))
    BY <1>2 DEF SettingFlags
  <2>2. /\ steps \in Seq(AnyStep)
        /\ \/ Head1 \in FlagSet(Len(held)) /\ Tail(steps) \in FlagSteps(Len(held))
           \/ Head1 = <<"release", 0>>
    BY <2>1, FlagStepsStep DEF Head1
  <2>3. Range(steps) = Range(Tail(steps)) \cup {Head1}
    BY <1>1, <2>2, TailRange DEF Head1
  <2> QED BY <1>1, <2>1, <2>2, <2>3
<1>4. UNCHANGED <<build, running, want, held, scoped, tmp, masked, blocked, program, report,
                  objects, alive, lost>>
  BY DEF SetFlag
<1>5. CallTypes' /\ ErrorIsTheCalls'
  BY <1>4 DEF CallTypes, ErrorIsTheCalls
<1>6. CASE FailsWith("error") /\ errno' = "call" /\ UNCHANGED open
  <2>1. WorldTypes' /\ Owners'
    BY <1>4, <1>6, SameWorld DEF worldVars
  <2>2. Phase'
    BY <1>1, <1>3, <1>4, <1>6, Fails DEF Ways
  <2> QED BY <1>5, <2>1, <2>2
<1> DEFINE k == Head1[2]
           m == held[k]
           c == IF At("coe") THEN "cloexec" ELSE "mode"
<1>7. CASE Next1 /\ open' = [open EXCEPT ![m].has = @ \cup {c}]
  <2>1. k \in 1 .. Len(held) /\ m \in Num /\ c \in Flags /\ m \in Range(held)
    <3>1. k \in 1 .. Len(held)
      BY <1>3 DEF FlagSet
    <3>2. m \in Num /\ m \in Range(held)
      BY <3>1, InRangeOf DEF WorldTypes
    <3> QED BY <3>1, <3>2 DEF Flags
  <2>2. Head1 = <<FlagOp(c), k>>
    <3>1. Head1 = <<"coe", k>> \/ Head1 = <<"mode", k>>
      BY <1>3 DEF FlagSet
    <3> QED BY <1>1, <3>1 DEF FlagOp, At
  <2>3. \A d \in Flags : FlagOp(d) = FlagOp(c) => d = c
    BY <2>1 DEF Flags, FlagOp
  <2> HIDE DEF c, k
  <2>4. /\ open' \in [Num -> Entry]
        /\ open'[m].has = open[m].has \cup {c} /\ open'[m].want = open[m].want
        /\ open'[m].owner = open[m].owner
        /\ \A i \in Num : i # m => open'[i] = open[i]
    <3> DEFINE e == [open[m] EXCEPT !.has = @ \cup {c}]
    <3>1. open \in [Num -> Entry] /\ open[m] \in Entry
      BY <2>1 DEF WorldTypes
    <3>2. /\ e \in Entry /\ e.has = open[m].has \cup {c} /\ e.want = open[m].want
          /\ e.owner = open[m].owner
      BY <2>1, <3>1 DEF Entry
    <3>3. open' = [open EXCEPT ![m] = e]
      BY <1>7
    <3> HIDE DEF e, m
    <3> QED BY <2>1, <3>1, <3>2, <3>3
  <2>5. WorldTypes'
    BY <1>4, <2>4 DEF WorldTypes
  <2>6. \A i \in Num : /\ open'[i].owner = open[i].owner /\ open'[i].want = open[i].want
                       /\ open[i].has \subseteq open'[i].has
                       /\ i # m => open'[i] = open[i]
    BY <2>4
  <2>7. "closed" # None /\ open[m].owner = None
    BY <2>1 DEF Owners, None
  <2>8. Owners'
    BY <1>4, <2>1, <2>6, <2>7 DEF Owners, Closed
  <2>9. ASSUME NEW i \in 1 .. Len(held), NEW d \in want
        PROVE  d \in open'[held[i]].has \/ <<FlagOp(d), i>> \in Range(Tail(steps))
    <3>1. d \in open[held[i]].has \/ <<FlagOp(d), i>> \in Range(steps)
      BY <1>2 DEF SettingFlags
    <3>2. held[i] \in Num
      BY InRangeOf DEF WorldTypes
    <3>3. CASE <<FlagOp(d), i>> = Head1
      <4>1. FlagOp(d) = FlagOp(c) /\ i = k
        BY <2>2, <3>3
      <4>2. d = c
        BY <2>3, <4>1 DEF CallTypes
      <4> QED BY <2>4, <4>1, <4>2
    <3>4. CASE <<FlagOp(d), i>> # Head1
      BY <1>3, <2>6, <3>1, <3>2, <3>4
    <3> QED BY <3>3, <3>4
  <2>10. \A i \in 1 .. Len(held) : open'[held[i]].want = want
    <3>1. ASSUME NEW i \in 1 .. Len(held) PROVE open'[held[i]].want = want
      <4>1. held[i] \in Num /\ open[held[i]].want = want
        BY <1>2, InRangeOf DEF WorldTypes, SettingFlags
      <4> QED BY <2>6, <4>1
    <3> QED BY <3>1
  <2>11. SettingFlags'
    BY <1>1, <1>3, <1>4, <1>7, <2>9, <2>10 DEF SettingFlags, Next1
  <2> QED BY <1>5, <2>5, <2>8, <2>11 DEF Phase
<1> QED BY <1>6, <1>7 DEF SetFlag

\* What follows a fallback sets no flags.
LEMMA RestRange ==
  ASSUME NEW n \in 1 .. 2, NEW r \in Rest(n)
  PROVE  \A x \in Range(r) : x[1] \in {"own", "push", "free"}
<1> DEFINE o == <<"own", 0>>
           u == <<"push", 0>>
           f == <<"free", 0>>
<1>1. o[1] = "own" /\ u[1] = "push" /\ f[1] = "free"
  OBVIOUS
<1>2. r \in {<<o>>, <<o, u>>, <<u, o>>, <<u, f>>, <<f>>, <<o, o>>}
  BY DEF Rest
<1> HIDE DEF o, u, f
<1>3. \A x, y : Range(<<x>>) \subseteq {x} /\ Range(<<x, y>>) \subseteq {x, y}
  BY DEF Range
<1> QED BY <1>1, <1>2, <1>3

LEMMA ReleaseStep == ASSUME IInv, Release PROVE IInv'
<1> USE DEF IInv, Types
<1>1. running /\ steps # <<>> /\ Head1[1] = "release"
  BY DEF Release, At
<1>2. SettingFlags
  <2>1. "release" \notin PlainOps \cup Ways
    BY DEF PlainOps, Ways
  <2> QED BY <1>1, <2>1, Where DEF Plain
<1>3. /\ masked /\ blocked /\ Len(held) \in 1 .. 2 /\ steps \in FlagSteps(Len(held))
  BY <1>2 DEF SettingFlags
<1>4. /\ steps \in Seq(AnyStep)
      /\ Head1 = <<"release", 0>> /\ Tail(steps) \in Rest(Len(held))
  BY <1>1, <1>3, FlagStepsStep DEF Head1, FlagSet
<1>5. Tail(steps) \in Seq(AnyStep) /\ Range(steps) = Range(Tail(steps)) \cup {Head1}
  BY <1>1, <1>4, TailRange DEF Head1
<1>6. ASSUME NEW d, NEW i PROVE <<FlagOp(d), i>> \notin Range(steps)
  <2>1. \A x \in Range(steps) : x[1] \in {"own", "push", "free", "release"}
    <3>1. \A n \in 1 .. 2 : \A r \in Rest(n) : \A x \in Range(r) : x[1] \in {"own", "push", "free"}
      BY RestRange
    <3>2. \A x \in Range(Tail(steps)) : x[1] \in {"own", "push", "free"}
      BY <1>3, <1>4, <3>1
    <3>3. Head1[1] = "release"
      BY <1>4
    <3> QED BY <1>5, <3>2, <3>3
  <2>2. <<FlagOp(d), i>>[1] \in {"coe", "mode"}
    BY DEF FlagOp
  <2> QED BY <2>1, <2>2
<1>7. Flagged
  BY <1>2, <1>6 DEF Flagged, SettingFlags
<1>8. /\ UNCHANGED <<build, running, want, held, masked, blocked, program, errno, report, worldVars>>
      /\ scoped' = FALSE /\ tmp' = FALSE
  BY DEF Release
<1>9. CallTypes' /\ ErrorIsTheCalls' /\ WorldTypes' /\ Owners'
  BY <1>8, SameWorld DEF CallTypes, ErrorIsTheCalls
<1>10. steps' # <<>> /\ Head(steps') = <<"restore", 0>> /\ Tail(steps') = Tail(steps)
  <2> DEFINE e == <<"restore", 0>>
  <2>1. e \in AnyStep /\ e = <<"restore", 0>> /\ steps' = <<e>> \o Tail(steps)
    BY DEF AnyStep, Release
  <2> HIDE DEF e
  <2> QED BY <1>5, <2>1, HeadTailOfCons
<1>11. ToRestore'
  BY <1>1, <1>3, <1>4, <1>7, <1>8, <1>10 DEF ToRestore, Flagged, worldVars
<1> QED BY <1>9, <1>11 DEF Phase

\* A destructor closes the descriptor that was opened last.
LEMMA CloseLast ==
  ASSUME WorldTypes, Owners, held # <<>>,
         open' = [open EXCEPT ![held[Len(held)]] = Closed],
         held' = SubSeq(held, 1, Len(held) - 1),
         UNCHANGED <<objects, alive, lost>>
  PROVE  WorldTypes' /\ Owners' /\ Len(held') = Len(held) - 1
<1> DEFINE k == Len(held)
           m == held[k]
<1>1. held \in Seq(Num) /\ k \in Nat \ {0} /\ IsInjective(held)
  BY EmptySeq, LenProperties DEF WorldTypes
<1>2. k \in 1 .. k /\ m \in Num /\ m \in Range(held)
  BY <1>1, InRangeOf
<1>3. held' \in Seq(Num) /\ Len(held') = k - 1
  BY <1>1, FrontRange
<1>5. IsInjective(held')
  BY <1>1, FrontRange
<1>6. Range(held') = Range(held) \ {m}
  BY <1>1, FrontRange
<1>7. open[m].owner = None /\ None # "closed" /\ None \notin Obj /\ "closed" \notin Obj
  BY <1>2, LuaCallsAssumption DEF Owners, None
<1>8. /\ Closed \in Entry /\ Closed.owner = "closed" /\ Closed.want = {} /\ Closed.has = {}
  BY DEF Closed, Entry
<1> HIDE DEF k, m
<1>9. /\ open' \in [Num -> Entry] /\ open'[m] = Closed
      /\ \A i \in Num : i # m => open'[i] = open[i]
  BY <1>2, <1>8 DEF WorldTypes, k, m
<1>10. WorldTypes'
  BY <1>3, <1>5, <1>9 DEF WorldTypes
<1>11. Closed' = Closed
  BY DEF Closed
<1>12. Owners'
  BY <1>2, <1>6, <1>7, <1>8, <1>9, <1>11 DEF Owners
<1> QED BY <1>3, <1>10, <1>12 DEF k

LEMMA DestructStep == ASSUME IInv, Destruct PROVE IInv'
<1> USE DEF IInv, Types
<1>1. running /\ steps # <<>> /\ Head1[1] \in {"restore", "unlink", "drop", "free"}
  BY DEF Destruct, At
<1>2. {"restore", "unlink", "drop", "free"} \cap (PlainOps \cup Ways) = {}
  BY DEF PlainOps, Ways
<1>3. \/ Giving /\ Head1[1] = "free"
      \/ ToRestore /\ Head1[1] = "restore"
      \/ OnWayOut /\ Head1[1] \in {"unlink", "drop", "restore"}
  BY <1>1, <1>2, Where DEF Plain
<1>4. /\ UNCHANGED <<build, running, want, scoped, program, report, objects, alive, lost>>
      /\ errno' = errno /\ steps' = Tail(steps)
  BY DEF Destruct, errno_saver, Next1
<1>5. ErrorIsTheCalls'
  BY <1>4 DEF ErrorIsTheCalls
<1>6. CASE Head1[1] = "restore"
  <2>1. blocked' = program /\ masked' = FALSE /\ UNCHANGED <<held, open, tmp>>
    BY <1>6 DEF Destruct, At
  <2>2. CallTypes' /\ WorldTypes' /\ Owners'
    BY <1>4, <2>1, SameWorld DEF CallTypes, worldVars
  <2>3. CASE ToRestore
    <3>1. Giving'
      BY <1>4, <2>1, <2>3 DEF ToRestore, Giving, Flagged
    <3> QED BY <1>5, <2>2, <3>1 DEF Phase
  <2>4. CASE OnWayOut
    <3>1. PICK how \in Ways :
            steps = WayOut(how) /\ (how \in {"error", "throw"} => errno = "call")
      BY <2>4 DEF OnWayOut
    <3>2. ~tmp /\ held = <<>> /\ steps = Finish(how)
      BY <1>6, <3>1, WayOutStep DEF Head1, CallTypes
    <3>3. masked /\ Tail(steps) = <<<<how, 0>>>>
      BY <1>2, <1>6, <3>2, FinishStep DEF Head1, CallTypes
    <3>4. WayOut(how)' = <<<<how, 0>>>>
      <4>1. WayOut(how)' = Drops(0) \o Finish(how)'
        BY <2>1, <3>2 DEF WayOut, Drops
      <4>2. Finish(how)' = <<<<how, 0>>>>
        BY <2>1 DEF Finish
      <4>3. <<<<how, 0>>>> \in Seq(AnyStep)
        <5>1. <<how, 0>> \in AnyStep
          BY DEF AnyStep, Ways
        <5> QED BY <5>1
      <4>4. Drops(0) = <<>>
        BY DropsForm
      <4> QED BY <4>1, <4>2, <4>3, <4>4, ConcatEmptySeq
    <3>5. OnWayOut'
      BY <1>1, <1>4, <2>1, <3>1, <3>2, <3>3, <3>4 DEF OnWayOut
    <3> QED BY <1>5, <2>2, <3>5 DEF Phase
  <2> QED BY <1>3, <1>6, <2>3, <2>4
<1>7. CASE Head1[1] = "unlink"
  <2>1. tmp' = FALSE /\ UNCHANGED <<held, open, blocked, masked>>
    BY <1>7 DEF Destruct, At
  <2>2. CallTypes' /\ WorldTypes' /\ Owners'
    BY <1>4, <2>1, SameWorld DEF CallTypes, worldVars
  <2>3. OnWayOut
    BY <1>3, <1>7
  <2>4. PICK how \in Ways :
          steps = WayOut(how) /\ (how \in {"error", "throw"} => errno = "call")
    BY <2>3 DEF OnWayOut
  <2>5. tmp
    <3>1. held = <<>> /\ ~tmp => Head1[1] \in {"restore", how}
      BY <2>4, WayOutStep, FinishStep DEF Head1, CallTypes
    <3>2. held # <<>> /\ ~tmp => Head1[1] = "drop"
      BY <2>4, WayOutStep DEF Head1
    <3> QED BY <1>2, <1>7, <3>1, <3>2
  <2>6. Tail(steps) = Drops(Len(held)) \o Finish(how)
    BY <2>4, <2>5, WayOutStep
  <2>7. WayOut(how)' = Drops(Len(held)) \o Finish(how)
    <3>1. Drops(Len(held))' = Drops(Len(held)) /\ Finish(how)' = Finish(how)
      BY <2>1 DEF Drops, Finish
    <3> QED BY <2>1, <3>1 DEF WayOut
  <2>8. OnWayOut'
    BY <1>1, <1>4, <2>1, <2>3, <2>4, <2>5, <2>6, <2>7 DEF OnWayOut
  <2> QED BY <1>5, <2>2, <2>8 DEF Phase
<1>8. CASE Head1[1] \in {"drop", "free"}
  <2>1. /\ open' = [open EXCEPT ![held[Len(held)]] = Closed]
        /\ held' = SubSeq(held, 1, Len(held) - 1)
        /\ UNCHANGED <<blocked, masked, tmp>>
    BY <1>8 DEF Destruct, At
  <2>2. CallTypes'
    BY <1>4, <2>1 DEF CallTypes
  <2>3. CASE Giving /\ Head1[1] = "free"
    <3>1. Len(held) \in 1 .. 2 /\ steps \in Rest(Len(held))
      BY <2>3 DEF Giving
    <3>2. Len(held) = 1 /\ Tail(steps) = <<>>
      <4>1. ASSUME NEW n \in 1 .. 2, NEW s \in Rest(n), Head(s)[1] = "free"
            PROVE  n = 1 /\ Tail(s) = <<>>
        <5>1. Head(s) # <<"own", 0>> /\ Head(s) # <<"push", 0>>
          BY <4>1
        <5> QED BY <5>1, RestStep
      <4> QED BY <2>3, <3>1, <4>1 DEF Head1
    <3>3. WorldTypes' /\ Owners' /\ Len(held') = 0
      BY <1>4, <2>1, <3>2, CloseLast
    <3>4. held' = <<>>
      BY <3>3, EmptySeq DEF WorldTypes
    <3>5. Ahead'
      BY <1>1, <1>4, <2>1, <2>3, <3>2, <3>4, ShortCalls DEF Giving, Ahead
    <3> QED BY <1>5, <2>2, <3>3, <3>5 DEF Phase
  <2>4. CASE OnWayOut /\ Head1[1] = "drop"
    <3>1. PICK how \in Ways :
            steps = WayOut(how) /\ (how \in {"error", "throw"} => errno = "call")
      BY <2>4 DEF OnWayOut
    <3>2. ~tmp /\ held # <<>>
      <4>1. tmp => Head1[1] = "unlink"
        BY <3>1, WayOutStep DEF Head1
      <4>2. ~tmp /\ held = <<>> => Head1[1] \in {"restore", how}
        BY <3>1, WayOutStep, FinishStep DEF Head1, CallTypes
      <4> QED BY <1>2, <2>4, <4>1, <4>2
    <3>3. WorldTypes' /\ Owners' /\ Len(held') = Len(held) - 1
      BY <1>4, <2>1, <3>2, CloseLast
    <3>4. Tail(steps) = Drops(Len(held) - 1) \o Finish(how)
      BY <3>1, <3>2, WayOutStep
    <3>5. WayOut(how)' = Drops(Len(held) - 1) \o Finish(how)
      <4>1. Drops(Len(held))' = Drops(Len(held) - 1) /\ Finish(how)' = Finish(how)
        BY <2>1, <3>3 DEF Drops, Finish
      <4> QED BY <2>1, <3>2, <4>1 DEF WayOut
    <3>6. OnWayOut'
      BY <1>1, <1>4, <2>1, <2>4, <3>1, <3>2, <3>4, <3>5 DEF OnWayOut
    <3> QED BY <1>5, <2>2, <3>3, <3>6 DEF Phase
  <2> QED BY <1>3, <1>8, <2>3, <2>4
<1> QED BY <1>1, <1>6, <1>7, <1>8

----
(* Steps of objects.                                                        *)

\* A descriptor without an owner gets an object, and the call no longer
\* holds it.
LEMMA GetsObject ==
  ASSUME WorldTypes, Owners, NEW o \in Obj, objects[o] = NoObject,
         NEW n \in Num, open[n].owner = None, open[n].want \subseteq open[n].has,
         objects' = [objects EXCEPT ![o] = n],
         open' = [open EXCEPT ![n].owner = o],
         alive' = alive \cup {o},
         held' \in Seq(Num), IsInjective(held'), Range(held') = Range(held) \ {n},
         lost' \in {lost, lost \ {n}}
  PROVE  /\ WorldTypes' /\ Owners'
         /\ \A i \in Num : open'[i].want = open[i].want /\ open'[i].has = open[i].has
<1>1. NoObject # n /\ NoObject \notin Num
  BY LuaCallsAssumption DEF NoObject
<1>2. None # "closed" /\ None \notin Obj /\ "closed" \notin Obj
  BY LuaCallsAssumption DEF None
<1>3. /\ open' \in [Num -> Entry] /\ open'[n].owner = o
      /\ open'[n].want = open[n].want /\ open'[n].has = open[n].has
      /\ \A i \in Num : i # n => open'[i] = open[i]
  BY DEF WorldTypes, Entry
<1>4. /\ objects' \in [Obj -> Num \cup {NoObject, Shut}] /\ objects'[o] = n
      /\ \A p \in Obj : p # o => objects'[p] = objects[p]
  BY DEF WorldTypes
<1>5. WorldTypes'
  BY <1>3, <1>4 DEF WorldTypes
<1>6. \A p \in Obj : objects[p] # n
  BY <1>2 DEF Owners
<1>7. Closed' = Closed
  BY DEF Closed
<1>8. Owners'
  <2>1. ASSUME NEW p \in alive' PROVE objects'[p] # NoObject
    BY <1>1, <1>4, <2>1 DEF Owners, WorldTypes
  <2>2. ASSUME NEW p \in Obj, objects'[p] \in Num PROVE open'[objects'[p]].owner = p
    <3>1. CASE p = o
      BY <1>3, <1>4, <3>1
    <3>2. CASE p # o
      BY <1>3, <1>4, <1>6, <2>2, <3>2 DEF Owners
    <3> QED BY <3>1, <3>2
  <2>3. ASSUME NEW i \in Num
        PROVE  /\ open'[i].owner = "closed" => open'[i] = Closed
               /\ open'[i].owner \in Obj => objects'[open'[i].owner] = i
               /\ open'[i].owner = None => i \in Range(held') \cup lost'
               /\ i \in Range(held') => open'[i].owner = None
               /\ i \notin Range(held') => open'[i].want \subseteq open'[i].has
    <3>1. CASE i = n
      BY <1>2, <1>3, <1>4, <3>1
    <3>2. CASE i # n
      <4>1. open[i].owner # o
        BY <1>1 DEF Owners
      <4> QED BY <1>3, <1>4, <3>2, <4>1 DEF Owners
    <3> QED BY <3>1, <3>2
  <2> QED BY <1>7, <2>1, <2>2, <2>3 DEF Owners
<1> QED BY <1>3, <1>5, <1>8

LEMMA NewFdStep == ASSUME IInv, new_fd PROVE IInv'
<1> USE DEF IInv, Types
<1>1. running /\ steps # <<>> /\ Head1[1] = "own"
  BY DEF new_fd, At
<1>2. Giving
  <2>1. "own" \notin PlainOps \cup Ways
    BY DEF PlainOps, Ways
  <2> QED BY <1>1, <2>1, Where DEF Plain
<1>3. /\ ~scoped /\ ~tmp /\ ~masked /\ blocked = program /\ Flagged
      /\ Len(held) \in 1 .. 2 /\ steps \in Rest(Len(held))
  BY <1>2 DEF Giving
<1>4. CASE LuaError("memory")
  BY <1>3, <1>4, LuaErrorStep
<1>5. ASSUME NEW o \in Obj, objects[o] = NoObject,
             objects' = [objects EXCEPT ![o] = held[1]],
             open' = [open EXCEPT ![held[1]].owner = o],
             alive' = alive \cup {o}, held' = Tail(held), Next1,
             UNCHANGED <<build, running, want, scoped, tmp, masked, blocked, program,
                         errno, report, lost>>
      PROVE  IInv'
  <2>1. /\ held \in Seq(Num) /\ held # <<>> /\ held[1] \in Num /\ held[1] \in Range(held)
        /\ held' \in Seq(Num) /\ Len(held') = Len(held) - 1 /\ IsInjective(held')
        /\ Range(held') = Range(held) \ {held[1]}
    <3>0. Len(held) # 0
      BY <1>3
    <3>1. held \in Seq(Num) /\ IsInjective(held) /\ held # <<>>
      BY <3>0, EmptySeq DEF WorldTypes
    <3>2. Head(held) = held[1] /\ Len(Tail(held)) = Len(held) - 1
      BY <3>1, HeadTailProperties
    <3> QED BY <1>5, <3>1, <3>2, TailRange
  <2>2. open[held[1]].owner = None /\ open[held[1]].want \subseteq open[held[1]].has
    BY <1>3, <2>1 DEF Owners, Flagged
  <2>3. /\ WorldTypes' /\ Owners'
        /\ \A i \in Num : open'[i].want = open[i].want /\ open'[i].has = open[i].has
    <3>1. PICK n \in Num : n = held[1]
      BY <2>1
    <3>2. lost' \in {lost, lost \ {n}}
      BY <1>5
    <3> QED BY <1>5, <2>1, <2>2, <3>1, <3>2, GetsObject
  <2>4. CallTypes' /\ ErrorIsTheCalls'
    BY <1>5 DEF CallTypes, ErrorIsTheCalls
  <2>5. \A i \in 1 .. Len(held') : held'[i] \in Range(held) /\ held'[i] \in Num
    BY <2>1, InRangeOf
  <2>6. Flagged'
    <3>1. \A m \in Range(held) : open[m].want \subseteq open[m].has
      BY <1>3, <2>1, InRangeOf, SMTT(30) DEF Flagged
    <3> QED BY <2>3, <2>5, <3>1 DEF Flagged
  <2>7. \/ Len(held) = 1 /\ Tail(steps) \in {<<>>, <<<<"push", 0>>>>}
        \/ Len(held) = 2 /\ Tail(steps) \in Rest(1)
    <3>1. ASSUME NEW n \in 1 .. 2, NEW s \in Rest(n), Head(s)[1] = "own"
          PROVE  \/ n = 1 /\ Tail(s) \in {<<>>, <<<<"push", 0>>>>}
                 \/ n = 2 /\ Tail(s) \in Rest(1)
      <4>1. Head(s) # <<"push", 0>> /\ Head(s) # <<"free", 0>>
        BY <3>1
      <4> QED BY <4>1, RestStep
    <3> QED BY <1>1, <1>3, <3>1 DEF Head1
  <2>8. CASE Len(held) = 1 /\ Tail(steps) \in {<<>>, <<<<"push", 0>>>>}
    <3>1. held' = <<>>
      BY <2>1, <2>8, EmptySeq
    <3>2. Tail(steps) \in Calls(want)
      BY <2>8, ShortCalls
    <3>3. Tail(steps) # <<>> => Head(Tail(steps)) \notin Probing
      <4>1. \A x : Head(<<x>>) = x
        OBVIOUS
      <4>2. <<"push", 0>> \notin Probing
        BY DEF Probing
      <4> QED BY <2>8, <4>1, <4>2
    <3>4. Ahead'
      BY <1>1, <1>3, <1>5, <3>1, <3>2, <3>3 DEF Ahead, Next1
    <3> QED BY <2>3, <2>4, <3>4 DEF Phase
  <2>9. CASE Len(held) = 2 /\ Tail(steps) \in Rest(1)
    <3>1. Len(held') = 1
      BY <2>1, <2>9
    <3>2. steps' \in Rest(Len(held')) /\ Len(held') \in 1 .. 2
      <4>1. 1 \in 1 .. 2 /\ steps' = Tail(steps) /\ Tail(steps) \in Rest(1)
        BY <1>5, <2>9 DEF Next1
      <4> QED BY <3>1, <4>1
    <3>3. Giving'
      BY <1>1, <1>3, <1>5, <2>6, <3>2 DEF Giving
    <3> QED BY <2>3, <2>4, <3>3 DEF Phase
  <2> QED BY <2>7, <2>8, <2>9
<1> QED BY <1>4, <1>5 DEF new_fd

LEMMA AdoptStep == ASSUME IInv, Adopt PROVE IInv'
<1> USE DEF Types
<1>1. running /\ steps # <<>> /\ Head1[1] = "adopt" /\ "adopt" \in PlainOps \ {"push"}
  BY DEF Adopt, At, PlainOps
<1>2. held = <<>> /\ ~tmp /\ ~masked /\ blocked = program /\ Flagged
  BY <1>1, HoldsNothing DEF Flagged
<1>3. CASE LuaError("memory")
  BY <1>2, <1>3, LuaErrorStep
<1>4. ASSUME NEW o \in Obj, NEW n \in Unowned, objects[o] = NoObject,
             objects' = [objects EXCEPT ![o] = n],
             open' = [open EXCEPT ![n].owner = o],
             alive' = alive \cup {o}, lost' = lost \ {n}, Next1,
             UNCHANGED <<build, running, want, held, scoped, tmp, masked, blocked, program,
                         errno, report>>
      PROVE  IInv'
  <2>1. n \in Num /\ open[n].owner = None
    BY DEF Unowned
  <2>2. n \notin Range(held) /\ Range(held') = Range(held) \ {n}
    BY <1>2, <1>4, RangeEmpty
  <2>3. held' \in Seq(Num) /\ IsInjective(held')
    BY <1>4 DEF IInv, WorldTypes
  <2>4. WorldTypes' /\ Owners'
    BY <1>4, <2>1, <2>2, <2>3, GetsObject DEF IInv, Owners
  <2>5. program' \in BOOLEAN /\ blocked' \in BOOLEAN /\ blocked' = program'
    BY <1>2, <1>4 DEF IInv, CallTypes
  <2> QED BY <1>1, <1>4, <2>4, <2>5, NothingHeld DEF Next1
<1> QED BY <1>3, <1>4 DEF Adopt

\* An object lets go of its descriptor, which is closed.
LEMMA LetsGo ==
  ASSUME WorldTypes, Owners, NEW o \in Obj, objects[o] # NoObject, NEW v \in {NoObject, Shut},
         v = NoObject => o \notin alive,
         objects' = [objects EXCEPT ![o] = v],
         open' = IF objects[o] = Shut THEN open ELSE [open EXCEPT ![objects[o]] = Closed],
         UNCHANGED <<held, alive, lost>>
  PROVE  /\ WorldTypes' /\ Owners'
         /\ \A i \in 1 .. Len(held) : open'[held[i]] = open[held[i]]
<1>1. NoObject \notin Num /\ Shut \notin Num /\ Shut # NoObject
  BY LuaCallsAssumption DEF NoObject, Shut
<1>2. None # "closed" /\ None \notin Obj /\ "closed" \notin Obj
  BY LuaCallsAssumption DEF None
<1>3. /\ objects' \in [Obj -> Num \cup {NoObject, Shut}] /\ objects'[o] = v
      /\ \A p \in Obj : p # o => objects'[p] = objects[p]
  BY DEF WorldTypes
<1>4. Closed' = Closed
  BY DEF Closed
<1>5. CASE objects[o] = Shut
  <2>1. open' = open
    BY <1>5
  <2>2. WorldTypes'
    BY <1>3, <2>1 DEF WorldTypes
  <2>3. \A i \in Num : open[i].owner # o
    BY <1>1, <1>5 DEF Owners
  <2>4. Owners'
    BY <1>1, <1>3, <1>4, <2>1, <2>3 DEF Owners, WorldTypes
  <2> QED BY <2>1, <2>2, <2>4
<1>6. CASE objects[o] # Shut
  <2>1. PICK m \in Num : objects[o] = m
    BY <1>6 DEF WorldTypes
  <2>2. open[m].owner = o
    BY <2>1 DEF Owners
  <2>3. /\ Closed \in Entry /\ Closed.owner = "closed" /\ Closed.want = {} /\ Closed.has = {}
    BY DEF Closed, Entry
  <2>4. /\ open' \in [Num -> Entry] /\ open'[m] = Closed
        /\ \A i \in Num : i # m => open'[i] = open[i]
    BY <1>6, <2>1, <2>3 DEF WorldTypes
  <2>5. WorldTypes'
    BY <1>3, <2>4 DEF WorldTypes
  <2>6. m \notin Range(held)
    BY <1>2, <2>2 DEF Owners
  <2>7. \A p \in Obj : p # o => objects[p] # m
    BY <2>2 DEF Owners
  <2>8. \A i \in Num : i # m => open[i].owner # o
    BY <2>1 DEF Owners
  <2>9. Owners'
    BY <1>1, <1>2, <1>3, <1>4, <2>3, <2>4, <2>6, <2>7, <2>8 DEF Owners, WorldTypes
  <2>10. \A i \in 1 .. Len(held) : open'[held[i]] = open[held[i]]
    BY <2>4, <2>6, InRangeOf DEF WorldTypes
  <2> QED BY <2>5, <2>9, <2>10
<1> QED BY <1>5, <1>6

LEMMA CloseCallStep == ASSUME IInv, CloseCall PROVE IInv'
<1> USE DEF Types
<1>1. running /\ steps # <<>> /\ Head1[1] = "close" /\ "close" \in PlainOps \ {"push"}
  BY DEF CloseCall, At, PlainOps
<1>2. held = <<>> /\ ~tmp /\ ~masked /\ blocked = program
  BY <1>1, HoldsNothing
<1>3. UNCHANGED <<build, running, want, held, scoped, tmp, masked, blocked, program,
                  report, alive>>
  BY DEF CloseCall
<1>4. program' \in BOOLEAN /\ blocked' \in BOOLEAN /\ blocked' = program' /\ "error" \in Ways
  BY <1>2, <1>3 DEF IInv, CallTypes, Ways
<1>5. CASE FailsWith("error") /\ errno' = "call" /\ UNCHANGED <<objects, open, lost>>
  <2>1. WorldTypes' /\ Owners'
    BY <1>3, <1>5, SameWorld DEF IInv, worldVars
  <2> QED BY <1>1, <1>3, <1>4, <1>5, <2>1, NothingHeld
<1>6. ASSUME NEW n \in Unowned, open' = [open EXCEPT ![n] = Closed], lost' = lost \ {n},
             \/ errno' = "call" /\ FailsWith("error")
             \/ Next1 /\ UNCHANGED errno,
             UNCHANGED objects
      PROVE  IInv'
  <2>1. n \in Num /\ open[n].owner = None
    BY DEF Unowned
  <2>2. None # "closed" /\ None \notin Obj /\ "closed" \notin Obj
    BY LuaCallsAssumption DEF None
  <2>3. /\ Closed \in Entry /\ Closed.owner = "closed" /\ Closed.want = {} /\ Closed.has = {}
        /\ Closed' = Closed
    BY DEF Closed, Entry
  <2>4. /\ open' \in [Num -> Entry] /\ open'[n] = Closed
        /\ \A i \in Num : i # n => open'[i] = open[i]
    BY <1>6, <2>1, <2>3 DEF IInv, WorldTypes
  <2>5. WorldTypes'
    BY <1>3, <1>6, <2>4 DEF IInv, WorldTypes
  <2>6. Range(held) = {} /\ Range(held') = {}
    BY <1>2, <1>3, RangeEmpty
  <2>7. \A o \in Obj : objects[o] # n
    BY <2>1, <2>2 DEF IInv, Owners
  <2>8. Owners'
    BY <1>3, <1>6, <2>1, <2>2, <2>3, <2>4, <2>6, <2>7 DEF IInv, Owners, WorldTypes
  <2> QED BY <1>1, <1>3, <1>4, <1>6, <2>5, <2>8, NothingHeld DEF Next1
<1>7. ASSUME NEW o \in alive, Close(o), UNCHANGED lost,
             \/ errno' = "call" /\ FailsWith("error")
             \/ Next1 /\ UNCHANGED errno
      PROVE  IInv'
  <2>1. o \in Obj /\ objects[o] # NoObject
    BY DEF IInv, WorldTypes, Owners
  <2>2. Shut # NoObject
    BY DEF Shut, NoObject
  <2>3. WorldTypes' /\ Owners'
    BY <1>3, <1>7, <2>1, <2>2, LetsGo DEF IInv, Close
  <2> QED BY <1>1, <1>3, <1>4, <1>7, <2>3, NothingHeld DEF Next1
<1> QED BY <1>5, <1>6, <1>7 DEF CloseCall

\* What no phase depends on may change.
LEMMA SamePhase ==
  ASSUME IInv, UNCHANGED <<build, callVars, blocked, program, errno, report>>,
         \A i \in 1 .. Len(held) : open'[held[i]] = open[held[i]]
  PROVE  CallTypes' /\ Phase' /\ ErrorIsTheCalls'
<1> USE DEF callVars
<1>1. CallTypes' /\ ErrorIsTheCalls'
  BY DEF IInv, Types, CallTypes, ErrorIsTheCalls
<1>2. Flagged => Flagged'
  BY DEF Flagged
<1>3. Idle => Idle'
  BY DEF Idle
<1>4. Ahead => Ahead'
  BY DEF Ahead
<1>5. Late => Late'
  BY DEF Late
<1>6. ToOpen => ToOpen'
  BY DEF ToOpen
<1>7. SettingFlags => SettingFlags'
  BY DEF SettingFlags
<1>8. ToRestore => ToRestore'
  BY <1>2 DEF ToRestore
<1>9. Giving => Giving'
  BY <1>2 DEF Giving
<1>10. OnWayOut => OnWayOut'
  <2>1. ASSUME NEW how PROVE WayOut(how)' = WayOut(how)
    BY DEF WayOut, Finish, Drops
  <2> QED BY <2>1 DEF OnWayOut
<1> QED
  BY <1>1, <1>3, <1>4, <1>5, <1>6, <1>7, <1>8, <1>9, <1>10 DEF IInv, Phase

LEMMA AbandonStep == ASSUME IInv, NEW o \in Obj, Abandon(o) PROVE IInv'
<1>1. WorldTypes' /\ Owners'
  BY DEF IInv, Types, WorldTypes, Owners, Abandon, callVars, Closed
<1>2. CallTypes' /\ Phase' /\ ErrorIsTheCalls'
  BY SamePhase DEF Abandon
<1> QED BY <1>1, <1>2 DEF IInv, Types

\* A finaliser closes no descriptor that the call holds, and keeps errno.
LEMMA CollectStep == ASSUME IInv, NEW o \in Obj, Collect(o) PROVE IInv'
<1>1. UNCHANGED <<build, callVars, blocked, program, errno, report>>
  BY DEF Collect, errno_saver
<1>2. /\ WorldTypes' /\ Owners'
      /\ \A i \in 1 .. Len(held) : open'[held[i]] = open[held[i]]
  BY LetsGo DEF IInv, Types, Collect, callVars
<1>3. CallTypes' /\ Phase' /\ ErrorIsTheCalls'
  BY <1>1, <1>2, SamePhase
<1> QED BY <1>2, <1>3 DEF IInv, Types

LEMMA StutterStep == ASSUME IInv, UNCHANGED vars PROVE IInv'
<1> USE DEF vars, IInv, Types
<1>1. WorldTypes' /\ Owners'
  BY SameWorld DEF callVars
<1>2. CallTypes' /\ Phase' /\ ErrorIsTheCalls'
  BY SamePhase DEF worldVars
<1> QED BY <1>1, <1>2

LEMMA StepInvariant == ASSUME IInv, [Next]_vars PROVE IInv'
<1>1. CASE Begin
  BY <1>1, BeginStep
<1>2. CASE Return
  BY <1>2, ReturnStep
<1>3. CASE push_error
  BY <1>3, PushErrorStep
<1>4. CASE Check
  BY <1>4, CheckStep
<1>5. CASE Buffer
  BY <1>5, BufferStep
<1>6. CASE SystemCall
  BY <1>6, SystemCallStep
<1>7. CASE Clear
  BY <1>7, ClearStep
<1>8. CASE Probe
  BY <1>8, ProbeStep
<1>9. CASE Block
  BY <1>9, BlockStep
<1>10. CASE Open
  BY <1>10, OpenStep
<1>11. CASE SetFlag
  BY <1>11, SetFlagStep
<1>12. CASE Release
  BY <1>12, ReleaseStep
<1>13. CASE Destruct
  BY <1>13, DestructStep
<1>14. CASE new_fd
  BY <1>14, NewFdStep
<1>15. CASE Push
  BY <1>15, PushStep
<1>16. CASE Adopt
  BY <1>16, AdoptStep
<1>17. CASE CloseCall
  BY <1>17, CloseCallStep
<1>18. ASSUME NEW o \in Obj, Abandon(o) PROVE IInv'
  BY <1>18, AbandonStep
<1>19. ASSUME NEW o \in Obj, Collect(o) PROVE IInv'
  BY <1>19, CollectStep
<1>20. CASE SilentCall
  BY <1>20, SilentCallStep
<1>21. CASE UNCHANGED vars
  BY <1>21, StutterStep
<1> QED
  BY <1>1, <1>2, <1>3, <1>4, <1>5, <1>6, <1>7, <1>8, <1>9, <1>10, <1>11, <1>12, <1>13,
     <1>14, <1>15, <1>16, <1>17, <1>18, <1>19, <1>20, <1>21 DEF Next

\* The invariant holds in every state, whatever functions the program calls.
THEOREM CallInvariant == Spec => []IInv
<1>1. Init => IInv
  BY InitInvariant
<1>2. IInv /\ [Next]_vars => IInv'
  BY StepInvariant
<1> QED BY <1>1, <1>2, PTL DEF Spec

----
(* The theorems.                                                            *)

\* A function whose failed step sets errno reports what that step set: no
\* destructor, finaliser or earlier call comes in between.  Failures that
\* need not set errno (those of SilentCall) are reported too, with whatever
\* errno holds, and the theorem says nothing of them.
THEOREM ErrorIsItsOwn == Spec => []ErrorIsTheCalls
<1>1. IInv => ErrorIsTheCalls
  BY DEF IInv
<1> QED BY <1>1, CallInvariant, PTL

\* Whichever step of a function fails, its descriptors are closed or have an
\* owner but for those a Lua error of an allocation left, and the signal
\* mask is back when it is over.
THEOREM NothingIsLost == Spec => []NothingLost
<1>1. IInv => NothingLost
  BY InvariantSuffices
<1> QED BY <1>1, CallInvariant, PTL

\* The fallbacks give a descriptor its flags before a signal is delivered.
THEOREM FlagsComeFirst == Spec => []FlagsBeforeSignals
<1>1. IInv => FlagsBeforeSignals
  BY InvariantSuffices
<1> QED BY <1>1, CallInvariant, PTL

\* An object closes the descriptor it was made for and no other.
THEOREM ObjectsCloseTheirOwn == Spec => []ClosesOwn
<1>1. IInv => ClosesOwn
  BY InvariantSuffices
<1> QED BY <1>1, CallInvariant, PTL
=============================================================================
