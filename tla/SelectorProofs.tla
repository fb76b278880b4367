----------------------------- MODULE SelectorProofs ----------------------------
(***************************************************************************)
(* Both selectors do what Selector promises, for any descriptors, events,  *)
(* wishes and sizes of the buffer: whatever sequence of calls a program    *)
(* makes and whatever happens to the descriptors in between.               *)
(***************************************************************************)
EXTENDS SelectorBoth, SequenceLemmas, FiniteSetTheorems

----
(* The inductive invariant.                                                 *)

Answers == [fd : Fd, events : SUBSET Event]
Entries == Answers \cup {Stale}

Typed ==
  /\ open \subseteq Fd /\ gone \subseteq open
  /\ ready \in [Fd -> SUBSET Event]
  /\ fd_ \in BOOLEAN
  /\ filter \in [Fd -> [Event -> {"absent", "off", "on"}]]
  /\ backend \in {"epoll", "kqueue"}

\* The buffer never shrinks, and the count is of entries it has.
Room ==
  /\ buffer_ \in Seq(Entries) /\ Len(buffer_) >= InitialSize
  /\ result_ \in Int /\ result_ <= Len(buffer_)

\* A registration needs an open selector and an open descriptor.  It can be
\* without WRITE only in kqueue, of a descriptor whose other end is gone.
Registrations ==
  \A fd \in Fd : Registered(fd) =>
    /\ fd_ /\ fd \in open
    /\ filter[fd]["READ"] # "absent"
    /\ filter[fd]["WRITE"] = "absent" => backend = "kqueue" /\ fd \in gone

SelInv == Typed /\ Room /\ Registrations

----
(* The buffer.                                                              *)

\* The lesser of two numbers.
LEMMA MinOfTwo ==
  ASSUME NEW a \in Nat, NEW b \in Nat
  PROVE  Min({a, b}) = IF a <= b THEN a ELSE b
<1> DEFINE m == IF a <= b THEN a ELSE b
<1>1. m \in {a, b} /\ \A y \in {a, b} : m =< y
  OBVIOUS
<1>2. \A x \in {a, b} : (\A y \in {a, b} : x =< y) => x = m
  OBVIOUS
<1> HIDE DEF m
<1>3. Min({a, b}) = m
  BY <1>1, <1>2 DEF Min
<1> QED BY <1>3 DEF m

\* A finite set written out as a sequence: each element, once.
LEMMA SeqOfSet ==
  ASSUME NEW S, IsFiniteSet(S)
  PROVE  /\ SetToSeq(S) \in [1..Cardinality(S) -> S]
         /\ \A x \in S : \E i \in 1..Cardinality(S) : SetToSeq(S)[i] = x
<1> DEFINE D == 1..Cardinality(S)
           q == SetToSeq(S)
<1>1. Cardinality(S) \in Nat /\ ExistsBijection(D, S)
  BY FS_CardinalityType
<1>2. \E f \in [D -> S] : IsInjective(f)
  BY <1>1 DEF ExistsBijection, Bijection, Injection
<1>3. q \in [D -> S] /\ IsInjective(q)
  BY <1>2 DEF SetToSeq
<1> HIDE DEF q
<1>4. q \in Injection(D, S)
  BY <1>3 DEF Injection
<1>5. Cardinality(D) = Cardinality(S)
  BY <1>1, FS_Interval
<1>6. q \in Surjection(D, S)
  BY <1>4, <1>5, FS_Injection
<1> QED BY <1>3, <1>6 DEF q, Surjection

\* There are finitely many answers.
LEMMA AnswersFinite == IsFiniteSet(Answers)
<1> DEFINE P == Fd \X SUBSET Event
           f == [p \in P |-> [fd |-> p[1], events |-> p[2]]]
<1>1. IsFiniteSet(Event) /\ IsFiniteSet(Fd)
  <2>1. IsFiniteSet({"READ"} \cup {"WRITE"})
    BY FS_Singleton, FS_AddElement
  <2>2. Event = {"READ"} \cup {"WRITE"}
    BY DEF Event
  <2> QED BY <2>1, <2>2, SelectorAssumption
<1>2. IsFiniteSet(P)
  BY <1>1, FS_SUBSET, FS_Product
<1>3. f \in Surjection(P, Answers)
  <2>1. f \in [P -> Answers]
    BY DEF Answers
  <2>2. \A a \in Answers : <<a.fd, a.events>> \in P /\ f[<<a.fd, a.events>>] = a
    BY DEF Answers
  <2> QED BY <2>1, <2>2 DEF Surjection
<1> QED BY <1>2, <1>3, FS_Surjection

\* The buffer never shrinks.
LEMMA GrownSize ==
  ASSUME Room
  PROVE  Grown \in Nat /\ Grown >= Len(buffer_) /\ Grown >= InitialSize
BY SelectorAssumption DEF Room, Grown

\* What a program can read after a select: nothing if it failed; otherwise
\* some of the due answers, and all of them unless they fill the buffer.
LEMMA Fetched ==
  ASSUME Room, NEW due \in SUBSET Answers, Fetch(due)
  PROVE  /\ Room'
         /\ \/ Returns("select", FALSE) /\ event' = <<>>
            \/ /\ fd_ /\ Returns("select", TRUE)
               /\ event' \in Seq(due)
               /\ \/ Len(event') >= InitialSize
                  \/ \A a \in due : \E i \in DOMAIN event' : event'[i] = a
<1>g. Grown \in Nat /\ Grown >= InitialSize /\ InitialSize \in Nat
  BY GrownSize, SelectorAssumption
<1>s. Stale \in Entries /\ Answers \subseteq Entries
  BY DEF Entries
<1>1. CASE /\ buffer_' = [i \in 1..Grown |-> Stale]
           /\ result_' = -1
           /\ Returns("select", FALSE)
  <2>1. buffer_' \in Seq(Entries) /\ Len(buffer_') = Grown
    BY <1>1, <1>g, <1>s
  <2>2. Room'
    BY <1>1, <1>g, <2>1 DEF Room
  <2>3. event' = <<>>
    BY <1>1 DEF event
  <2> QED BY <1>1, <2>2, <2>3
<1>2. ASSUME NEW got \in kSubset(Min({Grown, Cardinality(due)}), due),
             fd_, Returns("select", TRUE),
             buffer_' = SetToSeq(got) \o [i \in 1..(Grown - Cardinality(got)) |-> Stale],
             result_' = Cardinality(got)
      PROVE  /\ Room'
             /\ event' \in Seq(due)
             /\ \/ Len(event') >= InitialSize
                \/ \A a \in due : \E i \in DOMAIN event' : event'[i] = a
  <2> DEFINE n == Cardinality(got)
             q == SetToSeq(got)
             r == [i \in 1..(Grown - n) |-> Stale]
  <2>1. IsFiniteSet(due) /\ Cardinality(due) \in Nat
    BY AnswersFinite, FS_Subset, FS_CardinalityType
  <2>2. got \subseteq due /\ n = Min({Grown, Cardinality(due)})
    BY DEF kSubset
  <2>3. n = (IF Grown <= Cardinality(due) THEN Grown ELSE Cardinality(due)) /\ n \in Nat
    BY <1>g, <2>1, <2>2, MinOfTwo
  <2>4. IsFiniteSet(got)
    BY <2>1, <2>2, FS_Subset
  <2>5. q \in [1..n -> got] /\ \A x \in got : \E i \in 1..n : q[i] = x
    BY <2>4, SeqOfSet
  <2>6. buffer_' = q \o r /\ result_' = n
    BY <1>2
  <2> HIDE DEF n, q
  <2>a. q \in [1..n -> due]
    BY <2>2, <2>5
  <2>b. q \in Seq(due) /\ Len(q) = n
    BY <2>3, <2>a
  <2>7. q \in Seq(Entries) /\ Len(q) = n
    BY <1>s, <2>b, SeqMonotonic
  <2>8. r \in Seq(Entries) /\ Len(r) = Grown - n
    BY <1>g, <1>s, <2>1, <2>3
  <2> HIDE DEF r
  <2>c. /\ q \o r \in Seq(Entries) /\ Len(q \o r) = n + (Grown - n)
        /\ \A i \in 1..(n + (Grown - n)) : i <= n => (q \o r)[i] = q[i]
    BY <2>7, <2>8, ConcatProperties
  <2>9. /\ buffer_' \in Seq(Entries) /\ Len(buffer_') = Grown
        /\ \A i \in 1..n : i <= Grown /\ buffer_'[i] = q[i]
    BY <1>g, <2>1, <2>3, <2>6, <2>c
  <2>10. Room'
    BY <1>g, <2>1, <2>3, <2>6, <2>9 DEF Room
  <2>11. event' = [i \in 1..n |-> q[i]]
    BY <2>6, <2>9 DEF event
  <2>12. event' = q
    BY <2>5, <2>11
  <2>13. event' \in Seq(due) /\ Len(event') = n /\ DOMAIN event' = 1..n
    BY <2>b, <2>12, LenProperties
  <2>14. CASE Grown <= Cardinality(due)
    BY <1>g, <2>3, <2>10, <2>13, <2>14
  <2>15. CASE ~(Grown <= Cardinality(due))
    <3>1. got = due
      BY <2>1, <2>2, <2>3, <2>15, FS_Subset DEF n
    <3> QED BY <2>5, <2>10, <2>12, <2>13, <3>1
  <2> QED BY <2>14, <2>15
<1> QED BY <1>1, <1>2 DEF Fetch

----
(* What the program sees of a change of one descriptor's filters.           *)

Row == [Event -> {"absent", "off", "on"}]
EventsOf(row) == {e \in Event : row[e] = "on"}

\* The entry without filters, and the one a mask makes.
LEMMA Rows ==
  /\ NoFilter \in Row
  /\ \A row \in Row : row = NoFilter <=> row["READ"] = "absent" /\ row["WRITE"] = "absent"
  /\ \A events \in SUBSET Event :
       /\ Mask(events) \in Row
       /\ Mask(events)["READ"] # "absent" /\ Mask(events)["WRITE"] # "absent"
       /\ EventsOf(Mask(events)) = events
BY DEF Row, NoFilter, Mask, Event, EventsOf

\* The sets Selector speaks of, after the filters of fd became row.
LEMMA RowSeen ==
  ASSUME Typed, NEW fd \in Fd, NEW row \in Row, filter' = [filter EXCEPT ![fd] = row]
  PROVE  /\ Watched' = IF row = NoFilter THEN Watched \ {fd} ELSE Watched \cup {fd}
         /\ Half' = IF row # NoFilter /\ row["WRITE"] = "absent" THEN Half \cup {fd} ELSE Half \ {fd}
         /\ Interest' = [Interest EXCEPT ![fd] = EventsOf(row)]
         /\ filter' \in [Fd -> Row]
<1>1. filter \in [Fd -> Row]
  BY DEF Typed, Row
<1>2. filter' \in [Fd -> Row]
  BY <1>1
<1>3. \A d \in Fd : filter'[d] = IF d = fd THEN row ELSE filter[d]
  BY <1>1
<1>4. Watched' = IF row = NoFilter THEN Watched \ {fd} ELSE Watched \cup {fd}
  BY <1>3 DEF Watched, Registered
<1>5. Half' = IF row # NoFilter /\ row["WRITE"] = "absent" THEN Half \cup {fd} ELSE Half \ {fd}
  BY <1>3 DEF Half, Watched, Registered
<1>6. Interest' = [Interest EXCEPT ![fd] = EventsOf(row)]
  BY <1>3 DEF Interest, On, EventsOf
<1> QED BY <1>2, <1>4, <1>5, <1>6

\* A change of the filters of an open descriptor keeps the invariant, if it
\* leaves no WRITE filter alone, and a READ filter alone only in kqueue.
LEMMA RowInvariant ==
  ASSUME SelInv, NEW fd \in Fd, NEW row \in Row, filter' = [filter EXCEPT ![fd] = row],
         UNCHANGED <<kernelVars, fd_, fetchVars, backend>>,
         row # NoFilter => /\ fd_ /\ fd \in open /\ row["READ"] # "absent"
                           /\ row["WRITE"] = "absent" => backend = "kqueue" /\ fd \in gone
  PROVE  SelInv'
<1>1. Typed'
  BY RowSeen DEF SelInv, Typed, kernelVars, Row
<1>2. Room'
  BY DEF SelInv, Room, fetchVars
<1>3. \A d \in Fd : filter'[d] = IF d = fd THEN row ELSE filter[d]
  BY DEF SelInv, Typed
<1>4. Registrations'
  BY <1>3 DEF SelInv, Registrations, Registered, kernelVars
<1> QED BY <1>1, <1>2, <1>4 DEF SelInv

\* The answers stay as they are as long as there is no select.
LEMMA SameAnswers ==
  ASSUME UNCHANGED fetchVars
  PROVE  UNCHANGED event
BY DEF fetchVars, event

\* A call on one descriptor that Selector allows is one of its steps.
LEMMA CallIsStep ==
  ASSUME NEW fd \in Fd, NEW events \in Wanted[fd],
         UNCHANGED <<kernelVars, fd_, fetchVars>>,
         Promise!Del(fd) \/ Promise!Add(fd, events) \/ Promise!Mod(fd, events)
  PROVE  Promise!Next
BY SameAnswers DEF Promise!Next, Promise!kernelVars, kernelVars

\* del needs no events.
LEMMA DelIsStep ==
  ASSUME NEW fd \in Fd, UNCHANGED <<kernelVars, fd_, fetchVars>>, Promise!Del(fd)
  PROVE  Promise!Next
BY SameAnswers DEF Promise!Next, Promise!kernelVars, kernelVars

----
(* The steps of epoll.                                                      *)

\* epoll_ctl changes the entry of one open descriptor, or nothing.
LEMMA ControlStep ==
  ASSUME SelInv, NEW name, NEW fd \in Fd, NEW row \in Row, UNCHANGED backend,
         Control(name, fd, row),
         row # NoFilter => row["READ"] # "absent" /\ row["WRITE"] # "absent"
  PROVE  /\ SelInv' /\ UNCHANGED <<kernelVars, fd_, fetchVars>>
         /\ \/ /\ fd_ /\ fd \in open /\ (fd \in Watched <=> name # "add")
               /\ Returns(name, TRUE)
               /\ filter' = [filter EXCEPT ![fd] = row]
            \/ /\ ~(fd_ /\ fd \in open /\ (fd \in Watched <=> name # "add"))
               /\ Returns(name, FALSE)
               /\ UNCHANGED <<Watched, Half, Interest>>
<1>0. UNCHANGED <<kernelVars, fd_, fetchVars>>
  BY DEF Control
<1>1. CASE fd_ /\ fd \in open /\ (Registered(fd) <=> name # "add")
  <2>1. Returns(name, TRUE) /\ filter' = [filter EXCEPT ![fd] = row]
    BY <1>1 DEF Control, Returns
  <2>2. SelInv'
    BY <1>0, <1>1, <2>1, RowInvariant
  <2> QED BY <1>0, <1>1, <2>1, <2>2 DEF Watched
<1>2. CASE ~(fd_ /\ fd \in open /\ (Registered(fd) <=> name # "add"))
  <2>1. Returns(name, FALSE) /\ filter' = filter
    BY <1>2 DEF Control, Returns
  <2>2. UNCHANGED <<Watched, Half, Interest>>
    BY <2>1 DEF Watched, Half, Interest, Registered, On
  <2>3. SelInv'
    BY <1>0, <2>1 DEF SelInv, Typed, Room, Registrations, Registered, kernelVars, fetchVars
  <2> QED BY <1>0, <1>2, <2>1, <2>2, <2>3 DEF Watched
<1> QED BY <1>1, <1>2

\* Nothing is half watched in epoll.
LEMMA NoHalf == SelInv /\ backend = "epoll" => Half = {}
BY DEF SelInv, Registrations, Half, Watched

\* add of epoll.
LEMMA AddStep ==
  ASSUME SelInv, backend = "epoll", UNCHANGED backend,
         NEW fd \in Fd, NEW events \in Wanted[fd], add(fd, events)
  PROVE  SelInv' /\ Promise!Next
<1>0. events \in SUBSET Event
  BY SelectorAssumption DEF Event
<1>1. PICK row \in Row : /\ row = Mask(events) /\ row # NoFilter
                         /\ row["READ"] # "absent" /\ row["WRITE"] # "absent"
                         /\ EventsOf(row) = events
  BY <1>0, Rows
<1>2. Control("add", fd, row)
  BY <1>1 DEF add
<1>3. /\ SelInv' /\ UNCHANGED <<kernelVars, fd_, fetchVars>>
      /\ \/ /\ fd_ /\ fd \in open /\ fd \notin Watched
            /\ Returns("add", TRUE)
            /\ filter' = [filter EXCEPT ![fd] = row]
         \/ /\ ~(fd_ /\ fd \in open /\ fd \notin Watched)
            /\ Returns("add", FALSE)
            /\ UNCHANGED <<Watched, Half, Interest>>
  BY <1>1, <1>2, ControlStep
<1>4. Promise!Add(fd, events)
  <2>1. CASE UNCHANGED <<Watched, Half, Interest>> /\ Returns("add", FALSE)
             /\ ~(fd_ /\ fd \in open /\ fd \notin Watched)
    BY <2>1 DEF Promise!Add, Promise!Refused, Promise!Returns, Promise!watchVars, Returns
  <2>2. CASE fd_ /\ fd \in open /\ Returns("add", TRUE) /\ filter' = [filter EXCEPT ![fd] = row]
    <3>1. /\ Watched' = Watched \cup {fd} /\ Half' = Half \ {fd}
          /\ Interest' = [Interest EXCEPT ![fd] = events]
      BY <1>1, <2>2, RowSeen DEF SelInv
    <3>2. Half' = Half
      BY <3>1, NoHalf
    <3> QED BY <2>2, <3>1, <3>2 DEF Promise!Add, Promise!Watch, Promise!Returns, Returns
  <2> QED BY <1>3, <2>1, <2>2
<1> QED BY <1>3, <1>4, CallIsStep

\* mod of epoll.
LEMMA ModStep ==
  ASSUME SelInv, backend = "epoll", UNCHANGED backend,
         NEW fd \in Fd, NEW events \in Wanted[fd], mod(fd, events)
  PROVE  SelInv' /\ Promise!Next
<1>0. events \in SUBSET Event
  BY SelectorAssumption DEF Event
<1>1. PICK row \in Row : /\ row = Mask(events) /\ row # NoFilter
                         /\ row["READ"] # "absent" /\ row["WRITE"] # "absent"
                         /\ EventsOf(row) = events
  BY <1>0, Rows
<1>2. Control("mod", fd, row)
  BY <1>1 DEF mod
<1>3. /\ SelInv' /\ UNCHANGED <<kernelVars, fd_, fetchVars>>
      /\ \/ /\ fd_ /\ fd \in open /\ fd \in Watched
            /\ Returns("mod", TRUE)
            /\ filter' = [filter EXCEPT ![fd] = row]
         \/ /\ ~(fd_ /\ fd \in open /\ fd \in Watched)
            /\ Returns("mod", FALSE)
            /\ UNCHANGED <<Watched, Half, Interest>>
  <2>1. "mod" # "add"
    OBVIOUS
  <2> QED BY <1>1, <1>2, <2>1, ControlStep
<1>4. Promise!Mod(fd, events)
  <2>1. CASE UNCHANGED <<Watched, Half, Interest>> /\ Returns("mod", FALSE)
             /\ ~(fd_ /\ fd \in open /\ fd \in Watched)
    BY <2>1 DEF Promise!Mod, Promise!Refused, Promise!Returns, Promise!watchVars, Returns
  <2>2. CASE fd_ /\ fd \in Watched /\ Returns("mod", TRUE) /\ filter' = [filter EXCEPT ![fd] = row]
    <3>1. /\ Watched' = Watched \cup {fd} /\ Half' = Half \ {fd}
          /\ Interest' = [Interest EXCEPT ![fd] = events]
      BY <1>1, <2>2, RowSeen DEF SelInv
    <3>2. Half' = Half /\ fd \in Watched \ Half
      BY <2>2, <3>1, NoHalf
    <3> QED BY <2>2, <3>1, <3>2 DEF Promise!Mod, Promise!Watch, Promise!Returns, Returns
  <2> QED BY <1>3, <2>1, <2>2
<1> QED BY <1>3, <1>4, CallIsStep

\* What a descriptor that is no longer registered looks like.
LEMMA RemovedSeen ==
  ASSUME Typed, NEW fd \in Fd, filter' = [filter EXCEPT ![fd] = NoFilter]
  PROVE  Promise!Unwatch({fd})
<1>1. /\ Watched' = Watched \ {fd} /\ Half' = Half \ {fd}
      /\ Interest' = [Interest EXCEPT ![fd] = EventsOf(NoFilter)]
  BY Rows, RowSeen
<1>2. EventsOf(NoFilter) = {}
  BY DEF NoFilter, EventsOf
<1>3. Interest' = [d \in Fd |-> IF d \in {fd} THEN {} ELSE Interest[d]]
  BY <1>1, <1>2 DEF Interest
<1> QED BY <1>1, <1>3 DEF Promise!Unwatch

\* del of epoll.
LEMMA DelStep ==
  ASSUME SelInv, UNCHANGED backend, NEW fd \in Fd, del(fd)
  PROVE  SelInv' /\ Promise!Next
<1>1. Control("del", fd, NoFilter) /\ NoFilter \in Row
  BY Rows DEF del
<1>3. /\ SelInv' /\ UNCHANGED <<kernelVars, fd_, fetchVars>>
      /\ \/ /\ fd_ /\ fd \in open
            /\ Returns("del", TRUE)
            /\ filter' = [filter EXCEPT ![fd] = NoFilter]
         \/ /\ ~(fd_ /\ fd \in open /\ fd \in Watched)
            /\ Returns("del", FALSE)
            /\ UNCHANGED <<Watched, Half, Interest>>
  <2>1. /\ "del" # "add"
        /\ NoFilter # NoFilter => NoFilter["READ"] # "absent" /\ NoFilter["WRITE"] # "absent"
    OBVIOUS
  <2> QED BY <1>1, <2>1, ControlStep
<1>4. Promise!Del(fd)
  <2>1. CASE UNCHANGED <<Watched, Half, Interest>> /\ Returns("del", FALSE)
             /\ ~(fd_ /\ fd \in open /\ fd \in Watched)
    BY <2>1 DEF Promise!Del, Promise!Refused, Promise!Returns, Promise!watchVars, Returns
  <2>2. CASE fd_ /\ fd \in open /\ Returns("del", TRUE) /\ filter' = [filter EXCEPT ![fd] = NoFilter]
    BY <2>2, RemovedSeen DEF Promise!Del, Promise!Returns, Returns, SelInv
  <2> QED BY <1>3, <2>1, <2>2
<1> QED BY <1>3, <1>4, DelIsStep

----
(* The steps of kqueue.                                                     *)

\* A change list whose first change fails.
LEMMA KeventFirst ==
  ASSUME NEW name, NEW fd \in Fd, NEW ops, NEW forgiven, Kevent(name, fd, ops, forgiven),
         Change(fd, filter[fd], "READ", ops["READ"]).errno # "OK"
  PROVE  /\ filter' = [filter EXCEPT ![fd] = Change(fd, filter[fd], "READ", ops["READ"]).flist]
         /\ Change(fd, filter[fd], "READ", ops["READ"]).errno \in forgiven => Returns(name, TRUE)
         /\ Change(fd, filter[fd], "READ", ops["READ"]).errno \notin forgiven => Returns(name, FALSE)
<1> DEFINE first == Change(fd, filter[fd], "READ", ops["READ"])
<1>1. first.errno # "OK" /\ filter' = [filter EXCEPT ![fd] = first.flist]
  BY DEF Kevent
<1>2. returned' = [call |-> name, ok |-> first.errno \in {"OK"} \cup forgiven]
  BY DEF Kevent, Returns
<1> HIDE DEF first
<1>3. ASSUME first.errno \in forgiven PROVE Returns(name, TRUE)
  <2>1. (first.errno \in {"OK"} \cup forgiven) = TRUE
    BY <1>3
  <2> QED BY <1>2, <2>1 DEF Returns
<1>4. ASSUME first.errno \notin forgiven PROVE Returns(name, FALSE)
  <2>1. (first.errno \in {"OK"} \cup forgiven) = FALSE
    BY <1>1, <1>4
  <2> QED BY <1>2, <2>1 DEF Returns
<1> QED BY <1>1, <1>3, <1>4 DEF first

\* The entry of fd becomes row.
Becomes(fd, row) == filter' = [filter EXCEPT ![fd] = row]

\* A change list whose first change is made.
LEMMA KeventSecond ==
  ASSUME NEW name, NEW fd \in Fd, NEW ops, NEW forgiven, Kevent(name, fd, ops, forgiven),
         Change(fd, filter[fd], "READ", ops["READ"]).errno = "OK",
         NEW middle, Change(fd, filter[fd], "READ", ops["READ"]).flist = middle,
         NEW row, Change(fd, middle, "WRITE", ops["WRITE"]).flist = row,
         NEW errno, Change(fd, middle, "WRITE", ops["WRITE"]).errno = errno
  PROVE  /\ Becomes(fd, row)
         /\ errno \in {"OK"} \cup forgiven => Returns(name, TRUE)
         /\ errno \notin {"OK"} \cup forgiven => Returns(name, FALSE)
<1>1. Becomes(fd, row)
  BY DEF Kevent, Becomes
<1>2. returned' = [call |-> name, ok |-> errno \in {"OK"} \cup forgiven]
  BY DEF Kevent, Returns
<1>3. ASSUME errno \in {"OK"} \cup forgiven PROVE Returns(name, TRUE)
  <2>1. (errno \in {"OK"} \cup forgiven) = TRUE
    BY <1>3
  <2> QED BY <1>2, <2>1 DEF Returns
<1>4. ASSUME errno \notin {"OK"} \cup forgiven PROVE Returns(name, FALSE)
  <2>1. (errno \in {"OK"} \cup forgiven) = FALSE
    BY <1>4
  <2> QED BY <1>2, <2>1 DEF Returns
<1> QED BY <1>1, <1>3, <1>4

\* A descriptor that is not open, or a selector that is not: nothing changes.
LEMMA KeventRefused ==
  ASSUME SelInv, NEW name, NEW fd \in Fd, NEW ops, NEW forgiven, Kevent(name, fd, ops, forgiven),
         UNCHANGED backend, ~fd_ \/ fd \notin open, forgiven \subseteq {"EPIPE", "ENOENT"}
  PROVE  /\ SelInv' /\ UNCHANGED <<kernelVars, fd_, fetchVars>>
         /\ Promise!Refused(name, fd)
<1>1. /\ Change(fd, filter[fd], "READ", ops["READ"]).flist = filter[fd]
      /\ Change(fd, filter[fd], "READ", ops["READ"]).errno = "EBADF"
  BY DEF Change
<1>2. UNCHANGED <<kernelVars, fd_, fetchVars>>
  BY DEF Kevent
<1>3. filter' = filter /\ Returns(name, FALSE)
  <2>1. "EBADF" # "OK" /\ "EBADF" \notin forgiven
    OBVIOUS
  <2>2. /\ filter' = [filter EXCEPT ![fd] = Change(fd, filter[fd], "READ", ops["READ"]).flist]
        /\ Returns(name, FALSE)
    BY <1>1, <2>1, KeventFirst, ZenonT(60)
  <2> QED BY <1>1, <2>2 DEF SelInv, Typed
<1>4. UNCHANGED <<Watched, Half, Interest>>
  BY <1>3 DEF Watched, Half, Interest, Registered, On
<1>5. SelInv'
  BY <1>2, <1>3 DEF SelInv, Typed, Room, Registrations, Registered, kernelVars, fetchVars
<1> QED BY <1>2, <1>3, <1>4, <1>5
        DEF Promise!Refused, Promise!Returns, Promise!watchVars, Returns

\* add of kqueue: both filters, or READ alone when the other end is gone.
LEMMA KqAddStep ==
  ASSUME SelInv, backend = "kqueue", UNCHANGED backend,
         NEW fd \in Fd, NEW events \in Wanted[fd], KqAdd(fd, events)
  PROVE  SelInv' /\ Promise!Next
<1>0. events \in SUBSET Event
  BY SelectorAssumption DEF Event
<1> DEFINE forgiven == {"EPIPE"}
<1> DEFINE ops == [e \in Event |-> IF e \in events THEN "add on" ELSE "add off"]
           r == IF "READ" \in events THEN "on" ELSE "off"
           w == IF "WRITE" \in events THEN "on" ELSE "off"
<1>1. Kevent("add", fd, ops, forgiven)
  BY DEF KqAdd
<1>f. /\ forgiven \subseteq {"EPIPE", "ENOENT"} /\ "OK" \in {"OK"} \cup forgiven
      /\ "EPIPE" \in {"OK"} \cup forgiven
  OBVIOUS
<1> HIDE DEF forgiven
<1>2. CASE ~fd_ \/ fd \notin open
  <2>1. /\ SelInv' /\ UNCHANGED <<kernelVars, fd_, fetchVars>>
        /\ Promise!Refused("add", fd)
    BY <1>1, <1>2, <1>f, KeventRefused
  <2> QED BY <2>1, CallIsStep DEF Promise!Add
<1>3. CASE fd_ /\ fd \in open
  <2>1. filter[fd] \in Row
    BY DEF SelInv, Typed, Row
  <2>a. PICK one, two : /\ one = [filter[fd] EXCEPT !["READ"] = r]
                        /\ two = [one EXCEPT !["WRITE"] = w]
    OBVIOUS
  <2>2. /\ Change(fd, filter[fd], "READ", ops["READ"]).flist = one
        /\ Change(fd, filter[fd], "READ", ops["READ"]).errno = "OK"
    BY <1>3, <2>1, <2>a DEF Change, Row, Event
  <2>3. /\ one \in Row /\ one["READ"] = r /\ one["WRITE"] = filter[fd]["WRITE"]
        /\ two \in Row /\ two["READ"] = r /\ two["WRITE"] = w
    BY <2>1, <2>a DEF Row, Event
  <2>4. IF filter[fd]["WRITE"] = "absent" /\ fd \in gone
        THEN /\ Change(fd, one, "WRITE", ops["WRITE"]).flist = one
             /\ Change(fd, one, "WRITE", ops["WRITE"]).errno = "EPIPE"
        ELSE /\ Change(fd, one, "WRITE", ops["WRITE"]).flist = two
             /\ Change(fd, one, "WRITE", ops["WRITE"]).errno = "OK"
    BY <1>3, <2>3, <2>a DEF Change, Event
  <2> HIDE DEF ops
  <2>5. UNCHANGED <<kernelVars, fd_, fetchVars>>
    BY <1>1 DEF Kevent
  <2>6. Half = {d \in Watched : filter[d]["WRITE"] = "absent"}
    BY DEF Half
  <2>7. r # "absent" /\ w # "absent"
    OBVIOUS
  <2>8. CASE filter[fd]["WRITE"] = "absent" /\ fd \in gone
    <3>1. one # NoFilter /\ one["READ"] # "absent" /\ one["WRITE"] = "absent"
      BY <2>3, <2>7, <2>8, Rows
    <3>a. Change(fd, one, "WRITE", ops["WRITE"]).flist = one /\ Change(fd, one, "WRITE", ops["WRITE"]).errno = "EPIPE"
      BY <2>4, <2>8
    <3>b. Change(fd, filter[fd], "READ", ops["READ"]).flist = one
          /\ Change(fd, filter[fd], "READ", ops["READ"]).errno = "OK"
      BY <2>2
    <3>c. PICK errno : Change(fd, one, "WRITE", ops["WRITE"]).errno = errno
                       /\ errno \in {"OK"} \cup forgiven
      BY <1>f, <3>a
    <3>2. filter' = [filter EXCEPT ![fd] = one] /\ Returns("add", TRUE)
      <4>1. Becomes(fd, one) /\ Returns("add", TRUE)
        BY <1>1, <3>a, <3>b, <3>c, KeventSecond
      <4> QED BY <4>1 DEF Becomes
    <3>3. EventsOf(one) = events \ {"WRITE"}
      BY <1>0, <2>3, <2>8 DEF EventsOf, Event
    <3>4. SelInv'
      BY <1>3, <2>3, <2>5, <2>8, <3>1, <3>2, RowInvariant
    <3>5. /\ Watched' = Watched \cup {fd} /\ Half' = Half \cup {fd}
          /\ Interest' = [Interest EXCEPT ![fd] = events \ {"WRITE"}]
      <4>1. /\ Watched' = Watched \cup {fd} /\ Half' = Half \cup {fd}
            /\ Interest' = [Interest EXCEPT ![fd] = EventsOf(one)]
        BY <2>3, <3>1, <3>2, RowSeen DEF SelInv
      <4> QED BY <3>3, <4>1, Zenon
    <3>6. Promise!WatchHalf(fd, events)
      BY <2>8, <3>5 DEF Promise!WatchHalf
    <3>7. Promise!Add(fd, events)
      BY <1>3, <3>2, <3>6 DEF Promise!Add, Promise!Returns, Returns
    <3> QED BY <2>5, <3>4, <3>7, CallIsStep
  <2>9. CASE ~(filter[fd]["WRITE"] = "absent" /\ fd \in gone)
    <3>1. two # NoFilter /\ two["READ"] # "absent" /\ two["WRITE"] # "absent"
      BY <2>3, <2>7, Rows
    <3>a. Change(fd, one, "WRITE", ops["WRITE"]).flist = two /\ Change(fd, one, "WRITE", ops["WRITE"]).errno = "OK"
      BY <2>4, <2>9
    <3>b. Change(fd, filter[fd], "READ", ops["READ"]).flist = one
          /\ Change(fd, filter[fd], "READ", ops["READ"]).errno = "OK"
      BY <2>2
    <3>c. PICK errno : Change(fd, one, "WRITE", ops["WRITE"]).errno = errno
                       /\ errno \in {"OK"} \cup forgiven
      BY <1>f, <3>a
    <3>2. filter' = [filter EXCEPT ![fd] = two] /\ Returns("add", TRUE)
      <4>1. Becomes(fd, two) /\ Returns("add", TRUE)
        BY <1>1, <3>a, <3>b, <3>c, KeventSecond
      <4> QED BY <4>1 DEF Becomes
    <3>3. EventsOf(two) = events
      BY <1>0, <2>3 DEF EventsOf, Event
    <3>4. SelInv'
      BY <1>3, <2>3, <2>5, <3>1, <3>2, RowInvariant
    <3>5. /\ Watched' = Watched \cup {fd} /\ Half' = Half \ {fd}
          /\ Interest' = [Interest EXCEPT ![fd] = events]
      BY <2>3, <3>1, <3>2, <3>3, RowSeen DEF SelInv
    <3>6. fd \notin Half
      BY <2>6, <2>9 DEF SelInv, Registrations, Watched
    <3>7. Promise!Add(fd, events)
      BY <1>3, <3>2, <3>5, <3>6 DEF Promise!Add, Promise!Watch, Promise!Returns, Returns
    <3> QED BY <2>5, <3>4, <3>7, CallIsStep
  <2> QED BY <2>8, <2>9
<1> QED BY <1>2, <1>3

\* mod of kqueue: a descriptor without the WRITE filter gets its READ filter
\* changed although the call fails.
LEMMA KqModStep ==
  ASSUME SelInv, backend = "kqueue", UNCHANGED backend,
         NEW fd \in Fd, NEW events \in Wanted[fd], KqMod(fd, events)
  PROVE  SelInv' /\ Promise!Next
<1>0. events \in SUBSET Event
  BY SelectorAssumption DEF Event
<1> DEFINE forgiven == {"EPIPE"}
<1> DEFINE ops == [e \in Event |-> IF e \in events THEN "on" ELSE "off"]
           r == IF "READ" \in events THEN "on" ELSE "off"
           w == IF "WRITE" \in events THEN "on" ELSE "off"
<1>1. Kevent("mod", fd, ops, forgiven)
  BY DEF KqMod
<1>f. /\ forgiven \subseteq {"EPIPE", "ENOENT"} /\ "OK" \in {"OK"} \cup forgiven
      /\ "ENOENT" \notin {"OK"} \cup forgiven /\ "ENOENT" \notin forgiven
  OBVIOUS
<1> HIDE DEF forgiven
<1>2. CASE ~fd_ \/ fd \notin open
  <2>1. /\ SelInv' /\ UNCHANGED <<kernelVars, fd_, fetchVars>>
        /\ Promise!Refused("mod", fd)
    BY <1>1, <1>2, <1>f, KeventRefused
  <2> QED BY <2>1, CallIsStep DEF Promise!Mod
<1>3. CASE fd_ /\ fd \in open
  <2>1. filter[fd] \in Row /\ ops["READ"] \in {"on", "off"} /\ ops["WRITE"] \in {"on", "off"}
    BY DEF SelInv, Typed, Row, Event
  <2>a. PICK one, two : /\ one = [filter[fd] EXCEPT !["READ"] = r]
                        /\ two = [one EXCEPT !["WRITE"] = w]
    OBVIOUS
  <2>2. IF filter[fd]["READ"] = "absent"
        THEN /\ Change(fd, filter[fd], "READ", ops["READ"]).flist = filter[fd]
             /\ Change(fd, filter[fd], "READ", ops["READ"]).errno = "ENOENT"
        ELSE /\ Change(fd, filter[fd], "READ", ops["READ"]).flist = one
             /\ Change(fd, filter[fd], "READ", ops["READ"]).errno = "OK"
    BY <1>3, <2>1, <2>a DEF Change, Event
  <2>3. /\ one \in Row /\ one["READ"] = r /\ one["WRITE"] = filter[fd]["WRITE"]
        /\ two \in Row /\ two["READ"] = r /\ two["WRITE"] = w
    BY <2>1, <2>a DEF Row, Event
  <2>4. IF filter[fd]["WRITE"] = "absent"
        THEN /\ Change(fd, one, "WRITE", ops["WRITE"]).flist = one
             /\ Change(fd, one, "WRITE", ops["WRITE"]).errno = "ENOENT"
        ELSE /\ Change(fd, one, "WRITE", ops["WRITE"]).flist = two
             /\ Change(fd, one, "WRITE", ops["WRITE"]).errno = "OK"
    BY <1>3, <2>1, <2>3, <2>a DEF Change, Event
  <2>5. UNCHANGED <<kernelVars, fd_, fetchVars>>
    BY <1>1 DEF Kevent
  <2>7. r # "absent" /\ w # "absent"
    OBVIOUS
  <2> HIDE DEF ops
  <2>8. CASE filter[fd]["READ"] = "absent"
    <3>0. Change(fd, filter[fd], "READ", ops["READ"]).errno # "OK" /\ Change(fd, filter[fd], "READ", ops["READ"]).errno \notin forgiven
      BY <1>f, <2>2, <2>8
    <3>1. /\ filter' = [filter EXCEPT ![fd] = Change(fd, filter[fd], "READ", ops["READ"]).flist]
          /\ Returns("mod", FALSE)
      BY <1>1, <3>0, KeventFirst
    <3>2. filter' = filter
      BY <2>2, <2>8, <3>1 DEF SelInv, Typed
    <3>3. UNCHANGED <<Watched, Half, Interest>>
      BY <3>2 DEF Watched, Half, Interest, Registered, On
    <3>4. SelInv'
      BY <2>5, <3>2 DEF SelInv, Typed, Room, Registrations, Registered, kernelVars, fetchVars
    <3>5. fd \notin Watched
      BY <2>8 DEF SelInv, Registrations, Watched
    <3>6. Promise!Mod(fd, events)
      BY <3>1, <3>3, <3>5 DEF Promise!Mod, Promise!Refused, Promise!Returns, Promise!watchVars, Returns
    <3> QED BY <2>5, <3>4, <3>6, CallIsStep
  <2>9. CASE filter[fd]["READ"] # "absent" /\ filter[fd]["WRITE"] = "absent"
    <3>0. fd \in Half /\ fd \in gone
      BY <2>1, <2>9, Rows DEF Half, Watched, Registered, SelInv, Registrations
    <3>1. one # NoFilter /\ one["READ"] # "absent" /\ one["WRITE"] = "absent"
      BY <2>3, <2>7, <2>9, Rows
    <3>a. Change(fd, one, "WRITE", ops["WRITE"]).flist = one /\ Change(fd, one, "WRITE", ops["WRITE"]).errno = "ENOENT"
      BY <2>4, <2>9
    <3>b. Change(fd, filter[fd], "READ", ops["READ"]).flist = one
          /\ Change(fd, filter[fd], "READ", ops["READ"]).errno = "OK"
      BY <2>2, <2>9
    <3>c. PICK errno : Change(fd, one, "WRITE", ops["WRITE"]).errno = errno
                       /\ errno \notin {"OK"} \cup forgiven
      BY <1>f, <3>a
    <3>2. filter' = [filter EXCEPT ![fd] = one] /\ Returns("mod", FALSE)
      <4>1. Becomes(fd, one) /\ Returns("mod", FALSE)
        BY <1>1, <3>a, <3>b, <3>c, KeventSecond
      <4> QED BY <4>1 DEF Becomes
    <3>3. EventsOf(one) = events \ {"WRITE"}
      BY <1>0, <2>3, <2>9 DEF EventsOf, Event
    <3>4. SelInv'
      BY <1>3, <2>3, <2>5, <3>0, <3>1, <3>2, RowInvariant
    <3>5. /\ Watched' = Watched \cup {fd} /\ Half' = Half \cup {fd}
          /\ Interest' = [Interest EXCEPT ![fd] = events \ {"WRITE"}]
      <4>1. /\ Watched' = Watched \cup {fd} /\ Half' = Half \cup {fd}
            /\ Interest' = [Interest EXCEPT ![fd] = EventsOf(one)]
        BY <2>3, <3>1, <3>2, RowSeen DEF SelInv
      <4> QED BY <3>3, <4>1, Zenon
    <3>6. Promise!Mod(fd, events)
      BY <3>0, <3>2, <3>5 DEF Promise!Mod, Promise!WatchHalf, Promise!Returns, Returns
    <3> QED BY <2>5, <3>4, <3>6, CallIsStep
  <2>10. CASE filter[fd]["READ"] # "absent" /\ filter[fd]["WRITE"] # "absent"
    <3>0. fd \in Watched \ Half
      BY <2>1, <2>10, Rows DEF Half, Watched, Registered
    <3>1. two # NoFilter /\ two["READ"] # "absent" /\ two["WRITE"] # "absent"
      BY <2>3, <2>7, Rows
    <3>a. Change(fd, one, "WRITE", ops["WRITE"]).flist = two /\ Change(fd, one, "WRITE", ops["WRITE"]).errno = "OK"
      BY <2>4, <2>10
    <3>b. Change(fd, filter[fd], "READ", ops["READ"]).flist = one
          /\ Change(fd, filter[fd], "READ", ops["READ"]).errno = "OK"
      BY <2>2, <2>10
    <3>c. PICK errno : Change(fd, one, "WRITE", ops["WRITE"]).errno = errno
                       /\ errno \in {"OK"} \cup forgiven
      BY <1>f, <3>a
    <3>2. filter' = [filter EXCEPT ![fd] = two] /\ Returns("mod", TRUE)
      <4>1. Becomes(fd, two) /\ Returns("mod", TRUE)
        BY <1>1, <3>a, <3>b, <3>c, KeventSecond
      <4> QED BY <4>1 DEF Becomes
    <3>3. EventsOf(two) = events
      BY <1>0, <2>3 DEF EventsOf, Event
    <3>4. SelInv'
      BY <1>3, <2>3, <2>5, <3>1, <3>2, RowInvariant
    <3>5. /\ Watched' = Watched \cup {fd} /\ Half' = Half \ {fd}
          /\ Interest' = [Interest EXCEPT ![fd] = events]
      BY <2>3, <3>1, <3>2, <3>3, RowSeen DEF SelInv
    <3>6. Promise!Mod(fd, events)
      BY <3>0, <3>2, <3>5 DEF Promise!Mod, Promise!Watch, Promise!Returns, Returns
    <3> QED BY <2>5, <3>4, <3>6, CallIsStep
  <2> QED BY <2>8, <2>9, <2>10
<1> QED BY <1>2, <1>3

\* del of kqueue: a filter that is missing is no error.
LEMMA KqDelStep ==
  ASSUME SelInv, backend = "kqueue", UNCHANGED backend, NEW fd \in Fd, KqDel(fd)
  PROVE  SelInv' /\ Promise!Next
<1> DEFINE forgiven == {"ENOENT"}
<1> DEFINE ops == [e \in Event |-> "absent"]
<1>1. Kevent("del", fd, ops, forgiven)
  BY DEF KqDel
<1>f. /\ forgiven \subseteq {"EPIPE", "ENOENT"} /\ "OK" \in {"OK"} \cup forgiven
      /\ "ENOENT" \in {"OK"} \cup forgiven /\ "ENOENT" \in forgiven
  OBVIOUS
<1> HIDE DEF forgiven
<1>2. CASE ~fd_ \/ fd \notin open
  <2>1. /\ SelInv' /\ UNCHANGED <<kernelVars, fd_, fetchVars>>
        /\ Promise!Refused("del", fd)
    BY <1>1, <1>2, <1>f, KeventRefused
  <2> QED BY <2>1, DelIsStep DEF Promise!Del
<1>3. CASE fd_ /\ fd \in open
  <2>1. filter[fd] \in Row
    BY DEF SelInv, Typed, Row
  <2>a. PICK one, two : /\ one = [filter[fd] EXCEPT !["READ"] = "absent"]
                        /\ two = [one EXCEPT !["WRITE"] = "absent"]
    OBVIOUS
  <2>2. IF filter[fd]["READ"] = "absent"
        THEN /\ Change(fd, filter[fd], "READ", ops["READ"]).flist = filter[fd]
             /\ Change(fd, filter[fd], "READ", ops["READ"]).errno = "ENOENT"
        ELSE /\ Change(fd, filter[fd], "READ", ops["READ"]).flist = one
             /\ Change(fd, filter[fd], "READ", ops["READ"]).errno = "OK"
    BY <1>3, <2>a DEF Change, Event
  <2>3. /\ one \in Row /\ one["READ"] = "absent" /\ one["WRITE"] = filter[fd]["WRITE"]
        /\ two \in Row /\ two["READ"] = "absent" /\ two["WRITE"] = "absent"
    BY <2>1, <2>a DEF Row, Event
  <2>4. IF filter[fd]["WRITE"] = "absent"
        THEN /\ Change(fd, one, "WRITE", ops["WRITE"]).flist = one
             /\ Change(fd, one, "WRITE", ops["WRITE"]).errno = "ENOENT"
        ELSE /\ Change(fd, one, "WRITE", ops["WRITE"]).flist = two
             /\ Change(fd, one, "WRITE", ops["WRITE"]).errno = "OK"
    BY <1>3, <2>3, <2>a DEF Change, Event
  <2>5. UNCHANGED <<kernelVars, fd_, fetchVars>>
    BY <1>1 DEF Kevent
  <2> HIDE DEF ops
  <2>7. CASE filter[fd]["READ"] = "absent"
    <3>0. Change(fd, filter[fd], "READ", ops["READ"]).errno # "OK" /\ Change(fd, filter[fd], "READ", ops["READ"]).errno \in forgiven
      BY <1>f, <2>2, <2>7
    <3>1. /\ filter' = [filter EXCEPT ![fd] = Change(fd, filter[fd], "READ", ops["READ"]).flist]
          /\ Returns("del", TRUE)
      BY <1>1, <3>0, KeventFirst
    <3>2. Change(fd, filter[fd], "READ", ops["READ"]).flist = NoFilter
      BY <2>2, <2>7 DEF SelInv, Registrations, Registered
    <3>3. filter' = [filter EXCEPT ![fd] = NoFilter] /\ Returns("del", TRUE)
      BY <3>1, <3>2
    <3>4. SelInv'
      BY <2>5, <3>3, Rows, RowInvariant
    <3>5. Promise!Unwatch({fd})
      BY <3>3, RemovedSeen DEF SelInv
    <3>6. Promise!Del(fd)
      BY <1>3, <3>3, <3>5 DEF Promise!Del, Promise!Returns, Returns
    <3> QED BY <2>5, <3>4, <3>6, DelIsStep
  <2>8. CASE filter[fd]["READ"] # "absent"
    <3>1. /\ Change(fd, filter[fd], "READ", ops["READ"]).flist = one
          /\ Change(fd, filter[fd], "READ", ops["READ"]).errno = "OK"
      BY <2>2, <2>8
    <3>2. PICK errno : Change(fd, one, "WRITE", ops["WRITE"]).errno = errno
                       /\ errno \in {"OK"} \cup forgiven
      BY <1>f, <2>4
    <3>a. Change(fd, one, "WRITE", ops["WRITE"]).flist = NoFilter
      BY <2>3, <2>4, Rows
    <3>3. filter' = [filter EXCEPT ![fd] = NoFilter] /\ Returns("del", TRUE)
      <4>1. Becomes(fd, NoFilter) /\ Returns("del", TRUE)
        BY <1>1, <3>1, <3>2, <3>a, KeventSecond
      <4> QED BY <4>1 DEF Becomes
    <3>4. SelInv'
      BY <2>5, <3>3, Rows, RowInvariant
    <3>5. Promise!Unwatch({fd})
      BY <3>3, RemovedSeen DEF SelInv
    <3>6. Promise!Del(fd)
      BY <1>3, <3>3, <3>5 DEF Promise!Del, Promise!Returns, Returns
    <3> QED BY <2>5, <3>4, <3>6, DelIsStep
  <2> QED BY <2>7, <2>8
<1> QED BY <1>2, <1>3

----
(* The steps of both.                                                       *)

\* What happens to the descriptors outside the selector.
LEMMA OutsideStep ==
  ASSUME SelInv, UNCHANGED backend, NEW fd \in Fd, Outside(fd)
  PROVE  SelInv' /\ Promise!Next
<1>0. UNCHANGED <<fd_, fetchVars, event>> /\ returned' = Nothing
  BY SameAnswers DEF Outside
<1>1. Room' /\ fd_' \in BOOLEAN /\ backend' \in {"epoll", "kqueue"}
  BY <1>0 DEF SelInv, Typed, Room, fetchVars
<1>2. CASE filter' = filter
           /\ (Promise!KernelReady(fd) \/ Promise!KernelGone(fd) \/ Promise!KernelOpens(fd))
  <2>1. UNCHANGED <<Watched, Half, Interest>>
    BY <1>2 DEF Watched, Half, Interest, Registered, On
  <2>2. Promise!Outside
    BY <1>0, <1>2, <2>1 DEF Promise!Outside, Promise!watchVars, Promise!Nothing, Nothing
  <2>3. /\ open' \subseteq Fd /\ gone' \subseteq open' /\ open \subseteq open'
        /\ gone \subseteq gone' /\ ready' \in [Fd -> SUBSET Event]
    <3>1. CASE Promise!KernelReady(fd)
      <4>1. PICK events \in SUBSET Signals[fd] : ready' = [ready EXCEPT ![fd] = events]
        BY <3>1 DEF Promise!KernelReady
      <4>2. Signals[fd] \subseteq Event
        BY SelectorAssumption DEF Event
      <4>3. open' = open /\ gone' = gone
        BY <3>1 DEF Promise!KernelReady
      <4> QED BY <4>1, <4>2, <4>3 DEF SelInv, Typed
    <3>2. CASE Promise!KernelGone(fd)
      BY <3>2 DEF Promise!KernelGone, SelInv, Typed
    <3>3. CASE Promise!KernelOpens(fd)
      BY <3>3 DEF Promise!KernelOpens, SelInv, Typed
    <3> QED BY <1>2, <3>1, <3>2, <3>3
  <2>4. Typed' /\ Registrations'
    BY <1>0, <1>1, <1>2, <2>3 DEF SelInv, Typed, Registrations, Registered
  <2> QED BY <1>1, <2>2, <2>4 DEF SelInv, Promise!Next
<1>3. CASE filter' = [filter EXCEPT ![fd] = NoFilter] /\ Promise!KernelCloses(fd)
  <2>1. Promise!Outside
    BY <1>0, <1>3, RemovedSeen DEF Promise!Outside, Promise!Nothing, Nothing, SelInv
  <2>2. /\ open' = open \ {fd} /\ gone' = gone \ {fd} /\ ready' \in [Fd -> SUBSET Event]
    BY <1>3 DEF Promise!KernelCloses, SelInv, Typed
  <2>3. /\ filter' \in [Fd -> Row]
        /\ \A d \in Fd : filter'[d] = IF d = fd THEN NoFilter ELSE filter[d]
    BY <1>3, Rows DEF SelInv, Typed, Row
  <2>4. Typed'
    BY <1>1, <2>2, <2>3 DEF SelInv, Typed, Row
  <2>5. Registrations'
    BY <1>0, <2>2, <2>3 DEF SelInv, Registrations, Registered
  <2> QED BY <1>1, <2>1, <2>4, <2>5 DEF SelInv, Promise!Next
<1>4. \/ filter' = filter
         /\ (Promise!KernelReady(fd) \/ Promise!KernelGone(fd) \/ Promise!KernelOpens(fd))
      \/ filter' = [filter EXCEPT ![fd] = NoFilter] /\ Promise!KernelCloses(fd)
  BY DEF Outside, Promise!KernelReady, Promise!KernelGone, Promise!KernelOpens, Promise!KernelCloses
<1> QED BY <1>2, <1>3, <1>4

\* A select whose due answers are right, and are all there are.
LEMMA FetchStep ==
  ASSUME SelInv, NEW due \in SUBSET Answers, Fetch(due),
         UNCHANGED <<kernelVars, fd_, filter, backend>>,
         \A a \in due : Promise!IsAnswer(a),
         \A fd \in Watched : \A e \in Interest[fd] \cap ready[fd] :
           \E a \in due : a.fd = fd /\ e \in a.events
  PROVE  SelInv' /\ Promise!Next
<1>1. /\ Room'
      /\ \/ Returns("select", FALSE) /\ event' = <<>>
         \/ /\ fd_ /\ Returns("select", TRUE)
            /\ event' \in Seq(due)
            /\ \/ Len(event') >= InitialSize
               \/ \A a \in due : \E i \in DOMAIN event' : event'[i] = a
  BY Fetched DEF SelInv
<1>2. SelInv'
  BY <1>1 DEF SelInv, Typed, Registrations, Registered, kernelVars
<1>3. UNCHANGED <<Watched, Half, Interest>>
  BY DEF Watched, Half, Interest, Registered, On
<1>4. CASE Returns("select", FALSE) /\ event' = <<>>
  BY <1>2, <1>3, <1>4
     DEF Promise!Next, Promise!Select, Promise!watchVars, Promise!kernelVars, Promise!Returns, Returns,
         kernelVars
<1>5. CASE /\ fd_ /\ Returns("select", TRUE)
           /\ event' \in Seq(due)
           /\ \/ Len(event') >= InitialSize
              \/ \A a \in due : \E i \in DOMAIN event' : event'[i] = a
  <2>1. \A i \in DOMAIN event' : Promise!IsAnswer(event'[i])
    <3>1. \A i \in DOMAIN event' : event'[i] \in due
      BY <1>5
    <3> QED BY <3>1
  <2>2. Promise!AllReported(event') \/ Len(event') >= InitialSize
    BY <1>5 DEF Promise!AllReported, Promise!Reported
  <2>3. Promise!Select
    BY <1>3, <1>5, <2>1, <2>2 DEF Promise!Select, Promise!watchVars, Promise!Returns, Returns
  <2> QED BY <1>2, <2>3 DEF Promise!Next, Promise!kernelVars, kernelVars
<1> QED BY <1>1, <1>4, <1>5

\* select of epoll: one answer for a descriptor.
LEMMA SelectStep ==
  ASSUME SelInv, UNCHANGED backend, select
  PROVE  SelInv' /\ Promise!Next
<1>1. Due \in SUBSET Answers
  BY DEF Due, Answers, On, SelInv, Typed
<1>2. \A a \in Due : Promise!IsAnswer(a)
  BY DEF Due, Promise!IsAnswer, SelInv, Typed, Watched, Interest, On
<1>3. \A fd \in Watched : \A e \in Interest[fd] \cap ready[fd] :
        \E a \in Due : a.fd = fd /\ e \in a.events
  <2> SUFFICES ASSUME NEW fd \in Watched, NEW e \in Interest[fd] \cap ready[fd]
               PROVE  \E a \in Due : a.fd = fd /\ e \in a.events
    OBVIOUS
  <2>1. fd \in open /\ Registered(fd) /\ e \in On(fd) \cap ready[fd]
    BY DEF Watched, Interest, SelInv, Registrations
  <2>2. [fd |-> fd, events |-> On(fd) \cap ready[fd]] \in Due
    BY <2>1 DEF Due
  <2> QED BY <2>1, <2>2
<1>4. Fetch(Due) /\ UNCHANGED <<kernelVars, fd_, filter, backend>>
  BY DEF select
<1> HIDE DEF Due
<1> QED BY <1>1, <1>2, <1>3, <1>4, FetchStep

\* select of kqueue: one answer for a filter.
LEMMA KqSelectStep ==
  ASSUME SelInv, UNCHANGED backend, KqSelect
  PROVE  SelInv' /\ Promise!Next
<1>0. \A fd \in Fd : \A e \in On(fd) : fd \in Watched
  BY DEF On, Watched, Registered, NoFilter
<1>1. KqDue \in SUBSET Answers
  BY DEF KqDue, Answers, SelInv, Typed
<1>2. \A a \in KqDue : Promise!IsAnswer(a)
  BY <1>0 DEF KqDue, Promise!IsAnswer, SelInv, Typed, Interest
<1>3. \A fd \in Watched : \A e \in Interest[fd] \cap ready[fd] :
        \E a \in KqDue : a.fd = fd /\ e \in a.events
  <2> SUFFICES ASSUME NEW fd \in Watched, NEW e \in Interest[fd] \cap ready[fd]
               PROVE  \E a \in KqDue : a.fd = fd /\ e \in a.events
    OBVIOUS
  <2>1. fd \in open /\ e \in Event /\ e \in On(fd) /\ e \in ready[fd]
    BY DEF Watched, Interest, SelInv, Registrations, On
  <2>2. [fd |-> fd, events |-> {e}] \in KqDue
    <3>1. <<fd, e>> \in {q \in open \X Event : q[2] \in On(q[1]) /\ (q[1] \in gone \/ q[2] \in ready[q[1]])}
      BY <2>1
    <3>2. [fd |-> <<fd, e>>[1], events |-> {<<fd, e>>[2]}] \in KqDue
      BY <3>1 DEF KqDue
    <3> QED BY <3>2
  <2> QED BY <2>2
<1>4. Fetch(KqDue) /\ UNCHANGED <<kernelVars, fd_, filter, backend>>
  BY DEF KqSelect
<1> QED BY <1>1, <1>2, <1>3, <1>4, FetchStep

\* close: a second one fails.
LEMMA CloseStep ==
  ASSUME SelInv, UNCHANGED backend, close
  PROVE  SelInv' /\ Promise!Next
<1>0. fd_' = FALSE /\ UNCHANGED <<kernelVars, fetchVars, event>>
  BY SameAnswers DEF close
<1>1. /\ filter' \in [Fd -> Row]
      /\ \A fd \in Fd : filter'[fd] = NoFilter
  BY Rows DEF close
<1>2. SelInv'
  BY <1>0, <1>1 DEF SelInv, Typed, Room, Registrations, Registered, kernelVars, fetchVars, Row
<1>3. Watched' = {} /\ Half' = {} /\ Interest' = [fd \in Fd |-> {}]
  BY <1>1 DEF Watched, Half, Interest, Registered, On, NoFilter
<1>4. Promise!Unwatch(Fd)
  BY <1>3 DEF Promise!Unwatch, Watched, Half
<1>5. Promise!Returns("close", fd_)
  BY DEF close, Returns, Promise!Returns
<1> QED BY <1>0, <1>2, <1>4, <1>5 DEF Promise!Next, Promise!Close, Promise!kernelVars, kernelVars

\* Every step of either selector keeps the invariant and is a step of
\* Selector.
LEMMA EveryStep ==
  ASSUME SelInv, BothNext
  PROVE  SelInv' /\ Promise!Next
<1>0. UNCHANGED backend
  BY DEF BothNext
<1>1. CASE backend = "epoll" /\ Next
  BY <1>0, <1>1, OutsideStep, AddStep, ModStep, DelStep, SelectStep, CloseStep DEF Next
<1>2. CASE backend = "kqueue" /\ KqNext
  BY <1>0, <1>2, OutsideStep, KqAddStep, KqModStep, KqDelStep, KqSelectStep, CloseStep DEF KqNext
<1> QED BY <1>1, <1>2 DEF BothNext

\* The state a selector is opened in.
LEMMA Opened == BothInit => SelInv /\ Promise!Init
<1> SUFFICES ASSUME BothInit
             PROVE  SelInv /\ Promise!Init
  OBVIOUS
<1> USE DEF BothInit, Init, open_
<1>1. Typed
  BY Rows DEF Typed, Row
<1>2. Room
  <2>1. Stale \in Entries /\ InitialSize \in Nat \ {0}
    BY SelectorAssumption DEF Entries
  <2>2. buffer_ \in Seq(Entries) /\ Len(buffer_) = InitialSize
    BY <2>1
  <2> QED BY <2>1, <2>2 DEF Room
<1>3. Registrations
  BY DEF Registrations, Registered
<1>4. Watched = {} /\ Half = {} /\ Interest = [fd \in Fd |-> {}]
  BY DEF Watched, Half, Interest, Registered, On, NoFilter
<1>5. event = <<>>
  BY DEF event
<1> QED BY <1>1, <1>2, <1>3, <1>4, <1>5 DEF SelInv, Promise!Init, Promise!Nothing, Nothing

\* A step that changes nothing is one of Selector too.
LEMMA Stutter ==
  ASSUME SelInv, UNCHANGED allVars
  PROVE  SelInv' /\ UNCHANGED Promise!vars
<1> USE DEF allVars, vars, kernelVars, fetchVars
<1>1. SelInv'
  BY DEF SelInv, Typed, Room, Registrations, Registered
<1>2. UNCHANGED <<Watched, Half, Interest, event>>
  BY DEF Watched, Half, Interest, Registered, On, event
<1> QED BY <1>1, <1>2 DEF Promise!vars, Promise!kernelVars, Promise!watchVars

----
(* The theorems.                                                            *)

\* A registration belongs to an open selector and an open descriptor, WRITE
\* is missing only for a descriptor that lost its other end and only in
\* kqueue, and the buffer has every entry that result_ counts: whatever the
\* sequence of selector_impl's calls (Typed, Room, Registrations).
THEOREM Invariance == BothSpec => []SelInv
<1>1. BothInit => SelInv
  BY Opened
<1>2. SelInv /\ [BothNext]_allVars => SelInv'
  BY EveryStep, Stutter
<1> QED BY <1>1, <1>2, PTL DEF BothSpec

\* Both selectors do what Selector promises (ImplementsSelector): add, mod
\* and del are refused for a reason only and then change nothing, an answer
\* is about a descriptor that is watched and an event that is ready, select
\* leaves none out while there is room, and a failed select leaves no answer
\* of an older one to be read.
THEOREM SelectorsKeepPromise == BothSpec => ImplementsSelector
<1>1. BothInit => Promise!Init
  BY Opened
<1>2. SelInv /\ [BothNext]_allVars => [Promise!Next]_(Promise!vars)
  BY EveryStep, Stutter
<1> QED BY <1>1, <1>2, Invariance, PTL DEF BothSpec, ImplementsSelector, Promise!Spec
=============================================================================
