---------------------------- MODULE SelectorEpoll ---------------------------
(***************************************************************************)
(* selector_epoll: the calls over epoll_ctl and epoll_wait, and the buffer *)
(* of answers.  filter is the kernel's side: for every descriptor and      *)
(* event, "absent" (not registered), "off" or "on".                        *)
(***************************************************************************)
EXTENDS Integers, Sequences, FiniteSets, FiniteSetsExt, SequencesExt

CONSTANTS
  Fd, Signals, Wanted, Fragile,   \* as in Selector
  InitialSize, MaxSize            \* INITIAL_BUFFER_SIZE, MAX_BUFFER_SIZE

ASSUME SelectorAssumption ==
  /\ IsFiniteSet(Fd)
  /\ Signals \in [Fd -> SUBSET {"READ", "WRITE"}]
  /\ Wanted \in [Fd -> SUBSET SUBSET {"READ", "WRITE"}]
  /\ Fragile \subseteq Fd
  /\ InitialSize \in Nat \ {0} /\ MaxSize \in Nat

VARIABLES
  open, ready, gone,   \* the kernel's descriptors, as in Selector
  fd_,                 \* the descriptor of the selector is valid
  filter,              \* what the kernel has registered
  result_, buffer_,    \* the fields of selector_impl
  returned             \* the call that returned in the last step

Event == {"READ", "WRITE"}
kernelVars == <<open, ready, gone>>
fetchVars == <<result_, buffer_>>
vars == <<kernelVars, fd_, filter, fetchVars, returned>>

Stale == [fd |-> 0, events |-> {}]   \* an entry no select has just written
Nothing == [call |-> "none", ok |-> TRUE]
Returns(name, success) == returned' = [call |-> name, ok |-> success]

NoFilter == [e \in Event |-> "absent"]
Mask(events) == [e \in Event |-> IF e \in events THEN "on" ELSE "off"]
Registered(fd) == filter[fd] # NoFilter
On(fd) == {e \in Event : filter[fd][e] = "on"}

open_ ==
  /\ fd_ = TRUE
  /\ result_ = -1
  /\ buffer_ = [i \in 1..InitialSize |-> Stale]

Init ==
  /\ open = Fd
  /\ ready = [fd \in Fd |-> {}]
  /\ gone = {}
  /\ filter = [fd \in Fd |-> NoFilter]
  /\ returned = Nothing
  /\ open_

\* Everything that happens to a descriptor outside the selector; closing it
\* takes its registrations with it.
Outside(fd) ==
  /\ \/ /\ fd \in open
        /\ \E events \in SUBSET Signals[fd] : ready' = [ready EXCEPT ![fd] = events]
        /\ UNCHANGED <<open, gone, filter>>
     \/ fd \in Fragile \cap (open \ gone) /\ gone' = gone \cup {fd} /\ UNCHANGED <<open, ready, filter>>
     \/ /\ fd \in Fragile \cap open /\ open' = open \ {fd} /\ gone' = gone \ {fd}
        /\ ready' = [ready EXCEPT ![fd] = {}]
        /\ filter' = [filter EXCEPT ![fd] = NoFilter]
     \/ fd \notin open /\ open' = open \cup {fd} /\ UNCHANGED <<ready, gone, filter>>
  /\ returned' = Nothing
  /\ UNCHANGED <<fd_, fetchVars>>

-----------------------------------------------------------------------------
(* The calls *)

\* epoll_ctl: EBADF, EEXIST for ADD, ENOENT for MOD and DEL
Control(name, fd, entry) ==
  /\ LET success == /\ fd_ /\ fd \in open
                    /\ Registered(fd) <=> name # "add"
     IN /\ filter' = IF success THEN [filter EXCEPT ![fd] = entry] ELSE filter
        /\ Returns(name, success)
  /\ UNCHANGED <<kernelVars, fd_, fetchVars>>

add(fd, events) == Control("add", fd, Mask(events))
mod(fd, events) == Control("mod", fd, Mask(events))
del(fd) == Control("del", fd, NoFilter)

\* Mutant: the buffer never grows.
GrownNever == Len(buffer_)

\* The size of the buffer that select hands to the kernel
Grown == LET size == Len(buffer_) IN
         IF result_ = size /\ size < MaxSize THEN 2 * size ELSE size

\* Mutant: a select that fails keeps the count of the one before.
FetchKeepsCount(due) ==
  \/ /\ fd_
     /\ \E got \in kSubset(Min({Grown, Cardinality(due)}), due) :
          /\ buffer_' = SetToSeq(got) \o [i \in 1..(Grown - Cardinality(got)) |-> Stale]
          /\ result_' = Cardinality(got)
     /\ Returns("select", TRUE)
  \/ /\ buffer_' = [i \in 1..Grown |-> Stale]
     /\ UNCHANGED result_
     /\ Returns("select", FALSE)

\* The system call takes some of the due answers, as many as there is room
\* for; or it is interrupted, or finds a bad descriptor, and writes nothing.
Fetch(due) ==
  \/ /\ fd_
     /\ \E got \in kSubset(Min({Grown, Cardinality(due)}), due) :
          /\ buffer_' = SetToSeq(got) \o [i \in 1..(Grown - Cardinality(got)) |-> Stale]
          /\ result_' = Cardinality(got)
     /\ Returns("select", TRUE)
  \/ /\ buffer_' = [i \in 1..Grown |-> Stale]
     /\ result_' = -1
     /\ Returns("select", FALSE)

\* What epoll reports: one entry for a descriptor, with the ready events it
\* is registered for; a hang-up is reported whatever the mask is, and event()
\* makes no event of it.
Due ==
  {[fd |-> fd, events |-> On(fd) \cap ready[fd]] :
     fd \in {d \in open : Registered(d) /\ (d \in gone \/ On(d) \cap ready[d] # {})}}

select ==
  /\ Fetch(Due)
  /\ UNCHANGED <<kernelVars, fd_, filter>>

close ==
  /\ fd_' = FALSE
  /\ filter' = [fd \in Fd |-> NoFilter]
  /\ Returns("close", fd_)
  /\ UNCHANGED <<kernelVars, fetchVars>>

\* The answers a program reads with event(1), event(2), ... in Lua, one less
\* in C++: those below result_, -1 after a failure
event == [i \in 1..result_ |-> IF i <= Len(buffer_) THEN buffer_[i] ELSE Stale]

Next ==
  \/ \E fd \in Fd : Outside(fd)
  \/ \E fd \in Fd : \E events \in Wanted[fd] : add(fd, events)
  \/ \E fd \in Fd : \E events \in Wanted[fd] : mod(fd, events)
  \/ \E fd \in Fd : del(fd)
  \/ select
  \/ close

Spec == Init /\ [][Next]_vars
=============================================================================
