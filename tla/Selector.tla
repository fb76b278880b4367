------------------------------ MODULE Selector ------------------------------
(***************************************************************************)
(* What a dromozoa.unix.selector promises, whichever system call is behind *)
(* it: which descriptors it watches for which events, and what the answers *)
(* of its last select say.  SelectorEpoll and SelectorKqueue implement it. *)
(* The descriptors themselves (open, ready, the other end gone) are the    *)
(* kernel's.                                                               *)
(***************************************************************************)
EXTENDS Integers, Sequences, FiniteSets, FiniteSetsExt, SequencesExt

CONSTANTS
  Fd,              \* the descriptors a program watches
  Signals,         \* Signals[fd]: the events that can be ready on fd
  Wanted,          \* Wanted[fd]: the sets of events a program watches fd for
  Fragile,         \* the descriptors that are closed, or lose their other end
  InitialSize      \* the least number of answers a select has room for

Event == {"READ", "WRITE"}

VARIABLES
  open,        \* the descriptors that are open
  ready,       \* ready[fd]: the events ready on fd
  gone,        \* the descriptors whose other end is gone
  valid,       \* the selector is open
  watched,     \* the descriptors it watches
  half,        \* of those, the ones it can only watch for READ
  interest,    \* interest[fd]: the events fd is watched for
  answers,     \* the answers of the last select, as event(i) hands them out
  returned     \* the call that returned in the last step, and whether it failed

kernelVars == <<open, ready, gone>>
watchVars == <<watched, half, interest>>
vars == <<kernelVars, valid, watchVars, answers, returned>>

Nothing == [call |-> "none", ok |-> TRUE]
Returns(name, success) == returned' = [call |-> name, ok |-> success]

Init ==
  /\ open = Fd
  /\ ready = [fd \in Fd |-> {}]
  /\ gone = {}
  /\ valid = TRUE
  /\ watched = {}
  /\ half = {}
  /\ interest = [fd \in Fd |-> {}]
  /\ answers = <<>>
  /\ returned = Nothing

-----------------------------------------------------------------------------
(* The kernel's descriptors.  Closing one ends the watch on it, and its    *)
(* number can be opened again.                                             *)

KernelReady(fd) ==
  /\ fd \in open
  /\ \E events \in SUBSET Signals[fd] : ready' = [ready EXCEPT ![fd] = events]
  /\ UNCHANGED <<open, gone>>

KernelGone(fd) ==
  /\ fd \in Fragile \cap (open \ gone)
  /\ gone' = gone \cup {fd}
  /\ UNCHANGED <<open, ready>>

KernelCloses(fd) ==
  /\ fd \in Fragile \cap open
  /\ open' = open \ {fd}
  /\ gone' = gone \ {fd}
  /\ ready' = [ready EXCEPT ![fd] = {}]

KernelOpens(fd) ==
  /\ fd \in Fd \ open
  /\ open' = open \cup {fd}
  /\ UNCHANGED <<ready, gone>>

Unwatch(fds) ==
  /\ watched' = watched \ fds
  /\ half' = half \ fds
  /\ interest' = [fd \in Fd |-> IF fd \in fds THEN {} ELSE interest[fd]]

Outside ==
  /\ returned' = Nothing
  /\ UNCHANGED <<valid, answers>>
  /\ \E fd \in Fd :
       \/ (KernelReady(fd) \/ KernelGone(fd) \/ KernelOpens(fd)) /\ UNCHANGED watchVars
       \/ KernelCloses(fd) /\ Unwatch({fd})

-----------------------------------------------------------------------------
(* The calls.  A call may be refused for a reason only, and then changes   *)
(* nothing; the one exception is a descriptor whose other end was gone     *)
(* when it was added.                                                      *)

Watch(fd, events) ==
  /\ watched' = watched \cup {fd}
  /\ interest' = [interest EXCEPT ![fd] = events]
  /\ UNCHANGED half

WatchHalf(fd, events) ==
  /\ fd \in half \cup gone
  /\ half' = half \cup {fd}
  /\ watched' = watched \cup {fd}
  /\ interest' = [interest EXCEPT ![fd] = events \ {"WRITE"}]

Refused(name, fd) ==
  /\ Returns(name, FALSE)
  /\ UNCHANGED watchVars
  /\ \/ ~valid \/ fd \notin open
     \/ name = "add" /\ fd \in watched
     \/ name \in {"mod", "del"} /\ fd \notin watched

Add(fd, events) ==
  \/ Refused("add", fd)
  \/ /\ Returns("add", TRUE)
     /\ valid /\ fd \in open
     /\ Watch(fd, events) \/ WatchHalf(fd, events)

Mod(fd, events) ==
  \/ Refused("mod", fd)
  \/ Returns("mod", TRUE) /\ fd \in watched \ half /\ Watch(fd, events)
  \/ Returns("mod", FALSE) /\ fd \in half /\ WatchHalf(fd, events)

Del(fd) ==
  \/ Refused("del", fd)
  \/ Returns("del", TRUE) /\ valid /\ fd \in open /\ Unwatch({fd})

\* An answer is for a watched descriptor, names only events it is watched
\* for, each of them ready unless the other end is gone, and names none only
\* if the other end is gone.
IsAnswer(a) ==
  /\ a.fd \in watched
  /\ a.events \subseteq interest[a.fd]
  /\ a.fd \in gone \/ (a.events # {} /\ a.events \subseteq ready[a.fd])

Reported(fd, e, as) == \E i \in DOMAIN as : as[i].fd = fd /\ e \in as[i].events
AllReported(as) == \A fd \in watched : \A e \in interest[fd] \cap ready[fd] : Reported(fd, e, as)

\* A select leaves nothing out unless its answers fill the room it has.
Select ==
  /\ \/ /\ Returns("select", TRUE)
        /\ valid
        /\ \A i \in DOMAIN answers' : IsAnswer(answers'[i])
        /\ AllReported(answers') \/ Len(answers') >= InitialSize
     \/ Returns("select", FALSE) /\ answers' = <<>>
  /\ UNCHANGED watchVars

Close ==
  /\ Returns("close", valid)
  /\ valid' = FALSE
  /\ Unwatch(Fd)

Next ==
  \/ Outside
  \/ /\ UNCHANGED <<kernelVars, valid, answers>>
     /\ \E fd \in Fd : Del(fd) \/ \E events \in Wanted[fd] : Add(fd, events) \/ Mod(fd, events)
  \/ Select /\ UNCHANGED <<kernelVars, valid>>
  \/ Close /\ UNCHANGED <<kernelVars, answers>>

Spec == Init /\ [][Next]_vars
=============================================================================
