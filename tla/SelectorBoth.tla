---------------------------- MODULE SelectorBoth ----------------------------
(***************************************************************************)
(* Both selectors at once: backend says which one was compiled in, and     *)
(* never changes.  What they promise, whichever it is.                     *)
(***************************************************************************)
EXTENDS SelectorKqueue

VARIABLE backend

BothInit == Init /\ backend \in {"epoll", "kqueue"}

BothNext ==
  /\ UNCHANGED backend
  /\ \/ backend = "epoll" /\ Next
     \/ backend = "kqueue" /\ KqNext

allVars == <<vars, backend>>

BothSelect == IF backend = "epoll" THEN select ELSE KqSelect

\* A program that goes on calling select, and signals that do not interrupt
\* every one of them
BothFairness == SF_allVars(BothSelect /\ returned'.ok /\ UNCHANGED backend)

BothSpec == BothInit /\ [][BothNext]_allVars /\ BothFairness

-----------------------------------------------------------------------------
(* What a program sees of the kernel's filters: the descriptors that are   *)
(* watched, those watched for READ at most, and the events                 *)
Watched == {fd \in Fd : Registered(fd)}
Half == {fd \in Watched : filter[fd]["WRITE"] = "absent"}
Interest == [fd \in Fd |-> On(fd)]

-----------------------------------------------------------------------------
(* Both backends do what Selector promises: a call is refused for a reason *)
(* and then changes nothing, an answer is about a watched descriptor and a *)
(* ready event, nothing is left out while there is room, and answers are   *)
(* never those of an older select.                                         *)
Promise == INSTANCE Selector WITH
  valid <- fd_,
  watched <- Watched,
  half <- Half,
  interest <- Interest,
  answers <- event

ImplementsSelector == Promise!Spec

(* However the kernel chooses what to put in a buffer that is too small:   *)
(* an event that stays ready on a descriptor that stays watched for it is  *)
(* reported again and again, because the buffer grows when it was filled.  *)
IsDue(fd, e) == fd_ /\ fd \in open /\ e \in On(fd) /\ e \in ready[fd]
IsReported(fd, e) == \E i \in DOMAIN event : event[i].fd = fd /\ e \in event[i].events

ReadyReported ==
  \A fd \in Fd, e \in Event : <>[]IsDue(fd, e) => []<>IsReported(fd, e)
=============================================================================
