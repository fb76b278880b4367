----------------------------- MODULE SelfPipeProofs ----------------------------
(***************************************************************************)
(* Theorems about SelfPipe for any number of threads, objects and          *)
(* descriptors.                                                            *)
(***************************************************************************)
EXTENDS SelfPipe, TLAPS

----
(* The inductive invariant.                                                 *)

\* What a pair of descriptors must refer to while somebody keeps it: the two
\* ends of one pipe.
RefersIn(table, e, p) ==
  /\ e \in [r : Fds, w : Fds]
  /\ table[e.r] = <<"r", p>> /\ table[e.w] = <<"w", p>>

\* A pipe is kept by its object or by the one call that works on the object.
\* Since a descriptor refers to one end of one pipe, no two keep the same one.
Kept ==
  /\ \A p \in Pipes : ends[p] # Closed => RefersIn(file, ends[p], p)
  /\ \A c \in Clients :
       /\ object[c] = Self <=> place[c] = "idle"
       /\ object[c] = Self => local[c] = Closed
       /\ object[c] # Self => ends[object[c]] = Closed
       /\ local[c] # Closed => RefersIn(file, local[c], object[c])
       /\ place[c] \notin {"idle", "close_lock", "close_erase"} => local[c] # Closed
  /\ \A c, d \in Clients : object[c] = object[d] /\ object[c] # Self => c = d

\* The internal pipe, and no descriptor besides.
Internal ==
  /\ reader # NoFd => file[reader] = <<"r", Self>>
  /\ writer # NoFd => file[writer] = <<"w", Self>>
  /\ NoLeak

LockedPlaces == {"open_subscribe", "open_thread", "close_erase", "close_action",
                 "close_writer", "close_join", "close_reader"}

\* The mutex is held exactly by the call that is between lock and unlock.
Locked == \A c \in Clients : place[c] \in LockedPlaces <=> owner = c

Running == thread \in {"read", "lock", "write"}
NoInternal == reader = NoFd /\ writer = NoFd

\* Without a call in its critical section, or before it has changed anything.
Steady ==
  IF subscribers = {} THEN thread = "none" /\ ~installed /\ NoInternal
  ELSE Running /\ installed /\ reader # NoFd /\ writer # NoFd

\* What the first open and the last close have done so far.
Stages ==
  /\ owner = None => Steady
  /\ \A c \in Clients :
       /\ place[c] \in {"open_subscribe", "close_erase"} => Steady
       /\ place[c] = "open_thread" =>
            thread = "none" /\ installed /\ subscribers = {} /\ reader # NoFd /\ writer # NoFd
       /\ place[c] = "close_action" =>
            Running /\ installed /\ subscribers = {} /\ reader # NoFd /\ writer # NoFd
       /\ place[c] = "close_writer" =>
            Running /\ ~installed /\ subscribers = {} /\ reader # NoFd /\ writer # NoFd
       /\ place[c] = "close_join" =>
            thread # "none" /\ ~installed /\ subscribers = {} /\ reader # NoFd /\ writer = NoFd
       /\ place[c] = "close_reader" =>
            thread = "none" /\ ~installed /\ subscribers = {} /\ reader # NoFd /\ writer = NoFd

\* The writing end of an object that is open, or being closed and not erased.
Subscriber(f) ==
  \/ \E p \in Pipes : ends[p] # Closed /\ ends[p].w = f
  \/ \E c \in Leaving : local[c] # Closed /\ local[c].w = f

Subscriptions == \A f \in Fds : f \in subscribers <=> Subscriber(f)

\* The publisher goes through the set as it is.
Rounds == IF thread = "write" THEN round \subseteq subscribers ELSE round = {}

IInv == TypeOK /\ Kept /\ Internal /\ Locked /\ Stages /\ Subscriptions /\ Rounds

\* One thread: the handler runs on it, so the call it interrupts stands still.
HandlerAlone ==
  \A c \in Clients : handler[c] => owner = None /\ loaded[c] = writer /\ writer # NoFd
----
(* Types.                                                                   *)

\* A pipe never holds more than its capacity.
LEMMA WrittenType ==
  ASSUME TypeOK, NEW p \in Pipes \cup {Self}
  PROVE  Written(p) \in [Pipes \cup {Self} -> 0 .. PipeCapacity]
BY SelfPipeAssumption DEF TypeOK, Written

\* A descriptor that is the writing end of something is that of a pipe.
LEMMA WriteType ==
  ASSUME TypeOK, NEW f \in Fds, file[f][1] = "w"
  PROVE  file[f][2] \in Pipes \cup {Self}
BY DEF TypeOK, Free

\* A new pipe and closed descriptors.
LEMMA FileType ==
  ASSUME TypeOK
  PROVE  /\ \A p \in Pipes \cup {Self}, r, w \in Fds :
              WithPipe(p, r, w) \in [Fds -> {Free} \cup ({"r", "w"} \X (Pipes \cup {Self}))]
         /\ \A S : Without(S) \in [Fds -> {Free} \cup ({"r", "w"} \X (Pipes \cup {Self}))]
BY DEF TypeOK, WithPipe, Without

\* A call that returns leaves its locals behind.
LEMMA ReturnType ==
  ASSUME TypeOK, NEW c \in Clients, Return(c)
  PROVE  /\ place' \in [Clients -> Places] /\ object' \in [Clients -> Pipes \cup {Self}]
         /\ local' \in [Clients -> Ends]
BY DEF TypeOK, Return, Places, Ends, Closed

\* The steps of open keep the types.
LEMMA OpenType ==
  ASSUME TypeOK, Kept, NEW c \in Clients,
         \/ \E p \in Pipes : OpenPipe(c, p)
         \/ OpenLock(c) \/ OpenInstall(c) \/ OpenThread(c) \/ OpenJoin(c)
         \/ OpenFails(c) \/ OpenThreadFails(c)
  PROVE  TypeOK'
<1> USE DEF kernel, globals, calls, interrupt, Places, Ends
<1>1. ASSUME NEW p \in Pipes, OpenPipe(c, p) PROVE TypeOK'
  <2>1. PICK r \in Fds, w \in Fds :
           /\ file' = WithPipe(p, r, w)
           /\ local' = [local EXCEPT ![c] = [r |-> r, w |-> w]]
    BY <1>1 DEF OpenPipe
  <2>2. file' \in [Fds -> {Free} \cup ({"r", "w"} \X (Pipes \cup {Self}))]
    BY <2>1, FileType
  <2>3. local' \in [Clients -> Ends] /\ bytes' \in [Pipes \cup {Self} -> 0 .. PipeCapacity]
    BY <1>1, <2>1, SelfPipeAssumption DEF OpenPipe, TypeOK
  <2> QED BY <1>1, <2>2, <2>3 DEF OpenPipe, TypeOK
<1>2. CASE OpenLock(c)
  BY <1>2 DEF OpenLock, Lock, TypeOK
<1>3. CASE OpenInstall(c)
  <2>1. PICK r \in Fds, w \in Fds : file' = WithPipe(Self, r, w) /\ reader' = r /\ writer' = w
    BY <1>3 DEF OpenInstall
  <2>2. file' \in [Fds -> {Free} \cup ({"r", "w"} \X (Pipes \cup {Self}))]
    BY <2>1, FileType
  <2>3. bytes' \in [Pipes \cup {Self} -> 0 .. PipeCapacity]
    BY <1>3, SelfPipeAssumption DEF OpenInstall, TypeOK
  <2> QED BY <1>3, <2>1, <2>2, <2>3 DEF OpenInstall, TypeOK
<1>4. CASE OpenThread(c) \/ OpenJoin(c)
  <2>1. Subscribed(c) /\ local[c] # Closed /\ thread' \in {"none", "read", "lock", "write", "exited"}
    BY <1>4 DEF OpenThread, OpenJoin, Runs, Kept, TypeOK
  <2>2. object[c] \in Pipes /\ local[c].w \in Fds
    BY <2>1 DEF TypeOK, Kept, RefersIn
  <2>3. /\ place' \in [Clients -> Places] /\ object' \in [Clients -> Pipes \cup {Self}]
        /\ local' \in [Clients -> Ends]
    BY <2>1, ReturnType DEF Subscribed
  <2>4. subscribers' \in SUBSET Fds /\ ends' \in [Pipes -> Ends] /\ owner' = None
    BY <2>1, <2>2 DEF Subscribed, TypeOK
  <2> QED BY <1>4, <2>1, <2>3, <2>4 DEF OpenThread, OpenJoin, TypeOK
<1>5. CASE OpenFails(c) \/ OpenThreadFails(c)
  <2>1. Return(c) /\ \E S : file' = Without(S)
    BY <1>5 DEF OpenFails, OpenThreadFails
  <2>2. file' \in [Fds -> {Free} \cup ({"r", "w"} \X (Pipes \cup {Self}))]
    BY <2>1, FileType
  <2>3. /\ place' \in [Clients -> Places] /\ object' \in [Clients -> Pipes \cup {Self}]
        /\ local' \in [Clients -> Ends]
    BY <2>1, ReturnType
  <2> QED BY <1>5, <2>2, <2>3 DEF OpenFails, OpenThreadFails, TypeOK
<1> QED BY <1>1, <1>2, <1>3, <1>4, <1>5

\* The steps of close and read keep the types.
LEMMA CloseType ==
  ASSUME TypeOK, NEW c \in Clients,
         \/ \E p \in Pipes : CloseSwap(c, p) \/ Read(c, p)
         \/ CloseLock(c) \/ CloseErase(c) \/ CloseInvalid(c)
         \/ CloseAction(c) \/ CloseWriter(c) \/ CloseJoin(c) \/ CloseReader(c) \/ CloseEnds(c)
  PROVE  TypeOK'
<1> USE DEF kernel, globals, calls, interrupt, Places, Ends
<1>1. ASSUME NEW p \in Pipes, CloseSwap(c, p) PROVE TypeOK'
  BY <1>1 DEF CloseSwap, TypeOK, Closed
<1>2. ASSUME NEW p \in Pipes, Read(c, p) PROVE TypeOK'
  BY <1>2, SelfPipeAssumption DEF Read, TypeOK
<1>3. CASE CloseLock(c)
  BY <1>3 DEF CloseLock, Lock, TypeOK
<1>4. CASE CloseErase(c)
  BY <1>4 DEF CloseErase, TypeOK
<1>5. CASE CloseInvalid(c) \/ CloseEnds(c)
  <2>1. Return(c) /\ \E S : file' = Without(S)
    BY <1>5 DEF CloseInvalid, CloseEnds
  <2>2. file' \in [Fds -> {Free} \cup ({"r", "w"} \X (Pipes \cup {Self}))]
    BY <2>1, FileType
  <2>3. /\ place' \in [Clients -> Places] /\ object' \in [Clients -> Pipes \cup {Self}]
        /\ local' \in [Clients -> Ends]
    BY <2>1, ReturnType
  <2> QED BY <1>5, <2>2, <2>3 DEF CloseInvalid, CloseEnds, TypeOK
<1>6. CASE CloseAction(c)
  BY <1>6 DEF CloseAction, TypeOK
<1>7. CASE CloseWriter(c) \/ CloseReader(c)
  <2>1. file' \in [Fds -> {Free} \cup ({"r", "w"} \X (Pipes \cup {Self}))]
    BY <1>7, FileType DEF CloseWriter, CloseReader
  <2> QED BY <1>7, <2>1 DEF CloseWriter, CloseReader, TypeOK
<1>8. CASE CloseJoin(c)
  BY <1>8 DEF CloseJoin, TypeOK
<1> QED BY <1>1, <1>2, <1>3, <1>4, <1>5, <1>6, <1>7, <1>8

\* The publisher and the signals keep the types.
LEMMA OtherType ==
  ASSUME TypeOK,
         \/ Publisher \/ ChildEnds \/ Ignored \/ UNCHANGED vars
         \/ \E c \in Clients : Trigger(c)
  PROVE  TypeOK'
<1> USE DEF kernel, globals, calls, interrupt
<1>1. CASE PublisherRead
  BY <1>1, SelfPipeAssumption DEF PublisherRead, TypeOK
<1>2. CASE PublisherEnd \/ PublisherLock \/ PublisherUnlock
  BY <1>2 DEF PublisherEnd, PublisherLock, PublisherUnlock, TypeOK
<1>3. CASE PublisherWrite
  <2>1. PICK f \in round : /\ bytes' = IF file[f][1] = "w" THEN Written(file[f][2]) ELSE bytes
                           /\ round' = round \ {f}
    BY <1>3 DEF PublisherWrite
  <2>2. bytes' \in [Pipes \cup {Self} -> 0 .. PipeCapacity] /\ round' \in SUBSET Fds
    BY <2>1, WrittenType, WriteType DEF TypeOK
  <2> QED BY <1>3, <2>2 DEF PublisherWrite, TypeOK
<1>4. CASE ChildEnds \/ Ignored \/ UNCHANGED vars
  BY <1>4 DEF ChildEnds, Ignored, vars, TypeOK
<1>5. ASSUME NEW c \in Clients, TriggerLoad(c) PROVE TypeOK'
  BY <1>5 DEF TriggerLoad, TypeOK
<1>6. ASSUME NEW c \in Clients, TriggerWrite(c) PROVE TypeOK'
  <2>1. bytes' \in [Pipes \cup {Self} -> 0 .. PipeCapacity]
    <3>1. loaded[c] # NoFd => loaded[c] \in Fds
      BY DEF TypeOK
    <3> QED BY <1>6, <3>1, WrittenType, WriteType DEF TriggerWrite, TypeOK
  <2> QED BY <1>6, <2>1 DEF TriggerWrite, TypeOK
<1> QED BY <1>1, <1>2, <1>3, <1>4, <1>5, <1>6 DEF Publisher, Trigger

----
(* Who keeps which pipe.                                                    *)

\* A descriptor of this process is never the value of a member that has none.
LEMMA NoFdIsNone == NoFd \notin Fds
BY SelfPipeAssumption DEF NoFd

\* A new pipe takes free descriptors, so that kept ones stay what they were.
LEMMA PipeIsNew ==
  ASSUME TypeOK, NEW p \in Pipes \cup {Self}, NEW r \in Fds, NEW w \in Fds, IsPair(r, w),
         file' = WithPipe(p, r, w)
  PROVE  /\ \A f \in Fds : f \notin {r, w} => file'[f] = file[f]
         /\ file'[r] = <<"r", p>> /\ file'[w] = <<"w", p>>
         /\ file[r] = Free /\ file[w] = Free
         /\ \A e, q : RefersIn(file, e, q) => RefersIn(file', e, q)
         /\ RefersIn(file', [r |-> r, w |-> w], p)
<1>1. r # w /\ file[r] = Free /\ file[w] = Free
  BY SelfPipeAssumption DEF IsPair, FreeFds
<1>2. /\ \A f \in Fds : f \notin {r, w} => file'[f] = file[f]
      /\ file'[r] = <<"r", p>> /\ file'[w] = <<"w", p>>
  BY <1>1 DEF TypeOK, WithPipe
<1>3. \A e, q : RefersIn(file, e, q) => RefersIn(file', e, q)
  BY <1>1, <1>2 DEF RefersIn, Free
<1> QED BY <1>1, <1>2, <1>3 DEF RefersIn

\* Closing descriptors leaves the others what they were.
LEMMA OthersStay ==
  ASSUME TypeOK, NEW S, file' = Without(S)
  PROVE  /\ \A e, q :
              RefersIn(file, e, q) /\ (\A f \in Fds : f \in S => file[f][2] # q) => RefersIn(file', e, q)
         /\ \A f \in Fds : file'[f] = IF f \in S THEN Free ELSE file[f]
<1>1. \A f \in Fds : file'[f] = IF f \in S THEN Free ELSE file[f]
  BY DEF Without
<1>2. ASSUME NEW e, NEW q, RefersIn(file, e, q), \A f \in Fds : f \in S => file[f][2] # q
      PROVE  RefersIn(file', e, q)
  <2>1. /\ e \in [r : Fds, w : Fds] /\ file[e.r] = <<"r", q>> /\ file[e.w] = <<"w", q>>
        /\ e.r \in Fds /\ e.w \in Fds
    BY <1>2 DEF RefersIn
  <2>2. file[e.r][2] = q /\ file[e.w][2] = q
    BY <2>1
  <2>3. e.r \notin S /\ e.w \notin S
    BY <1>2, <2>1, <2>2
  <2> QED BY <1>1, <2>1, <2>3 DEF RefersIn
<1> QED BY <1>1, <1>2

\* The descriptors that a call has in its locals are those of its pipe.
LEMMA LocalPipe ==
  ASSUME TypeOK, Kept, NEW c \in Clients
  PROVE  \A f \in Fds : f \in {local[c].r, local[c].w} => file[f][2] = object[c]
<1>1. CASE local[c] = Closed
  BY <1>1, NoFdIsNone DEF Closed
<1>2. CASE local[c] # Closed
  <2>1. file[local[c].r] = <<"r", object[c]>> /\ file[local[c].w] = <<"w", object[c]>>
    BY <1>2 DEF Kept, RefersIn
  <2>2. file[local[c].r][2] = object[c] /\ file[local[c].w][2] = object[c]
    BY <2>1
  <2> QED BY <2>2
<1> QED BY <1>1, <1>2

\* A call that moves on, and what changes no pipe at all.
LEMMA KeptStays ==
  ASSUME TypeOK, Kept, UNCHANGED <<file, object, local, ends>>,
         \A c \in Clients :
           \/ place'[c] = place[c]
           \/ place[c] # "idle" /\ place'[c] # "idle" /\ local[c] # Closed
           \/ place[c] # "idle" /\ place'[c] \in {"close_lock", "close_erase"}
  PROVE  Kept'
BY DEF Kept, RefersIn

\* A call that returns and closes its own descriptors, or gives them to the
\* object, is out of the way of the others.
LEMMA KeptAfterReturn ==
  ASSUME TypeOK, Kept, NEW c \in Clients, Return(c), place[c] # "idle",
         \A e : \A q \in Pipes : q # object[c] /\ RefersIn(file, e, q) => RefersIn(file', e, q),
         \/ UNCHANGED ends
         \/ /\ ends' = [ends EXCEPT ![object[c]] = local[c]]
            /\ local[c] # Closed /\ UNCHANGED file
  PROVE  Kept'
<1>1. /\ place'[c] = "idle" /\ object'[c] = Self /\ local'[c] = Closed
      /\ \A d \in Clients : d # c => place'[d] = place[d] /\ object'[d] = object[d] /\ local'[d] = local[d]
  BY DEF Return, TypeOK
<1>2. object[c] \in Pipes /\ ends[object[c]] = Closed
  BY DEF Kept, TypeOK
<1>3. \A d \in Clients : d # c => object[d] # object[c]
  BY <1>2, SelfPipeAssumption DEF Kept
<1>5. ASSUME NEW p \in Pipes, ends'[p] # Closed PROVE RefersIn(file', ends'[p], p)
  <2>1. CASE UNCHANGED ends
    <3>1. p # object[c] /\ RefersIn(file, ends[p], p)
      BY <1>2, <1>5, <2>1 DEF Kept
    <3> QED BY <2>1, <3>1 DEF RefersIn
  <2>2. CASE ends' = [ends EXCEPT ![object[c]] = local[c]] /\ local[c] # Closed /\ UNCHANGED file
    <3>1. CASE p = object[c]
      BY <1>2, <2>2, <3>1 DEF Kept, TypeOK, RefersIn
    <3>2. CASE p # object[c]
      BY <1>2, <1>5, <2>2, <3>2 DEF Kept, TypeOK, RefersIn
    <3> QED BY <3>1, <3>2
  <2> QED BY <2>1, <2>2
<1>6. ASSUME NEW d \in Clients, d # c PROVE
        /\ object'[d] = Self <=> place'[d] = "idle"
        /\ object'[d] = Self => local'[d] = Closed
        /\ object'[d] # Self => ends'[object'[d]] = Closed
        /\ local'[d] # Closed => RefersIn(file', local'[d], object'[d])
        /\ place'[d] \notin {"idle", "close_lock", "close_erase"} => local'[d] # Closed
  <2>1. object'[d] # Self => ends'[object'[d]] = Closed
    BY <1>1, <1>2, <1>3, <1>6 DEF Kept, TypeOK
  <2>2. local[d] # Closed => RefersIn(file, local[d], object[d]) /\ object[d] \in Pipes /\ object[d] # object[c]
    BY <1>3, <1>6 DEF Kept, TypeOK
  <2>3. local'[d] # Closed => RefersIn(file', local'[d], object'[d])
    BY <1>1, <1>6, <2>2 DEF RefersIn
  <2> QED BY <1>1, <1>6, <2>1, <2>3 DEF Kept
<1>7. \A d, e \in Clients : object'[d] = object'[e] /\ object'[d] # Self => d = e
  BY <1>1 DEF Kept
<1> QED BY <1>1, <1>5, <1>6, <1>7 DEF Kept

\* open keeps every pipe with one owner.
LEMMA KeptOpen ==
  ASSUME IInv, NEW c \in Clients,
         \/ \E p \in Pipes : OpenPipe(c, p)
         \/ OpenLock(c) \/ OpenInstall(c) \/ OpenThread(c) \/ OpenJoin(c)
         \/ OpenFails(c) \/ OpenThreadFails(c)
  PROVE  Kept'
<1> USE DEF IInv, kernel, globals, calls, interrupt, Runs
<1>1. ASSUME NEW p \in Pipes, OpenPipe(c, p) PROVE Kept'
  <2>1. PICK r \in Fds, w \in Fds :
           /\ IsPair(r, w) /\ file' = WithPipe(p, r, w)
           /\ local' = [local EXCEPT ![c] = [r |-> r, w |-> w]]
    BY <1>1 DEF OpenPipe
  <2>2. /\ \A e, q : RefersIn(file, e, q) => RefersIn(file', e, q)
        /\ RefersIn(file', [r |-> r, w |-> w], p)
    BY <2>1, PipeIsNew
  <2>3. /\ place'[c] = "open_lock" /\ object'[c] = p /\ local'[c] = [r |-> r, w |-> w]
        /\ \A d \in Clients : d # c => place'[d] = place[d] /\ object'[d] = object[d] /\ local'[d] = local[d]
        /\ ends' = ends /\ ends[p] = Closed /\ \A d \in Clients : object[d] # p
        /\ object[c] = Self /\ p # Self
    BY <1>1, <2>1, SelfPipeAssumption DEF OpenPipe, TypeOK, Kept
  <2>4. local'[c] # Closed /\ RefersIn(file', local'[c], object'[c])
    BY <2>2, <2>3, NoFdIsNone DEF Closed, RefersIn
  <2>5. ASSUME NEW d \in Clients, d # c, local'[d] # Closed PROVE RefersIn(file', local'[d], object'[d])
    BY <2>2, <2>3, <2>5 DEF Kept
  <2>6. \A q \in Pipes : ends'[q] # Closed => RefersIn(file', ends'[q], q)
    BY <2>2, <2>3 DEF Kept
  <2>7. \A d \in Clients :
          /\ object'[d] = Self <=> place'[d] = "idle"
          /\ object'[d] = Self => local'[d] = Closed
          /\ object'[d] # Self => ends'[object'[d]] = Closed
          /\ place'[d] \notin {"idle", "close_lock", "close_erase"} => local'[d] # Closed
    BY <2>3, <2>4 DEF Kept
  <2>8. \A d, e \in Clients : object'[d] = object'[e] /\ object'[d] # Self => d = e
    BY <2>3 DEF Kept
  <2> QED BY <2>4, <2>5, <2>6, <2>7, <2>8 DEF Kept
<1>2. CASE OpenLock(c)
  BY <1>2, KeptStays DEF OpenLock, Lock, Kept, TypeOK
<1>3. CASE OpenInstall(c)
  <2>1. PICK r \in Fds, w \in Fds : IsPair(r, w) /\ file' = WithPipe(Self, r, w)
    BY <1>3 DEF OpenInstall
  <2>2. \A e, q : RefersIn(file, e, q) => RefersIn(file', e, q)
    BY <2>1, PipeIsNew
  <2>3. /\ UNCHANGED <<object, local, ends>> /\ place[c] = "open_subscribe" /\ place'[c] = "open_thread"
        /\ \A d \in Clients : d # c => place'[d] = place[d]
    BY <1>3 DEF OpenInstall, TypeOK
  <2>4. \A q \in Pipes : ends'[q] # Closed => RefersIn(file', ends'[q], q)
    BY <2>2, <2>3 DEF Kept
  <2>5. \A d \in Clients : local'[d] # Closed => RefersIn(file', local'[d], object'[d])
    BY <2>2, <2>3 DEF Kept
  <2> QED BY <2>3, <2>4, <2>5 DEF Kept
<1>4. CASE OpenThread(c) \/ OpenJoin(c)
  <2>1. /\ Return(c) /\ place[c] \in {"open_thread", "open_subscribe"}
        /\ ends' = [ends EXCEPT ![object[c]] = local[c]] /\ UNCHANGED file
    BY <1>4 DEF OpenThread, OpenJoin, Subscribed
  <2>2. local[c] # Closed
    BY <2>1 DEF Kept
  <2>3. \A e, q : RefersIn(file, e, q) => RefersIn(file', e, q)
    BY <2>1 DEF RefersIn
  <2> QED BY <2>1, <2>2, <2>3, KeptAfterReturn
<1>5. CASE OpenFails(c) \/ OpenThreadFails(c)
  <2>1. /\ Return(c) /\ place[c] \in {"open_thread", "open_subscribe"} /\ UNCHANGED ends
        /\ \/ file' = Without({local[c].r, local[c].w})
           \/ file' = Without({reader, writer, local[c].r, local[c].w})
    BY <1>5 DEF OpenFails, OpenThreadFails
  <2>2. \A f \in Fds : f \in {reader, writer} => file[f][2] = Self
    BY NoFdIsNone DEF Internal
  <2>3. \A f \in Fds : f \in {reader, writer, local[c].r, local[c].w} =>
           file[f][2] \in {object[c], Self}
    BY <2>2, LocalPipe
  <2>4. ASSUME NEW e, NEW q, q \notin {object[c], Self}, RefersIn(file, e, q)
        PROVE  RefersIn(file', e, q)
    <3>1. PICK S \in {{local[c].r, local[c].w}, {reader, writer, local[c].r, local[c].w}} :
             file' = Without(S)
      BY <2>1
    <3>2. \A f \in Fds : f \in S => file[f][2] # q
      BY <2>3, <2>4
    <3> QED BY <2>4, <3>1, <3>2, OthersStay
  <2> QED BY <2>1, <2>4, KeptAfterReturn, SelfPipeAssumption
<1> QED BY <1>1, <1>2, <1>3, <1>4, <1>5

\* close and read keep every pipe with one owner.
LEMMA KeptClose ==
  ASSUME IInv, NEW c \in Clients,
         \/ \E p \in Pipes : CloseSwap(c, p) \/ Read(c, p)
         \/ CloseLock(c) \/ CloseErase(c) \/ CloseInvalid(c)
         \/ CloseAction(c) \/ CloseWriter(c) \/ CloseJoin(c) \/ CloseReader(c) \/ CloseEnds(c)
  PROVE  Kept'
<1> USE DEF IInv, kernel, globals, calls, interrupt, Runs
<1>1. ASSUME NEW p \in Pipes, CloseSwap(c, p) PROVE Kept'
  <2>1. /\ place'[c] = "close_lock" /\ object'[c] = p /\ local'[c] = ends[p] /\ ends'[p] = Closed
        /\ \A d \in Clients : d # c => place'[d] = place[d] /\ object'[d] = object[d] /\ local'[d] = local[d]
        /\ \A q \in Pipes : q # p => ends'[q] = ends[q]
        /\ \A d \in Clients : object[d] # p
        /\ p # Self /\ file' = file
    BY <1>1, SelfPipeAssumption DEF CloseSwap, TypeOK
  <2>3. \A q \in Pipes : ends'[q] # Closed => RefersIn(file, ends'[q], q)
    BY <2>1 DEF Kept
  <2>4. \A d \in Clients : local'[d] # Closed => RefersIn(file, local'[d], object'[d])
    BY <2>1 DEF Kept
  <2>5. \A d \in Clients : object'[d] # Self => ends'[object'[d]] = Closed
    BY <2>1 DEF Kept, TypeOK
  <2>6. \A d \in Clients :
          /\ object'[d] = Self <=> place'[d] = "idle"
          /\ object'[d] = Self => local'[d] = Closed
          /\ place'[d] \notin {"idle", "close_lock", "close_erase"} => local'[d] # Closed
    BY <2>1 DEF Kept
  <2>7. \A d, e \in Clients : object'[d] = object'[e] /\ object'[d] # Self => d = e
    BY <2>1 DEF Kept
  <2> QED BY <2>1, <2>3, <2>4, <2>5, <2>6, <2>7 DEF Kept
<1>2. ASSUME NEW p \in Pipes, Read(c, p) PROVE Kept'
  BY <1>2, KeptStays DEF Read
<1>3. CASE CloseLock(c)
  BY <1>3, KeptStays DEF CloseLock, Lock, TypeOK
<1>4. CASE CloseErase(c)
  <2>1. local[c] # Closed
    BY <1>4, NoFdIsNone DEF CloseErase, TypeOK, Closed
  <2> QED BY <1>4, <2>1, KeptStays DEF CloseErase, TypeOK
<1>5. CASE CloseInvalid(c) \/ CloseEnds(c)
  <2>1. /\ Return(c) /\ place[c] \in {"close_erase", "close_ends"} /\ UNCHANGED ends
        /\ file' = Without({local[c].r, local[c].w})
    BY <1>5 DEF CloseInvalid, CloseEnds
  <2>2. ASSUME NEW e, NEW q \in Pipes, q # object[c], RefersIn(file, e, q)
        PROVE  RefersIn(file', e, q)
    <3>1. \A f \in Fds : f \in {local[c].r, local[c].w} => file[f][2] # q
      BY <2>2, LocalPipe
    <3> QED BY <2>1, <2>2, <3>1, OthersStay
  <2> QED BY <2>1, <2>2, KeptAfterReturn
<1>6. CASE CloseAction(c) \/ CloseJoin(c)
  BY <1>6, KeptStays DEF CloseAction, CloseJoin, TypeOK, Kept
<1>7. CASE CloseWriter(c) \/ CloseReader(c)
  <2>1. /\ UNCHANGED <<object, local, ends>>
        /\ place[c] \in {"close_writer", "close_reader"} /\ place'[c] \in {"close_join", "close_ends"}
        /\ \A d \in Clients : d # c => place'[d] = place[d]
        /\ \E f \in {reader, writer} : file' = Without({f})
    BY <1>7 DEF CloseWriter, CloseReader, TypeOK
  <2>2. \A f \in Fds : f \in {reader, writer} => file[f][2] = Self
    BY NoFdIsNone DEF Internal
  <2>3. ASSUME NEW e, NEW q, q # Self, RefersIn(file, e, q)
        PROVE  RefersIn(file', e, q)
    <3>1. PICK f \in {reader, writer} : file' = Without({f})
      BY <2>1
    <3>2. \A g \in Fds : g \in {f} => file[g][2] # q
      BY <2>2, <2>3
    <3> QED BY <2>3, <3>1, <3>2, OthersStay
  <2>4. \A q \in Pipes : ends'[q] # Closed => RefersIn(file', ends'[q], q)
    <3>1. \A q \in Pipes : ends[q] # Closed => RefersIn(file, ends[q], q) /\ q # Self
      BY SelfPipeAssumption DEF Kept
    <3> QED BY <2>1, <2>3, <3>1
  <2>5. \A d \in Clients : local'[d] # Closed => RefersIn(file', local'[d], object'[d])
    <3>1. \A d \in Clients : local[d] # Closed => RefersIn(file, local[d], object[d]) /\ object[d] # Self
      BY DEF Kept
    <3> QED BY <2>1, <2>3, <3>1
  <2> QED BY <2>1, <2>4, <2>5 DEF Kept
<1> QED BY <1>1, <1>2, <1>3, <1>4, <1>5, <1>6, <1>7

----
(* The internal pipe, and no descriptor besides.                            *)

\* Where a descriptor that is open is known.
Known(f) ==
  \/ f \in {reader, writer}
  \/ \E p \in Pipes : f \in {ends[p].r, ends[p].w}
  \/ \E c \in Clients : f \in {local[c].r, local[c].w}

\* What opens or closes no descriptor and moves none.
LEMMA InternalStays ==
  ASSUME Internal, UNCHANGED <<file, reader, writer, ends, local>>
  PROVE  Internal'
BY DEF Internal, NoLeak

\* A call that closes what its locals have, or gives it to the object, with
\* the internal pipe or without.
LEMMA InternalAfterReturn ==
  ASSUME IInv, NEW c \in Clients, Return(c), place[c] # "idle", NEW S,
         S \cap Fds \subseteq {local[c].r, local[c].w, reader, writer},
         \A f \in Fds : file'[f] = IF f \in S THEN Free ELSE file[f],
         \/ reader \notin S /\ writer \notin S /\ UNCHANGED <<reader, writer>>
         \/ reader \in S /\ writer \in S /\ reader' = NoFd /\ writer' = NoFd,
         \/ UNCHANGED ends /\ {local[c].r, local[c].w} \subseteq S
         \/ ends' = [ends EXCEPT ![object[c]] = local[c]]
  PROVE  Internal'
<1> USE DEF IInv
<1>1. /\ local'[c] = Closed
      /\ \A d \in Clients : d # c => local'[d] = local[d]
  BY DEF Return, TypeOK
<1>2. object[c] \in Pipes /\ ends[object[c]] = Closed
  BY DEF Kept, TypeOK
<1>3. (reader' # NoFd => file'[reader'] = <<"r", Self>>) /\ (writer' # NoFd => file'[writer'] = <<"w", Self>>)
  BY DEF Internal, TypeOK
<1>4. ASSUME NEW f \in Fds, file'[f] # Free PROVE Known(f)'
  <2>1. f \notin S /\ file[f] # Free /\ f # NoFd
    BY <1>4, NoFdIsNone
  <2>2. CASE f \in {reader, writer}
    BY <2>1, <2>2 DEF Known
  <2>3. ASSUME NEW p \in Pipes, f \in {ends[p].r, ends[p].w} PROVE Known(f)'
    <3>1. p # object[c]
      BY <1>2, <2>1, <2>3 DEF Closed
    <3>2. ends'[p] = ends[p]
      BY <1>2, <3>1 DEF TypeOK
    <3> QED BY <2>3, <3>2 DEF Known
  <2>4. ASSUME NEW d \in Clients, f \in {local[d].r, local[d].w} PROVE Known(f)'
    <3>1. CASE d # c
      BY <1>1, <2>4, <3>1 DEF Known
    <3>2. CASE d = c
      <4>1. ends'[object[c]] = local[c]
        BY <1>2, <2>1, <2>4, <3>2 DEF TypeOK
      <4> QED BY <1>2, <2>4, <3>2, <4>1 DEF Known
    <3> QED BY <3>1, <3>2
  <2> QED BY <2>1, <2>2, <2>3, <2>4 DEF Internal, NoLeak
<1> QED BY <1>3, <1>4 DEF Internal, NoLeak, Known

\* Every step leaves the internal pipe what it is and forgets no descriptor.
LEMMA InternalStep ==
  ASSUME IInv, NEW c \in Clients, ClientBegin(c) \/ ClientContinue(c)
  PROVE  Internal'
<1> USE DEF IInv, kernel, globals, calls, interrupt, Runs
<1>1. ASSUME NEW p \in Pipes, OpenPipe(c, p) PROVE Internal'
  <2>1. PICK r \in Fds, w \in Fds :
           /\ IsPair(r, w) /\ file' = WithPipe(p, r, w)
           /\ local' = [local EXCEPT ![c] = [r |-> r, w |-> w]]
    BY <1>1 DEF OpenPipe
  <2>2. /\ \A f \in Fds : f \notin {r, w} => file'[f] = file[f]
        /\ file[r] = Free /\ file[w] = Free
    BY <2>1, PipeIsNew
  <2>3. /\ local[c] = Closed /\ local'[c] = [r |-> r, w |-> w]
        /\ \A d \in Clients : d # c => local'[d] = local[d]
        /\ UNCHANGED <<reader, writer, ends>>
    BY <1>1, <2>1 DEF OpenPipe, TypeOK, Kept
  <2>4. (reader' # NoFd => file'[reader'] = <<"r", Self>>) /\ (writer' # NoFd => file'[writer'] = <<"w", Self>>)
    BY <2>2, <2>3 DEF Internal, TypeOK, Free
  <2>5. ASSUME NEW f \in Fds, file'[f] # Free PROVE Known(f)'
    <3>1. CASE f \in {r, w}
      BY <2>3, <3>1 DEF Known
    <3>2. CASE f \notin {r, w}
      <4>1. file[f] # Free /\ f # NoFd
        BY <2>2, <2>5, <3>2, NoFdIsNone
      <4>2. \A d \in Clients : f \in {local[d].r, local[d].w} => local'[d] = local[d]
        BY <2>3, <4>1 DEF Closed
      <4> QED BY <2>3, <4>1, <4>2 DEF Internal, NoLeak, Known
    <3> QED BY <3>1, <3>2
  <2> QED BY <2>4, <2>5 DEF Internal, NoLeak, Known
<1>2. ASSUME NEW p \in Pipes, CloseSwap(c, p) PROVE Internal'
  <2>1. /\ local[c] = Closed /\ local'[c] = ends[p]
        /\ \A d \in Clients : d # c => local'[d] = local[d]
        /\ \A q \in Pipes : q # p => ends'[q] = ends[q]
        /\ UNCHANGED <<file, reader, writer>>
    BY <1>2 DEF CloseSwap, TypeOK, Kept
  <2>2. ASSUME NEW f \in Fds, file[f] # Free PROVE Known(f)'
    <3>1. \A d \in Clients : f \in {local[d].r, local[d].w} => local'[d] = local[d]
      BY <2>1, NoFdIsNone DEF Closed
    <3> QED BY <2>1, <2>2, <3>1 DEF Internal, NoLeak, Known
  <2> QED BY <2>1, <2>2 DEF Internal, NoLeak, Known
<1>3. ASSUME NEW p \in Pipes, Read(c, p) PROVE Internal'
  BY <1>3, InternalStays DEF Read
<1>4. CASE OpenLock(c) \/ CloseLock(c) \/ CloseErase(c) \/ CloseAction(c) \/ CloseJoin(c)
  BY <1>4, InternalStays DEF OpenLock, CloseLock, Lock, CloseErase, CloseAction, CloseJoin
<1>5. CASE OpenInstall(c)
  <2>1. PICK r \in Fds, w \in Fds : /\ IsPair(r, w) /\ file' = WithPipe(Self, r, w)
                                    /\ reader' = r /\ writer' = w
    BY <1>5 DEF OpenInstall
  <2>2. /\ \A f \in Fds : f \notin {r, w} => file'[f] = file[f]
        /\ file'[r] = <<"r", Self>> /\ file'[w] = <<"w", Self>>
    BY <2>1, PipeIsNew
  <2>3. reader = NoFd /\ writer = NoFd /\ UNCHANGED <<ends, local>>
    BY <1>5 DEF OpenInstall, Stages, Steady, Running, NoInternal
  <2>4. ASSUME NEW f \in Fds, file'[f] # Free PROVE Known(f)'
    BY <2>1, <2>2, <2>3, <2>4, NoFdIsNone DEF Internal, NoLeak, Known
  <2> QED BY <2>1, <2>2, <2>4 DEF Internal, NoLeak, Known
<1>6. \A f \in Fds : f \in {reader, writer} => f \notin {local[c].r, local[c].w} \/ place[c] = "idle"
  <2>1. \A f \in Fds : f \in {reader, writer} => file[f][2] = Self
    BY NoFdIsNone DEF Internal
  <2> QED BY <2>1, LocalPipe DEF Kept
<1>7. CASE OpenThread(c) \/ OpenJoin(c)
  <2>1. /\ Return(c) /\ place[c] # "idle" /\ UNCHANGED <<file, reader, writer>>
        /\ ends' = [ends EXCEPT ![object[c]] = local[c]]
    BY <1>7 DEF OpenThread, OpenJoin, Subscribed
  <2> DEFINE S == {}
  <2>2. /\ S \cap Fds \subseteq {local[c].r, local[c].w, reader, writer}
        /\ reader \notin S /\ writer \notin S
        /\ \A f \in Fds : file'[f] = IF f \in S THEN Free ELSE file[f]
    BY <2>1
  <2> HIDE DEF S
  <2> QED BY <2>1, <2>2, InternalAfterReturn
<1>8. CASE OpenFails(c) \/ CloseInvalid(c) \/ CloseEnds(c)
  <2> DEFINE S == {local[c].r, local[c].w} \cap Fds
  <2>1. /\ Return(c) /\ place[c] # "idle" /\ UNCHANGED <<ends, reader, writer>>
        /\ file' = Without({local[c].r, local[c].w})
    BY <1>8 DEF OpenFails, CloseInvalid, CloseEnds
  <2>2. \A f \in Fds : file'[f] = IF f \in {local[c].r, local[c].w} THEN Free ELSE file[f]
    BY <2>1, OthersStay
  <2>3. \A f \in Fds : file'[f] = IF f \in S THEN Free ELSE file[f]
    BY <2>2
  <2>4. CASE local[c] = Closed
    <3>1. \A f \in Fds : file'[f] = file[f]
      BY <2>2, <2>4, NoFdIsNone DEF Closed
    <3>2. \A d \in Clients : local'[d] = local[d]
      BY <2>1, <2>4 DEF Return, TypeOK
    <3> QED BY <2>1, <3>1, <3>2 DEF Internal, NoLeak, TypeOK
  <2>5. CASE local[c] # Closed
    <3>1. {local[c].r, local[c].w} \subseteq S
      BY <2>5 DEF Kept, RefersIn
    <3>2. reader \notin S /\ writer \notin S
      BY <1>6, <2>1
    <3> HIDE DEF S
    <3> QED BY <2>1, <2>3, <3>1, <3>2, InternalAfterReturn DEF S
  <2> QED BY <2>4, <2>5
<1>9. CASE OpenThreadFails(c)
  <2> DEFINE S == {reader, writer, local[c].r, local[c].w}
  <2>1. /\ Return(c) /\ place[c] # "idle" /\ UNCHANGED ends
        /\ reader' = NoFd /\ writer' = NoFd /\ file' = Without(S)
    BY <1>9 DEF OpenThreadFails
  <2>2. \A f \in Fds : file'[f] = IF f \in S THEN Free ELSE file[f]
    BY <2>1, OthersStay
  <2> QED BY <2>1, <2>2, InternalAfterReturn
<1>10. CASE CloseWriter(c) \/ CloseReader(c)
  <2>1. /\ UNCHANGED <<ends, local>>
        /\ \/ file' = Without({writer}) /\ writer' = NoFd /\ UNCHANGED reader
           \/ file' = Without({reader}) /\ reader' = NoFd /\ UNCHANGED writer /\ writer = NoFd
    BY <1>10 DEF CloseWriter, CloseReader, Stages
  <2>2. CASE file' = Without({writer}) /\ writer' = NoFd /\ UNCHANGED reader
    <3>1. \A f \in Fds : file'[f] = IF f \in {writer} THEN Free ELSE file[f]
      BY <2>2, OthersStay
    <3>2. reader # NoFd => reader # writer /\ file'[reader] = <<"r", Self>>
      BY <3>1 DEF Internal, TypeOK
    <3> QED BY <2>1, <2>2, <3>1, <3>2 DEF Internal, NoLeak
  <2>3. CASE file' = Without({reader}) /\ reader' = NoFd /\ UNCHANGED writer /\ writer = NoFd
    <3>1. \A f \in Fds : file'[f] = IF f \in {reader} THEN Free ELSE file[f]
      BY <2>3, OthersStay
    <3> QED BY <2>1, <2>3, <3>1 DEF Internal, NoLeak
  <2> QED BY <2>1, <2>2, <2>3
<1> QED
  BY <1>1, <1>2, <1>3, <1>4, <1>5, <1>7, <1>8, <1>9, <1>10 DEF ClientBegin, ClientContinue

----
(* The mutex and what is done under it.                                     *)

\* No call enters or leaves the critical section but by the mutex.
LEMMA LockedStep ==
  ASSUME IInv, NEW c \in Clients, ClientBegin(c) \/ ClientContinue(c)
  PROVE  Locked' /\ \A d \in Clients : d # c => place'[d] = place[d]
<1> USE DEF IInv, calls, Runs, Locked, LockedPlaces, TypeOK
<1>n. c # None
  BY SelfPipeAssumption
<1>1. ASSUME NEW p \in Pipes, OpenPipe(c, p) \/ CloseSwap(c, p) \/ Read(c, p)
      PROVE  Locked' /\ \A d \in Clients : d # c => place'[d] = place[d]
  BY <1>1 DEF OpenPipe, CloseSwap, Read
<1>2. CASE OpenLock(c) \/ CloseLock(c)
  <2>1. /\ owner = None /\ owner' = c
        /\ \E to \in {"open_subscribe", "close_erase"} : place' = [place EXCEPT ![c] = to]
    BY <1>2 DEF OpenLock, CloseLock, Lock
  <2>2. place'[c] \in LockedPlaces /\ \A d \in Clients : d # c => place'[d] = place[d]
    BY <2>1
  <2>3. \A d \in Clients : place[d] \notin LockedPlaces
    BY <2>1, SelfPipeAssumption
  <2> QED BY <2>1, <2>2, <2>3
<1>3. CASE OpenInstall(c) \/ CloseAction(c) \/ CloseWriter(c) \/ CloseJoin(c)
  BY <1>3, <1>n DEF OpenInstall, CloseAction, CloseWriter, CloseJoin
<1>4. CASE OpenThread(c) \/ OpenJoin(c) \/ OpenFails(c) \/ OpenThreadFails(c) \/ CloseInvalid(c)
  <2>1. Return(c) /\ owner' = None /\ owner = c
    BY <1>4 DEF OpenThread, OpenJoin, OpenFails, OpenThreadFails, CloseInvalid, Subscribed
  <2> QED BY <2>1, SelfPipeAssumption DEF Return
<1>5. CASE CloseReader(c)
  BY <1>5, SelfPipeAssumption DEF CloseReader
<1>6. CASE CloseErase(c)
  <2>1. CASE subscribers' = {}
    BY <1>6, <2>1, <1>n DEF CloseErase
  <2>2. CASE subscribers' # {}
    BY <1>6, <2>2, SelfPipeAssumption DEF CloseErase
  <2> QED BY <2>1, <2>2
<1>7. CASE CloseEnds(c)
  BY <1>7 DEF CloseEnds, Return
<1> QED
  BY <1>1, <1>2, <1>3, <1>4, <1>5, <1>6, <1>7 DEF ClientBegin, ClientContinue

\* A step that leaves the globals, the handler and the critical section alone.
LEMMA StagesStay ==
  ASSUME Stages, UNCHANGED <<subscribers, thread, installed, reader, writer, owner>>,
         \A c \in Clients : place'[c] = place[c] \/ place'[c] \notin LockedPlaces
  PROVE  Stages'
BY DEF Stages, Steady, Running, NoInternal, LockedPlaces

\* The first open sets everything up and the last close undoes it, in stages.
LEMMA StagesStep ==
  ASSUME IInv, NEW c \in Clients, ClientBegin(c) \/ ClientContinue(c), Locked',
         \A d \in Clients : d # c => place'[d] = place[d]
  PROVE  Stages'
<1> USE DEF IInv, kernel, globals, calls, interrupt, Runs
<1>n. c # None
  BY SelfPipeAssumption
<1>o. \A d \in Clients : place'[d] \in LockedPlaces => owner' = d
  BY DEF Locked
<1>l. place[c] \in LockedPlaces => owner = c
  BY DEF Locked
<1>1. ASSUME NEW p \in Pipes, OpenPipe(c, p) \/ CloseSwap(c, p) \/ Read(c, p) PROVE Stages'
  BY <1>1, StagesStay DEF OpenPipe, CloseSwap, Read, TypeOK, LockedPlaces
<1>2. CASE CloseEnds(c)
  BY <1>2, StagesStay DEF CloseEnds, Return, TypeOK, LockedPlaces
<1>3. CASE OpenLock(c) \/ CloseLock(c)
  <2>1. /\ owner = None /\ owner' = c /\ place'[c] \in {"open_subscribe", "close_erase"}
        /\ UNCHANGED <<subscribers, thread, installed, reader, writer>>
    BY <1>3 DEF OpenLock, CloseLock, Lock, TypeOK
  <2>2. Steady'
    BY <2>1 DEF Stages, Steady, Running, NoInternal
  <2> QED BY <1>n, <1>o, <2>1, <2>2 DEF Stages, LockedPlaces
<1>4. CASE OpenInstall(c)
  <2>1. /\ place[c] = "open_subscribe" /\ place'[c] = "open_thread" /\ thread = "none"
        /\ reader' \in Fds /\ writer' \in Fds /\ installed' = TRUE
        /\ UNCHANGED <<subscribers, thread, owner>>
    BY <1>4 DEF OpenInstall, TypeOK
  <2>2. subscribers = {} /\ owner = c
    BY <1>l, <2>1 DEF Stages, Steady, Running, LockedPlaces
  <2> QED BY <1>n, <1>o, <2>1, <2>2, NoFdIsNone DEF Stages, LockedPlaces
<1>5. CASE OpenThread(c)
  <2>1. /\ place[c] = "open_thread" /\ place'[c] = "idle" /\ thread' = "read" /\ owner' = None
        /\ subscribers' # {} /\ UNCHANGED <<installed, reader, writer>>
    BY <1>5 DEF OpenThread, Subscribed, Return, TypeOK
  <2>2. Steady'
    BY <2>1 DEF Stages, Steady, Running
  <2> QED BY <1>o, <2>1, <2>2, SelfPipeAssumption DEF Stages, LockedPlaces
<1>6. CASE OpenJoin(c)
  <2>1. /\ place[c] = "open_subscribe" /\ thread # "none" /\ place'[c] = "idle" /\ owner' = None
        /\ subscribers' # {} /\ UNCHANGED <<installed, reader, writer, thread>>
    BY <1>6 DEF OpenJoin, Subscribed, Return, TypeOK
  <2>2. Steady'
    BY <2>1 DEF Stages, Steady, Running
  <2> QED BY <1>o, <2>1, <2>2, SelfPipeAssumption DEF Stages, LockedPlaces
<1>7. CASE OpenFails(c) \/ CloseInvalid(c)
  <2>1. /\ place[c] \in {"open_subscribe", "close_erase"} /\ place'[c] = "idle" /\ owner' = None
        /\ UNCHANGED <<subscribers, installed, reader, writer, thread>>
    BY <1>7 DEF OpenFails, CloseInvalid, Return, TypeOK
  <2>2. Steady'
    BY <2>1 DEF Stages, Steady, Running, NoInternal
  <2> QED BY <1>o, <2>1, <2>2, SelfPipeAssumption DEF Stages, LockedPlaces
<1>8. CASE OpenThreadFails(c)
  <2>1. /\ place[c] = "open_thread" /\ place'[c] = "idle" /\ owner' = None
        /\ reader' = NoFd /\ writer' = NoFd /\ installed' = FALSE /\ UNCHANGED <<subscribers, thread>>
    BY <1>8 DEF OpenThreadFails, Return, TypeOK
  <2>2. Steady'
    BY <2>1 DEF Stages, Steady, NoInternal
  <2> QED BY <1>o, <2>1, <2>2, SelfPipeAssumption DEF Stages, LockedPlaces
<1>9. CASE CloseErase(c)
  <2>1. /\ place[c] = "close_erase" /\ local[c].w \in subscribers
        /\ subscribers' = subscribers \ {local[c].w}
        /\ UNCHANGED <<installed, reader, writer, thread>>
    BY <1>9 DEF CloseErase
  <2>2. Running /\ installed /\ reader # NoFd /\ writer # NoFd
    BY <2>1 DEF Stages, Steady
  <2>3. CASE subscribers' = {}
    <3>1. place'[c] = "close_action" /\ owner' = c
      BY <1>9, <1>l, <2>3 DEF CloseErase, TypeOK, LockedPlaces
    <3> QED BY <1>n, <1>o, <2>1, <2>2, <2>3, <3>1 DEF Stages, LockedPlaces, Running
  <2>4. CASE subscribers' # {}
    <3>1. place'[c] = "close_ends" /\ owner' = None
      BY <1>9, <2>4 DEF CloseErase, TypeOK
    <3> QED BY <1>o, <2>1, <2>2, <2>4, <3>1, SelfPipeAssumption DEF Stages, Steady, LockedPlaces, Running
  <2> QED BY <2>3, <2>4
<1>10. CASE CloseAction(c)
  <2>1. /\ place[c] = "close_action" /\ place'[c] = "close_writer" /\ installed' = FALSE
        /\ UNCHANGED <<subscribers, reader, writer, thread, owner>>
    BY <1>10 DEF CloseAction, TypeOK
  <2> QED BY <1>n, <1>o, <2>1 DEF Stages, LockedPlaces, Running
<1>11. CASE CloseWriter(c)
  <2>1. /\ place[c] = "close_writer" /\ place'[c] = "close_join" /\ writer' = NoFd
        /\ UNCHANGED <<subscribers, reader, installed, thread, owner>>
    BY <1>11 DEF CloseWriter, TypeOK
  <2> QED BY <1>n, <1>o, <2>1 DEF Stages, LockedPlaces, Running
<1>12. CASE CloseJoin(c)
  <2>1. /\ place[c] = "close_join" /\ place'[c] = "close_reader" /\ thread' = "none"
        /\ UNCHANGED <<subscribers, reader, installed, writer, owner>>
    BY <1>12 DEF CloseJoin, TypeOK
  <2> QED BY <1>n, <1>o, <2>1 DEF Stages, LockedPlaces, Running
<1>13. CASE CloseReader(c)
  <2>1. /\ place[c] = "close_reader" /\ place'[c] = "close_ends" /\ reader' = NoFd /\ owner' = None
        /\ UNCHANGED <<subscribers, writer, installed, thread>>
    BY <1>13 DEF CloseReader, TypeOK
  <2>2. Steady'
    BY <2>1 DEF Stages, Steady, NoInternal
  <2> QED BY <1>o, <2>1, <2>2, SelfPipeAssumption DEF Stages, LockedPlaces
<1> QED
  BY <1>1, <1>2, <1>3, <1>4, <1>5, <1>6, <1>7, <1>8, <1>9, <1>10, <1>11, <1>12, <1>13
     DEF ClientBegin, ClientContinue

----
(* The set of subscribers.                                                  *)

LeavingPlaces == {"close_lock", "close_erase"}

\* A call outside the close of a subscriber changes nothing of it.
LEMMA SubscriptionsStay ==
  ASSUME Subscriptions, NEW c \in Clients, UNCHANGED <<subscribers, ends>>,
         \A d \in Clients : d # c => place'[d] = place[d] /\ local'[d] = local[d],
         \/ place[c] \notin LeavingPlaces /\ place'[c] \notin LeavingPlaces
         \/ place[c] \in LeavingPlaces /\ place'[c] \in LeavingPlaces /\ local'[c] = local[c]
  PROVE  Subscriptions'
<1>1. \A f : Subscriber(f)' <=> Subscriber(f)
  BY DEF Subscriber, Leaving, LeavingPlaces
<1> QED BY <1>1 DEF Subscriptions

\* Two pairs that refer to different pipes have no descriptor in common.
LEMMA OwnWriter ==
  ASSUME NEW e, NEW g, NEW p, NEW q, p # q, RefersIn(file, e, p), RefersIn(file, g, q)
  PROVE  e.w # g.w
<1>1. file[e.w] = <<"w", p>> /\ file[g.w] = <<"w", q>>
  BY DEF RefersIn
<1>2. file[e.w][2] = p /\ file[g.w][2] = q
  BY <1>1
<1> QED BY <1>2

\* An object is in the set from the end of its open to the erase of its close.
LEMMA SubscriptionsStep ==
  ASSUME IInv, NEW c \in Clients, ClientBegin(c) \/ ClientContinue(c),
         \A d \in Clients : d # c => place'[d] = place[d]
  PROVE  Subscriptions'
<1> USE DEF IInv, kernel, globals, calls, interrupt, Runs, LeavingPlaces
<1>1. ASSUME NEW p \in Pipes, OpenPipe(c, p) PROVE Subscriptions'
  BY <1>1, SubscriptionsStay DEF OpenPipe, TypeOK
<1>2. ASSUME NEW p \in Pipes, Read(c, p) PROVE Subscriptions'
  BY <1>2, SubscriptionsStay DEF Read
<1>3. CASE OpenLock(c) \/ OpenInstall(c) \/ CloseAction(c) \/ CloseWriter(c) \/ CloseJoin(c) \/ CloseReader(c)
  <2>1. /\ place[c] \notin LeavingPlaces /\ place'[c] \notin LeavingPlaces
        /\ UNCHANGED <<subscribers, ends, local>>
    BY <1>3 DEF OpenLock, Lock, OpenInstall, CloseAction, CloseWriter, CloseJoin, CloseReader, TypeOK
  <2> QED BY <2>1, SubscriptionsStay
<1>4. CASE CloseLock(c)
  BY <1>4, SubscriptionsStay DEF CloseLock, Lock, TypeOK
<1>5. CASE OpenFails(c) \/ OpenThreadFails(c) \/ CloseEnds(c)
  <2>1. Return(c) /\ place[c] \notin LeavingPlaces /\ UNCHANGED <<subscribers, ends>>
    BY <1>5 DEF OpenFails, OpenThreadFails, CloseEnds
  <2> QED BY <2>1, SubscriptionsStay DEF Return, TypeOK
<1>6. CASE OpenThread(c) \/ OpenJoin(c)
  <2>1. /\ Return(c) /\ place[c] \notin LeavingPlaces /\ local[c] # Closed
        /\ subscribers' = subscribers \cup {local[c].w}
        /\ ends' = [ends EXCEPT ![object[c]] = local[c]]
    BY <1>6 DEF OpenThread, OpenJoin, Subscribed, Kept
  <2>2. /\ place'[c] \notin LeavingPlaces /\ object[c] \in Pipes /\ ends[object[c]] = Closed
        /\ \A d \in Clients : d # c => local'[d] = local[d]
        /\ ends'[object[c]] = local[c] /\ \A p \in Pipes : p # object[c] => ends'[p] = ends[p]
    BY <2>1 DEF Return, TypeOK, Kept
  <2>3. \A f : Subscriber(f)' <=> Subscriber(f) \/ f = local[c].w
    BY <2>1, <2>2 DEF Subscriber, Leaving
  <2> QED BY <2>1, <2>3 DEF Subscriptions
<1>7. ASSUME NEW p \in Pipes, CloseSwap(c, p) PROVE Subscriptions'
  <2>1. /\ local'[c] = ends[p] /\ place'[c] = "close_lock" /\ place[c] = "idle"
        /\ \A d \in Clients : d # c => local'[d] = local[d]
        /\ ends'[p] = Closed /\ \A q \in Pipes : q # p => ends'[q] = ends[q]
        /\ UNCHANGED subscribers
    BY <1>7 DEF CloseSwap, TypeOK
  <2>2. \A f : Subscriber(f)' <=> Subscriber(f)
    BY <2>1 DEF Subscriber, Leaving
  <2> QED BY <2>1, <2>2 DEF Subscriptions
<1>8. CASE CloseErase(c)
  <2>1. /\ place[c] = "close_erase" /\ place'[c] \notin LeavingPlaces
        /\ local[c].w \in subscribers /\ subscribers' = subscribers \ {local[c].w}
        /\ UNCHANGED <<ends, local>>
    BY <1>8 DEF CloseErase, TypeOK
  <2>2. /\ local[c] # Closed /\ object[c] # Self /\ RefersIn(file, local[c], object[c])
        /\ ends[object[c]] = Closed
    BY <2>1, NoFdIsNone DEF TypeOK, Kept, Closed
  <2>3. \A p \in Pipes : ends[p] # Closed => ends[p].w # local[c].w
    BY <2>2, OwnWriter DEF Kept
  <2>4. \A d \in Clients : d # c /\ local[d] # Closed => local[d].w # local[c].w
    BY <2>2, OwnWriter DEF Kept
  <2>5. \A f : Subscriber(f)' <=> Subscriber(f) /\ f # local[c].w
    BY <2>1, <2>2, <2>3, <2>4 DEF Subscriber, Leaving
  <2> QED BY <2>1, <2>5 DEF Subscriptions
<1>9. CASE CloseInvalid(c)
  <2>1. /\ Return(c) /\ place[c] = "close_erase" /\ local[c].w \notin subscribers
        /\ UNCHANGED <<subscribers, ends>>
    BY <1>9 DEF CloseInvalid
  <2>2. local[c] = Closed
    <3>1. local[c] # Closed => local[c].w \in Fds /\ Subscriber(local[c].w)
      BY <2>1 DEF Kept, RefersIn, Subscriber, Leaving
    <3> QED BY <2>1, <3>1 DEF Subscriptions
  <2>3. place'[c] \notin LeavingPlaces /\ \A d \in Clients : d # c => local'[d] = local[d]
    BY <2>1 DEF Return, TypeOK
  <2>4. \A f : Subscriber(f)' <=> Subscriber(f)
    BY <2>1, <2>2, <2>3 DEF Subscriber, Leaving
  <2> QED BY <2>1, <2>4 DEF Subscriptions
<1> QED
  BY <1>1, <1>2, <1>3, <1>4, <1>5, <1>6, <1>7, <1>8, <1>9 DEF ClientBegin, ClientContinue

\* No call changes the set under the publisher.
LEMMA RoundsStep ==
  ASSUME IInv, NEW c \in Clients, ClientBegin(c) \/ ClientContinue(c)
  PROVE  Rounds'
<1> USE DEF IInv, kernel, globals, calls, interrupt, Runs, Rounds
<1>1. ASSUME NEW p \in Pipes, OpenPipe(c, p) \/ CloseSwap(c, p) \/ Read(c, p) PROVE Rounds'
  BY <1>1 DEF OpenPipe, CloseSwap, Read
<1>2. CASE OpenLock(c) \/ CloseLock(c)
  BY <1>2 DEF OpenLock, CloseLock, Lock
<1>3. CASE OpenInstall(c) \/ OpenFails(c) \/ OpenThreadFails(c) \/ CloseInvalid(c) \/ CloseAction(c)
           \/ CloseWriter(c) \/ CloseReader(c) \/ CloseEnds(c)
  BY <1>3 DEF OpenInstall, OpenFails, OpenThreadFails, CloseInvalid, CloseAction, CloseWriter,
              CloseReader, CloseEnds
<1>4. CASE OpenThread(c)
  BY <1>4 DEF OpenThread, Stages
<1>5. CASE OpenJoin(c)
  BY <1>5 DEF OpenJoin
<1>6. CASE CloseErase(c)
  BY <1>6 DEF CloseErase
<1>7. CASE CloseJoin(c)
  BY <1>7 DEF CloseJoin
<1> QED
  BY <1>1, <1>2, <1>3, <1>4, <1>5, <1>6, <1>7 DEF ClientBegin, ClientContinue

----
(* The publisher and the signals.                                           *)

\* The publisher ends only when the writing end of the internal pipe is
\* closed, which the last close has done.
LEMMA PublisherInvariant == IInv /\ Publisher => IInv'
<1> SUFFICES ASSUME IInv, Publisher PROVE IInv'
  OBVIOUS
<1> USE DEF IInv, kernel, globals, calls, interrupt
<1>1. TypeOK'
  BY OtherType
<1>2. /\ UNCHANGED <<file, installed, reader, writer, subscribers, owner, place, object, local, ends>>
  BY DEF Publisher, PublisherRead, PublisherEnd, PublisherLock, PublisherWrite, PublisherUnlock
<1>3. Kept' /\ Locked' /\ Internal'
  BY <1>2, KeptStays, InternalStays DEF Locked
<1>4. Subscriptions'
  <2>1. \A f : Subscriber(f)' <=> Subscriber(f)
    BY <1>2 DEF Subscriber, Leaving
  <2> QED BY <1>2, <2>1 DEF Subscriptions
<1>5. Running /\ (Running' \/ (thread' = "exited" /\ writer = NoFd))
  <2>1. CASE PublisherEnd
    <3>1. writer # NoFd => writer \in Fds /\ file[writer] = <<"w", Self>>
      BY DEF TypeOK, Internal
    <3> QED BY <2>1, <3>1 DEF PublisherEnd, Running
  <2>2. CASE PublisherRead \/ PublisherLock \/ PublisherWrite \/ PublisherUnlock
    BY <2>2 DEF PublisherRead, PublisherLock, PublisherWrite, PublisherUnlock, Running
  <2> QED BY <2>1, <2>2 DEF Publisher
<1>6. Stages'
  BY <1>2, <1>5 DEF Stages, Steady, Running, NoInternal
<1>7. Rounds'
  BY DEF Rounds, Publisher, PublisherRead, PublisherEnd, PublisherLock, PublisherWrite, PublisherUnlock
<1> QED BY <1>1, <1>3, <1>4, <1>6, <1>7

\* Signals and the handler touch no descriptor.
LEMMA SignalInvariant ==
  ASSUME IInv, ChildEnds \/ Ignored \/ (\E c \in Clients : Trigger(c)) \/ UNCHANGED vars
  PROVE  IInv'
<1> USE DEF IInv, kernel, globals, calls, interrupt
<1>1. TypeOK'
  BY OtherType
<1>2. UNCHANGED <<file, installed, reader, writer, subscribers, thread, round, owner, place, object, local, ends>>
  BY DEF ChildEnds, Ignored, Trigger, TriggerLoad, TriggerWrite, vars
<1>3. Kept' /\ Locked' /\ Internal' /\ Rounds'
  BY <1>2, KeptStays, InternalStays DEF Locked, Rounds
<1>4. Subscriptions'
  <2>1. \A f : Subscriber(f)' <=> Subscriber(f)
    BY <1>2 DEF Subscriber, Leaving
  <2> QED BY <1>2, <2>1 DEF Subscriptions
<1>5. Stages'
  BY <1>2, StagesStay
<1> QED BY <1>1, <1>3, <1>4, <1>5

----
(* The theorems.                                                            *)

\* Nothing is open, nobody is inside a call.
LEMMA InitInvariant == Init => IInv
<1> SUFFICES ASSUME Init PROVE IInv
  OBVIOUS
<1>1. TypeOK
  <2>1. /\ file \in [Fds -> {Free} \cup ({"r", "w"} \X (Pipes \cup {Self}))]
        /\ bytes \in [Pipes \cup {Self} -> 0 .. PipeCapacity]
    BY SelfPipeAssumption DEF Init
  <2>2. Closed \in Ends
    BY DEF Closed, Ends
  <2>3. /\ place \in [Clients -> Places] /\ object \in [Clients -> Pipes \cup {Self}]
        /\ local \in [Clients -> Ends] /\ ends \in [Pipes -> Ends]
        /\ handler \in [Clients -> BOOLEAN] /\ loaded \in [Clients -> Fds \cup {NoFd}]
    BY <2>2 DEF Init, Places
  <2> QED BY <2>1, <2>3 DEF Init, TypeOK
<1>2. Kept /\ Internal /\ Locked
  BY SelfPipeAssumption DEF Init, Kept, Internal, NoLeak, Locked, LockedPlaces
<1>3. Stages /\ Rounds
  BY DEF Init, Stages, Steady, NoInternal, Rounds
<1>4. Subscriptions
  BY DEF Init, Subscriptions, Subscriber, Leaving
<1> QED BY <1>1, <1>2, <1>3, <1>4 DEF IInv

\* Calls of open and close, whatever the other threads are doing.
LEMMA CallInvariant ==
  ASSUME IInv, NEW c \in Clients, ClientBegin(c) \/ ClientContinue(c)
  PROVE  IInv'
<1>1. TypeOK'
  BY OpenType, CloseType DEF IInv, ClientBegin, ClientContinue
<1>2. Kept'
  BY KeptOpen, KeptClose DEF ClientBegin, ClientContinue
<1>3. Locked' /\ \A d \in Clients : d # c => place'[d] = place[d]
  BY LockedStep
<1>4. Internal' /\ Stages' /\ Subscriptions' /\ Rounds'
  BY <1>3, InternalStep, StagesStep, SubscriptionsStep, RoundsStep
<1> QED BY <1>1, <1>2, <1>3, <1>4 DEF IInv

\* Descriptors, mutex and subscribers agree in every reachable state.
THEOREM Invariance == Spec => []IInv
<1>1. Init => IInv
  BY InitInvariant
<1>2. IInv /\ [Next]_vars => IInv'
  BY CallInvariant, PublisherInvariant, SignalInvariant DEF Next
<1> QED BY <1>1, <1>2, PTL DEF Spec

\* Every variable keeps its type.
THEOREM TypeCorrect == Spec => []TypeOK
<1>1. IInv => TypeOK
  BY DEF IInv
<1> QED BY <1>1, Invariance, PTL

\* The element of the set that an object or a call stands for.
LEMMA SubscriberRefers ==
  ASSUME IInv, NEW f \in subscribers
  PROVE  /\ f \in Fds /\ \E p \in Pipes : file[f] = <<"w", p>>
         /\ \A c \in Clients : place[c] \in {"open_lock", "open_subscribe", "open_thread"} => local[c].w # f
<1> USE DEF IInv
<1>1. f \in Fds /\ Subscriber(f)
  BY DEF TypeOK, Subscriptions
<1>2. ASSUME NEW e, NEW p \in Pipes, RefersIn(file, e, p), e.w = f,
             \A c \in Clients : place[c] \notin {"idle", "close_lock", "close_erase"} => object[c] # p
      PROVE  /\ \E q \in Pipes : file[f] = <<"w", q>>
             /\ \A c \in Clients : place[c] \in {"open_lock", "open_subscribe", "open_thread"} => local[c].w # f
  <2>1. \E q \in Pipes : file[f] = <<"w", q>>
    BY <1>2 DEF RefersIn
  <2>2. \A c \in Clients : place[c] \in {"open_lock", "open_subscribe", "open_thread"} =>
           RefersIn(file, local[c], object[c]) /\ object[c] # p
    BY <1>2 DEF Kept
  <2> QED BY <1>2, <2>1, <2>2, OwnWriter
<1>3. ASSUME NEW p \in Pipes, ends[p] # Closed, ends[p].w = f
      PROVE  /\ RefersIn(file, ends[p], p)
             /\ \A c \in Clients : place[c] \notin {"idle", "close_lock", "close_erase"} => object[c] # p
  BY <1>3 DEF Kept
<1>4. ASSUME NEW d \in Leaving, local[d] # Closed, local[d].w = f
      PROVE  /\ object[d] \in Pipes /\ RefersIn(file, local[d], object[d])
             /\ \A c \in Clients : place[c] \notin {"idle", "close_lock", "close_erase"} => object[c] # object[d]
  BY <1>4 DEF Kept, Leaving, TypeOK
<1> QED BY <1>1, <1>2, <1>3, <1>4 DEF Subscriber

\* The set names exactly the open objects, each by its own writing end.
THEOREM SubscribersCorrect == Spec => []SubscribersMatch
<1>1. ASSUME IInv PROVE SubscribersMatch
  <2>1. subscribers = {ends[p].w : p \in {q \in Pipes : ends[q] # Closed}}
                        \cup ({local[c].w : c \in Leaving} \ {NoFd})
    <3>1. \A p \in Pipes : ends[p] # Closed => ends[p].w \in Fds
      BY <1>1 DEF IInv, Kept, RefersIn
    <3>2. \A c \in Leaving : IF local[c] = Closed THEN local[c].w = NoFd ELSE local[c].w \in Fds
      BY <1>1 DEF IInv, Kept, RefersIn, Leaving, Closed
    <3>3. subscribers \subseteq Fds
      BY <1>1 DEF IInv, TypeOK
    <3> QED BY <1>1, <3>1, <3>2, <3>3, NoFdIsNone DEF IInv, Subscriptions, Subscriber
  <2>2. \A p \in Pipes : ends[p] # Closed => file[ends[p].w] = <<"w", p>>
    BY <1>1 DEF IInv, Kept, RefersIn
  <2>3. \A c \in Leaving : local[c] # Closed => file[local[c].w] = <<"w", object[c]>>
    BY <1>1 DEF IInv, Kept, RefersIn, Leaving
  <2> QED BY <1>1, <2>1, <2>2, <2>3, SubscriberRefers DEF SubscribersMatch
<1>2. IInv => SubscribersMatch
  BY <1>1
<1> QED BY <1>2, Invariance, PTL

\* The publisher writes to the pipes of subscribers and to nothing else.
THEOREM PublisherCorrect == Spec => []PublisherTargetsLive
<1>1. ASSUME IInv PROVE PublisherTargetsLive
  BY <1>1, SubscriberRefers DEF IInv, Rounds, PublisherTargetsLive
<1>2. IInv => PublisherTargetsLive
  BY <1>1
<1> QED BY <1>2, Invariance, PTL

\* Outside open and close everything is set up or nothing is.
THEOREM SetUpOrNot == Spec => []AllOrNothing
<1>1. ASSUME IInv, owner = None PROVE AllOrNothing
  <2>1. Steady
    BY <1>1 DEF IInv, Stages
  <2>2. CASE subscribers # {}
    BY <1>1, <2>1, <2>2 DEF Steady, Running, IInv, Internal, AllOrNothing
  <2>3. CASE subscribers = {}
    <3>1. ASSUME NEW f \in Fds, file[f] # Free PROVE file[f][2] # Self
      <4>1. reader = NoFd /\ writer = NoFd /\ f # NoFd
        BY <2>1, <2>3, NoFdIsNone DEF Steady, NoInternal
      <4>2. ASSUME NEW e, NEW p, p # Self, RefersIn(file, e, p), f \in {e.r, e.w}
            PROVE  file[f][2] # Self
        <5>1. file[e.r] = <<"r", p>> /\ file[e.w] = <<"w", p>>
          BY <4>2 DEF RefersIn
        <5>2. file[e.r][2] = p /\ file[e.w][2] = p
          BY <5>1
        <5> QED BY <4>2, <5>2
      <4>3. \A p \in Pipes : f \in {ends[p].r, ends[p].w} => RefersIn(file, ends[p], p) /\ p # Self
        BY <1>1, <4>1, SelfPipeAssumption DEF IInv, Kept, Closed
      <4>4. \A c \in Clients : f \in {local[c].r, local[c].w} =>
               RefersIn(file, local[c], object[c]) /\ object[c] # Self
        BY <1>1, <4>1 DEF IInv, Kept, Closed
      <4> QED BY <1>1, <3>1, <4>1, <4>2, <4>3, <4>4 DEF IInv, Internal, NoLeak
    <3> QED BY <2>1, <2>3, <3>1 DEF Steady, NoInternal, AllOrNothing
  <2> QED BY <2>2, <2>3
<1>2. IInv => AllOrNothing
  BY <1>1 DEF AllOrNothing
<1> QED BY <1>2, Invariance, PTL

\* Failed opens, closes in any state and second closes leak no descriptor.
THEOREM NothingLeaks == Spec => []NoLeak
<1>1. IInv => NoLeak
  BY DEF IInv, Internal
<1> QED BY <1>1, Invariance, PTL

\* In a program of one thread the handler stands between two instructions of
\* that thread, and writes to the internal pipe and to nothing else.
THEOREM TriggerCorrect ==
  ASSUME NEW c, Clients = {c}
  PROVE  Spec => []TriggerTargetsSelf
<1>1. Init => HandlerAlone
  BY DEF Init, HandlerAlone
<1>2. ASSUME IInv, HandlerAlone, [Next]_vars PROVE HandlerAlone'
  <2> USE DEF kernel, globals, calls, interrupt
  <2>1. CASE \E d \in Clients : ClientBegin(d) \/ ClientContinue(d)
    <3>1. ~handler[c] /\ UNCHANGED handler
      BY <2>1 DEF ClientBegin, ClientContinue, OpenPipe, CloseSwap, Read, OpenLock, CloseLock, Lock,
           OpenInstall, OpenThread, OpenJoin, OpenFails, OpenThreadFails, CloseErase, CloseInvalid,
           CloseAction, CloseWriter, CloseJoin, CloseReader, CloseEnds, Runs
    <3> QED BY <3>1 DEF HandlerAlone
  <2>2. CASE Publisher
    BY <1>2, <2>2 DEF HandlerAlone, Publisher, PublisherRead, PublisherEnd, PublisherLock,
       PublisherWrite, PublisherUnlock
  <2>3. CASE ChildEnds \/ Ignored \/ UNCHANGED vars
    BY <1>2, <2>3 DEF HandlerAlone, ChildEnds, Ignored, vars
  <2>4. CASE TriggerLoad(c)
    <3>1. owner = None /\ installed /\ UNCHANGED <<owner, writer>>
          /\ handler'[c] = TRUE /\ loaded'[c] = writer
      BY <1>2, <2>4 DEF TriggerLoad, Masked, IInv, TypeOK
    <3>2. writer # NoFd
      BY <1>2, <3>1 DEF IInv, Stages, Steady
    <3> QED BY <3>1, <3>2 DEF HandlerAlone
  <2>5. CASE TriggerWrite(c)
    BY <2>5, <1>2 DEF TriggerWrite, HandlerAlone, IInv, TypeOK
  <2> QED BY <1>2, <2>1, <2>2, <2>3, <2>4, <2>5 DEF Next, Trigger
<1>3. IInv /\ HandlerAlone => TriggerTargetsSelf
  BY DEF IInv, HandlerAlone, Internal, TriggerTargetsSelf
<1>4. IInv /\ HandlerAlone /\ [Next]_vars => HandlerAlone'
  BY <1>2
<1> QED BY <1>1, <1>3, <1>4, Invariance, PTL DEF Spec
===============================================================================
