---- MODULE SelfPipe ----
(***************************************************************************)
(* src/lib/selfpipe.cpp: a SIGCHLD handler writes to an internal pipe, a   *)
(* publisher thread reads it and writes a byte to the pipe of every        *)
(* subscriber.  The first open starts the publisher and installs the       *)
(* handler, the last close undoes both.                                    *)
(*                                                                         *)
(* selfpipe_mutex and the signal mask last from the _lock step of a call   *)
(* to its return.  selfpipe_subscribers_mutex is held across steps by the  *)
(* publisher only, while thread = "write"; the sections of the clients     *)
(* under it are one action each.                                           *)
(***************************************************************************)
EXTENDS Integers, FiniteSets

CONSTANTS
  Clients,      \* threads of the program that may call open and close
  Pipes,        \* selfpipe objects
  Self,         \* the internal pipe
  None,         \* no client
  Fds,          \* file descriptors the process may use
  PipeCapacity  \* bytes a pipe holds before a nonblocking write is dropped

ASSUME SelfPipeAssumption ==
  /\ IsFiniteSet(Clients) /\ None \notin Clients
  /\ IsFiniteSet(Pipes) /\ Self \notin Pipes
  /\ Fds \subseteq Nat
  /\ PipeCapacity \in Nat \ {0}

NoFd == -1
Closed == [r |-> NoFd, w |-> NoFd]
Free == <<"free", Self>>

VARIABLES
  file,        \* what each descriptor refers to: <<side, pipe>> or Free
  bytes,       \* bytes in each pipe
  pending,     \* SIGCHLD is pending
  installed,   \* sigaction: the handler of this module, not the saved one
  reader, writer, subscribers, thread, \* the globals selfpipe_*
  round,       \* descriptors the publisher has yet to write in this round
  owner,       \* holder of selfpipe_mutex
  place, object, local, \* of each client: place, selfpipe object, local descriptors
  ends,        \* members reader_ and writer_ of each selfpipe object
  handler, loaded \* of each client: inside the handler, with this descriptor

kernel    == <<file, bytes, pending, installed>>
globals   == <<reader, writer, subscribers, thread, round>>
calls     == <<owner, place, object, local, ends>>
interrupt == <<handler, loaded>>
vars == <<kernel, globals, calls, interrupt>>

Init ==
  /\ file = [f \in Fds |-> Free]
  /\ bytes = [p \in Pipes \cup {Self} |-> 0]
  /\ pending = FALSE /\ installed = FALSE
  /\ reader = NoFd /\ writer = NoFd
  /\ subscribers = {} /\ thread = "none" /\ round = {}
  /\ owner = None
  /\ place = [c \in Clients |-> "idle"]
  /\ object = [c \in Clients |-> Self]
  /\ local = [c \in Clients |-> Closed]
  /\ ends = [p \in Pipes |-> Closed]
  /\ handler = [c \in Clients |-> FALSE]
  /\ loaded = [c \in Clients |-> NoFd]

----
\* compat_pipe2 takes the two lowest free descriptors, the reader first.
FreeFds == {f \in Fds : file[f] = Free}
IsPair(r, w) ==
  /\ r \in FreeFds /\ w \in FreeFds /\ r < w
  /\ \A f \in FreeFds : f <= w => f \in {r, w}
WithPipe(p, r, w) == [file EXCEPT ![r] = <<"r", p>>, ![w] = <<"w", p>>]
Without(S) == [f \in Fds |-> IF f \in S THEN Free ELSE file[f]]

Written(p) == [bytes EXCEPT ![p] = IF @ < PipeCapacity THEN @ + 1 ELSE @]

\* A client runs when no handler interrupts it; the mask is on while it is
\* inside selfpipe_open or selfpipe_close with the mutex.
Runs(c, where) == place[c] = where /\ ~handler[c]
Masked(c) == owner = c
Return(c) ==
  /\ place' = [place EXCEPT ![c] = "idle"]
  /\ object' = [object EXCEPT ![c] = Self]
  /\ local' = [local EXCEPT ![c] = Closed]

----
(* open of a selfpipe object: its own pipe, then selfpipe_open.             *)

OpenPipe(c, p) ==
  /\ Runs(c, "idle")
  /\ ends[p] = Closed /\ \A d \in Clients : object[d] # p
  /\ \E r, w \in Fds :
       /\ IsPair(r, w)
       /\ file' = WithPipe(p, r, w)
       /\ local' = [local EXCEPT ![c] = [r |-> r, w |-> w]]
  /\ bytes' = [bytes EXCEPT ![p] = 0]
  /\ object' = [object EXCEPT ![c] = p]
  /\ place' = [place EXCEPT ![c] = "open_lock"]
  /\ UNCHANGED <<pending, installed, globals, owner, ends, interrupt>>

Lock(c, from, to) ==
  /\ Runs(c, from)
  /\ owner = None
  /\ owner' = c
  /\ place' = [place EXCEPT ![c] = to]
  /\ UNCHANGED <<kernel, globals, object, local, ends, interrupt>>

OpenLock(c) == Lock(c, "open_lock", "open_subscribe")

\* The first open: the internal pipe and the handler, before the thread.
OpenInstall(c) ==
  /\ Runs(c, "open_subscribe") /\ thread = "none"
  /\ \E r, w \in Fds :
       /\ IsPair(r, w)
       /\ file' = WithPipe(Self, r, w)
       /\ reader' = r /\ writer' = w
  /\ bytes' = [bytes EXCEPT ![Self] = 0]
  /\ installed' = TRUE
  /\ place' = [place EXCEPT ![c] = "open_thread"]
  /\ UNCHANGED <<pending, subscribers, thread, round, owner, object, local, ends, interrupt>>

Subscribed(c) ==
  /\ subscribers' = subscribers \cup {local[c].w}
  /\ ends' = [ends EXCEPT ![object[c]] = local[c]]
  /\ owner' = None
  /\ Return(c)

OpenThread(c) ==
  /\ Runs(c, "open_thread")
  /\ thread' = "read"
  /\ Subscribed(c)
  /\ UNCHANGED <<kernel, reader, writer, round, interrupt>>

\* A later open: the publisher runs already.
OpenJoin(c) ==
  /\ Runs(c, "open_subscribe") /\ thread \notin {"none", "write"}
  /\ local[c].w \notin subscribers
  /\ Subscribed(c)
  /\ UNCHANGED <<kernel, reader, writer, thread, round, interrupt>>

\* Mutant: the descriptors of the object are released too early.
OpenFailsLeaks(c) ==
  /\ Runs(c, "open_subscribe") /\ thread # "write"
  /\ local[c].w \in subscribers \/ thread = "none"
  /\ owner' = None
  /\ Return(c)
  /\ UNCHANGED <<kernel, globals, ends, interrupt>>

\* The descriptor is subscribed already, or the internal pipe, its flag or the
\* handler could not be had: what was opened is closed.
OpenFails(c) ==
  /\ Runs(c, "open_subscribe") /\ thread # "write"
  /\ local[c].w \in subscribers \/ thread = "none"
  /\ file' = Without({local[c].r, local[c].w})
  /\ owner' = None
  /\ Return(c)
  /\ UNCHANGED <<bytes, pending, installed, globals, ends, interrupt>>

\* Mutant: the set was changed in place before the thread failed.
OpenThreadFailsSubscribed(c) ==
  /\ Runs(c, "open_thread")
  /\ installed' = FALSE /\ pending' = FALSE
  /\ reader' = NoFd /\ writer' = NoFd
  /\ subscribers' = subscribers \cup {local[c].w}
  /\ file' = Without({reader, writer, local[c].r, local[c].w})
  /\ owner' = None
  /\ Return(c)
  /\ UNCHANGED <<bytes, thread, round, ends, interrupt>>

\* Mutant: the pipes are closed and the handler stays.
OpenThreadFailsInstalled(c) ==
  /\ Runs(c, "open_thread")
  /\ file' = Without({reader, writer, local[c].r, local[c].w})
  /\ owner' = None
  /\ Return(c)
  /\ UNCHANGED <<bytes, pending, installed, globals, ends, interrupt>>

\* The thread could not be created: the handler, the internal pipe and the
\* pipe of the object are undone.
OpenThreadFails(c) ==
  /\ Runs(c, "open_thread")
  /\ installed' = FALSE /\ pending' = FALSE
  /\ reader' = NoFd /\ writer' = NoFd
  /\ file' = Without({reader, writer, local[c].r, local[c].w})
  /\ owner' = None
  /\ Return(c)
  /\ UNCHANGED <<bytes, subscribers, thread, round, ends, interrupt>>

----
(* close: the members move to locals, selfpipe_close, and the two pipe ends *)
(* are closed.  A second close finds no descriptor and fails at the erase.  *)

CloseSwap(c, p) ==
  /\ Runs(c, "idle")
  /\ \A d \in Clients : object[d] # p
  /\ local' = [local EXCEPT ![c] = ends[p]]
  /\ ends' = [ends EXCEPT ![p] = Closed]
  /\ object' = [object EXCEPT ![c] = p]
  /\ place' = [place EXCEPT ![c] = "close_lock"]
  /\ UNCHANGED <<kernel, globals, owner, interrupt>>

CloseLock(c) == Lock(c, "close_lock", "close_erase")

\* Mutant: the set is changed without selfpipe_subscribers_mutex.
CloseEraseUnlocked(c) ==
  /\ Runs(c, "close_erase")
  /\ local[c].w \in subscribers
  /\ subscribers' = subscribers \ {local[c].w}
  /\ IF subscribers' = {}
     THEN place' = [place EXCEPT ![c] = "close_action"] /\ UNCHANGED owner
     ELSE place' = [place EXCEPT ![c] = "close_ends"] /\ owner' = None
  /\ UNCHANGED <<kernel, reader, writer, thread, round, object, local, ends, interrupt>>

CloseErase(c) ==
  /\ Runs(c, "close_erase") /\ thread # "write"
  /\ local[c].w \in subscribers
  /\ subscribers' = subscribers \ {local[c].w}
  /\ IF subscribers' = {}
     THEN place' = [place EXCEPT ![c] = "close_action"] /\ UNCHANGED owner
     ELSE place' = [place EXCEPT ![c] = "close_ends"] /\ owner' = None
  /\ UNCHANGED <<kernel, reader, writer, thread, round, object, local, ends, interrupt>>

CloseInvalid(c) ==
  /\ Runs(c, "close_erase") /\ thread # "write"
  /\ local[c].w \notin subscribers
  /\ file' = Without({local[c].r, local[c].w})
  /\ owner' = None
  /\ Return(c)
  /\ UNCHANGED <<bytes, pending, installed, globals, ends, interrupt>>

\* Going back to a disposition that ignores SIGCHLD discards a pending one.
CloseAction(c) ==
  /\ Runs(c, "close_action")
  /\ installed' = FALSE /\ pending' = FALSE
  /\ place' = [place EXCEPT ![c] = "close_writer"]
  /\ UNCHANGED <<file, bytes, globals, owner, object, local, ends, interrupt>>

\* Mutant: the publisher is to be joined with the pipe still open.
CloseWriterKept(c) ==
  /\ Runs(c, "close_writer")
  /\ writer' = NoFd
  /\ place' = [place EXCEPT ![c] = "close_join"]
  /\ UNCHANGED <<kernel, reader, subscribers, thread, round, owner, object, local, ends, interrupt>>

CloseWriter(c) ==
  /\ Runs(c, "close_writer")
  /\ file' = Without({writer})
  /\ writer' = NoFd
  /\ place' = [place EXCEPT ![c] = "close_join"]
  /\ UNCHANGED <<bytes, pending, installed, reader, subscribers, thread, round,
                 owner, object, local, ends, interrupt>>

\* Mutant: selfpipe_mutex is given up before the reader is closed.
CloseJoinUnlocks(c) ==
  /\ Runs(c, "close_join")
  /\ thread = "exited"
  /\ thread' = "none"
  /\ owner' = None
  /\ place' = [place EXCEPT ![c] = "close_reader"]
  /\ UNCHANGED <<kernel, reader, writer, subscribers, round, object, local, ends, interrupt>>

CloseJoin(c) ==
  /\ Runs(c, "close_join")
  /\ thread = "exited"
  /\ thread' = "none"
  /\ place' = [place EXCEPT ![c] = "close_reader"]
  /\ UNCHANGED <<kernel, reader, writer, subscribers, round, owner, object, local, ends, interrupt>>

CloseReader(c) ==
  /\ Runs(c, "close_reader")
  /\ file' = Without({reader})
  /\ reader' = NoFd
  /\ owner' = None
  /\ place' = [place EXCEPT ![c] = "close_ends"]
  /\ UNCHANGED <<bytes, pending, installed, writer, subscribers, thread, round,
                 object, local, ends, interrupt>>

CloseEnds(c) ==
  /\ Runs(c, "close_ends")
  /\ file' = Without({local[c].r, local[c].w})
  /\ Return(c)
  /\ UNCHANGED <<bytes, pending, installed, globals, owner, ends, interrupt>>

\* read empties the pipe of the object.
Read(c, p) ==
  /\ Runs(c, "idle")
  /\ ends[p] # Closed /\ bytes[p] > 0
  /\ bytes' = [bytes EXCEPT ![p] = 0]
  /\ UNCHANGED <<file, pending, installed, globals, calls, interrupt>>

----
(* The publisher thread, which has every signal blocked.                    *)

PublisherRead ==
  /\ thread = "read" /\ bytes[Self] > 0
  /\ bytes' = [bytes EXCEPT ![Self] = @ - 1]
  /\ thread' = "lock"
  /\ UNCHANGED <<file, pending, installed, reader, writer, subscribers, round, calls, interrupt>>

PublisherEnd ==
  /\ thread = "read" /\ bytes[Self] = 0
  /\ \A f \in Fds : file[f] # <<"w", Self>>
  /\ thread' = "exited"
  /\ UNCHANGED <<kernel, reader, writer, subscribers, round, calls, interrupt>>

PublisherLock ==
  /\ thread = "lock"
  /\ thread' = "write"
  /\ round' = subscribers
  /\ UNCHANGED <<kernel, reader, writer, subscribers, calls, interrupt>>

\* Mutant: only the first subscriber gets its byte.
PublisherWriteFirst ==
  /\ thread = "write"
  /\ \E f \in round :
       /\ \A g \in round : f <= g
       /\ bytes' = IF file[f][1] = "w" THEN Written(file[f][2]) ELSE bytes
  /\ round' = {}
  /\ UNCHANGED <<file, pending, installed, reader, writer, subscribers, thread, calls, interrupt>>

\* The set is ordered by descriptor; a write to anything but the writing end
\* of a pipe fails.
PublisherWrite ==
  /\ thread = "write"
  /\ \E f \in round :
       /\ \A g \in round : f <= g
       /\ bytes' = IF file[f][1] = "w" THEN Written(file[f][2]) ELSE bytes
       /\ round' = round \ {f}
  /\ UNCHANGED <<file, pending, installed, reader, writer, subscribers, thread, calls, interrupt>>

PublisherUnlock ==
  /\ thread = "write" /\ round = {}
  /\ thread' = "read"
  /\ UNCHANGED <<kernel, reader, writer, subscribers, round, calls, interrupt>>

----
(* Signals.  A child may end at any time; SIGCHLD goes to any thread that   *)
(* has not blocked it, and one pending instance stands for any number.      *)

ChildEnds ==
  /\ ~pending
  /\ pending' = TRUE
  /\ UNCHANGED <<file, bytes, installed, globals, calls, interrupt>>

Ignored ==
  /\ pending /\ ~installed
  /\ \E c \in Clients : ~Masked(c)
  /\ pending' = FALSE
  /\ UNCHANGED <<file, bytes, installed, globals, calls, interrupt>>

\* The handler has begun and has loaded selfpipe_writer.
TriggerLoad(c) ==
  /\ pending /\ installed
  /\ ~Masked(c) /\ ~handler[c]
  /\ pending' = FALSE
  /\ handler' = [handler EXCEPT ![c] = TRUE]
  /\ loaded' = [loaded EXCEPT ![c] = writer]
  /\ UNCHANGED <<file, bytes, installed, globals, calls>>

TriggerWrite(c) ==
  /\ handler[c]
  /\ handler' = [handler EXCEPT ![c] = FALSE]
  /\ loaded' = [loaded EXCEPT ![c] = NoFd]
  /\ bytes' = IF loaded[c] # NoFd /\ file[loaded[c]][1] = "w"
              THEN Written(file[loaded[c]][2]) ELSE bytes
  /\ UNCHANGED <<file, pending, installed, globals, calls>>

----
ClientBegin(c) == \E p \in Pipes : OpenPipe(c, p) \/ CloseSwap(c, p) \/ Read(c, p)

ClientContinue(c) ==
  \/ OpenLock(c) \/ OpenInstall(c) \/ OpenThread(c) \/ OpenJoin(c)
  \/ OpenFails(c) \/ OpenThreadFails(c)
  \/ CloseLock(c) \/ CloseErase(c) \/ CloseInvalid(c)
  \/ CloseAction(c) \/ CloseWriter(c) \/ CloseJoin(c) \/ CloseReader(c) \/ CloseEnds(c)

Publisher ==
  \/ PublisherRead \/ PublisherEnd
  \/ PublisherLock \/ PublisherWrite \/ PublisherUnlock

Trigger(c) == TriggerLoad(c) \/ TriggerWrite(c)

Next ==
  \/ \E c \in Clients : ClientBegin(c) \/ ClientContinue(c) \/ Trigger(c)
  \/ Publisher
  \/ ChildEnds \/ Ignored

Spec == Init /\ [][Next]_vars

\* The publisher runs when it can.  Strong fairness of a client: it makes
\* progress between two signals, and obtains a mutex that is free again and
\* again; a pending signal is delivered although masks come and go.
Fairness ==
  /\ WF_vars(Publisher)
  /\ \A c \in Clients : SF_vars(ClientContinue(c)) /\ SF_vars(Trigger(c))

FairSpec == Spec /\ Fairness

----
Places == {"idle", "open_lock", "open_subscribe", "open_thread",
           "close_lock", "close_erase", "close_action",
           "close_writer", "close_join", "close_reader", "close_ends"}
Ends == [r : Fds \cup {NoFd}, w : Fds \cup {NoFd}]

\* Every variable has the values the code gives it.
TypeOK ==
  /\ file \in [Fds -> {Free} \cup ({"r", "w"} \X (Pipes \cup {Self}))]
  /\ bytes \in [Pipes \cup {Self} -> 0 .. PipeCapacity]
  /\ pending \in BOOLEAN /\ installed \in BOOLEAN
  /\ reader \in Fds \cup {NoFd} /\ writer \in Fds \cup {NoFd}
  /\ subscribers \in SUBSET Fds /\ round \in SUBSET Fds
  /\ thread \in {"none", "read", "lock", "write", "exited"}
  /\ owner \in Clients \cup {None}
  /\ place \in [Clients -> Places]
  /\ object \in [Clients -> Pipes \cup {Self}]
  /\ local \in [Clients -> Ends]
  /\ ends \in [Pipes -> Ends]
  /\ handler \in [Clients -> BOOLEAN]
  /\ loaded \in [Clients -> Fds \cup {NoFd}]

\* Clients between the swap of the members and the erase.
Leaving == {c \in Clients : place[c] \in {"close_lock", "close_erase"}}

\* The set of subscribers names exactly the writing ends of the objects that
\* are open or not yet erased, each object's own: a failed open leaves nothing
\* in it and a descriptor number that is used again is never in it already.
SubscribersMatch ==
  /\ subscribers = {ends[p].w : p \in {q \in Pipes : ends[q] # Closed}}
                     \cup ({local[c].w : c \in Leaving} \ {NoFd})
  /\ \A p \in Pipes : ends[p] # Closed => file[ends[p].w] = <<"w", p>>
  /\ \A c \in Leaving : local[c] # Closed => file[local[c].w] = <<"w", object[c]>>
  /\ \A c \in Clients : place[c] \in {"open_lock", "open_subscribe", "open_thread"} =>
        local[c].w \notin subscribers

\* The publisher writes to the pipes of subscribers and to nothing else, also
\* while other threads close objects and descriptor numbers are used again.
PublisherTargetsLive ==
  thread = "write" => /\ round \subseteq subscribers
                      /\ \A f \in round : file[f] \in {"w"} \X Pipes

\* A handler that has loaded selfpipe_writer writes to the internal pipe, not
\* to a closed descriptor or one used again for something else.
TriggerTargetsSelf ==
  \A c \in Clients : handler[c] => loaded[c] # NoFd /\ file[loaded[c]] = <<"w", Self>>

\* Whenever nobody is inside open or close, there is a running publisher, an
\* installed handler and an internal pipe if there is a subscriber, and none
\* of these if there is not.
AllOrNothing ==
  owner = None =>
    IF subscribers = {}
    THEN /\ thread = "none" /\ ~installed
         /\ reader = NoFd /\ writer = NoFd
         /\ \A f \in Fds : file[f][2] # Self \/ file[f] = Free
    ELSE /\ thread \in {"read", "lock", "write"} /\ installed
         /\ reader # NoFd /\ file[reader] = <<"r", Self>>
         /\ writer # NoFd /\ file[writer] = <<"w", Self>>

\* Every open descriptor is one the program still knows: failed opens, closes
\* in any state and second closes leak none.
NoLeak ==
  \A f \in Fds : file[f] # Free =>
    \/ f \in {reader, writer}
    \/ \E p \in Pipes : f \in {ends[p].r, ends[p].w}
    \/ \E c \in Clients : f \in {local[c].r, local[c].w}

\* A subscriber hears of a child that ended while it was subscribed: its pipe
\* becomes readable, or it is closed.
SignalSeen ==
  \A p \in Pipes : pending /\ ends[p] # Closed ~> bytes[p] > 0 \/ ends[p] = Closed

\* open and close return: the last close is not stuck in the join, whatever
\* the publisher was doing.
CallsReturn ==
  \A c \in Clients : place[c] # "idle" ~> place[c] = "idle"
====
