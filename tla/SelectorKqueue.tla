--------------------------- MODULE SelectorKqueue ---------------------------
(***************************************************************************)
(* selector_kqueue: the same calls over kevent.  A descriptor has two      *)
(* filters, READ and WRITE, that one list of two changes adds, enables,    *)
(* disables or deletes; the kernel applies the list in order and stops at  *)
(* the first change that fails.  The kernel's descriptors and the buffer   *)
(* are those of SelectorEpoll.                                             *)
(***************************************************************************)
EXTENDS SelectorEpoll

\* The filter list of fd after the change of one filter, with the error of
\* the change: attaching the WRITE filter of a pipe whose other end is gone
\* is EPIPE, and only an added filter can be enabled, disabled or deleted.
Change(fd, flist, e, op) ==
  LET adding == op \in {"add on", "add off"}
      missing == flist[e] = "absent"
      errno == IF ~fd_ \/ fd \notin open THEN "EBADF"
               ELSE IF adding /\ missing /\ e = "WRITE" /\ fd \in gone THEN "EPIPE"
               ELSE IF ~adding /\ missing THEN "ENOENT"
               ELSE "OK"
      value == IF op = "add on" THEN "on" ELSE IF op = "add off" THEN "off" ELSE op
  IN [flist |-> IF errno = "OK" THEN [flist EXCEPT ![e] = value] ELSE flist, errno |-> errno]

\* kevent with the two changes, and the errors its caller takes for success
Kevent(name, fd, ops, forgiven) ==
  /\ LET first == Change(fd, filter[fd], "READ", ops["READ"])
         second == IF first.errno = "OK"
                   THEN Change(fd, first.flist, "WRITE", ops["WRITE"]) ELSE first
     IN /\ filter' = [filter EXCEPT ![fd] = second.flist]
        /\ Returns(name, second.errno \in {"OK"} \cup forgiven)
  /\ UNCHANGED <<kernelVars, fd_, fetchVars>>

KqAdd(fd, events) ==
  Kevent("add", fd, [e \in Event |-> IF e \in events THEN "add on" ELSE "add off"], {"EPIPE"})

KqMod(fd, events) ==
  Kevent("mod", fd, [e \in Event |-> IF e \in events THEN "on" ELSE "off"], {"EPIPE"})

KqDel(fd) == Kevent("del", fd, [e \in Event |-> "absent"], {"ENOENT"})

\* One entry for a filter; a filter whose other end is gone is reported with
\* its event and EV_EOF.
KqDue ==
  {[fd |-> p[1], events |-> {p[2]}] :
     p \in {q \in open \X Event : q[2] \in On(q[1]) /\ (q[1] \in gone \/ q[2] \in ready[q[1]])}}

KqSelect ==
  /\ Fetch(KqDue)
  /\ UNCHANGED <<kernelVars, fd_, filter>>

KqNext ==
  \/ \E fd \in Fd : Outside(fd)
  \/ \E fd \in Fd : \E events \in Wanted[fd] : KqAdd(fd, events)
  \/ \E fd \in Fd : \E events \in Wanted[fd] : KqMod(fd, events)
  \/ \E fd \in Fd : KqDel(fd)
  \/ KqSelect
  \/ close
=============================================================================
