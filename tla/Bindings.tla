------------------------------ MODULE Bindings ------------------------------
(***************************************************************************)
(* The functions of the Lua module, one table per source file.  A function *)
(* is the sequence of the steps its code takes, in the order of the code;  *)
(* LuaCalls says what a step does.  Left out: the values that go in and    *)
(* out (LuaX, Timespec have some), and what a system call does apart       *)
(* from the descriptors, the signal mask and errno.  A function with two   *)
(* ways through it has an entry for each.                                  *)
(*   check n   n arguments are checked, each may be refused                *)
(*   buffer    a C++ allocation, which may throw                           *)
(*   call      a system call that returns -1 and sets errno                *)
(*   throwing_probe  the same, with an exception in place of push_error    *)
(*   late_call a system call whose failure is looked at after the next     *)
(*             allocation                                                  *)
(*   silent    a call that may fail without setting errno: sysconf and     *)
(*             pathconf also return -1 when there is no limit, getpwnam_r    *)
(*             and getpwuid_r return their error number                      *)
(*   gai       a call whose own code is reported, without errno            *)
(*   clear     errno = 0                                                   *)
(*   probe     a call that fails when errno is not 0 after it              *)
(*   open n    n descriptors, or one resource that is freed like one       *)
(*   block, coe i, mode i, mkstemp, release    of the fallbacks            *)
(*   own       an object is made for the next descriptor                   *)
(*   free      the resource is freed without an object                     *)
(*   close     the descriptor of the argument is closed                    *)
(*   adopt     the descriptor of the argument gets a second object         *)
(*   mask      the signal mask of the program is set                       *)
(*   push      Lua memory is allocated for a result                        *)
(***************************************************************************)
EXTENDS Integers, Sequences, TLC

Builds == {"native", "fallback"}
Flags == {"cloexec", "mode"}

Args(n) == <<<<"check", n>>>>
Step(op) == <<<<op, 0>>>>
Steps(op, n) == <<<<op, n>>>>
Call(n) == Args(n) \o Step("call")
Result(n) == Call(n) \o Step("push")

\* A table is a set of names with the steps of each.
Names(names, steps) == names \X {steps}

-----------------------------------------------------------------------------
(* The functions that open descriptors: the system call that takes the     *)
(* flags, or a fallback that sets them one by one with signals blocked.    *)

Each(op, n) == [i \in 1..n |-> <<op, i>>]

\* coe then the mode flags, for every descriptor in turn
SetFlags(n, want) ==
  (IF "cloexec" \in want THEN Each("coe", n) ELSE <<>>)
  \o (IF "mode" \in want THEN Each("mode", n) ELSE <<>>)

Fallback(opens, n, want) ==
  Step("block") \o opens \o SetFlags(n, want) \o Step("release")

Compat(build, n, want) ==
  IF build = "native" THEN Steps("native", n) ELSE Fallback(Steps("open", n), n, want)

compat_pipe2(build, want) == Compat(build, 2, want)
compat_socket(build, want) == Compat(build, 1, want)
compat_socketpair(build, want) == Compat(build, 2, want)
compat_accept4(build, want) == Compat(build, 1, want)
compat_mkostemp(build, want) ==
  IF build = "native" THEN Steps("native", 1) ELSE Fallback(Step("mkstemp"), 1, want)
epoll_open(build, want) == Compat(build, 1, want)
kqueue_open(want) == Compat("fallback", 1, want)

Own(n) == [i \in 1..n |-> <<"own", 0>>]

\* Mutant: a pipe's second descriptor gets no object.
pipe_half(build, want) ==
  Names({"pipe"}, Args(1) \o compat_pipe2(build, want) \o Own(1))

pipe(build, want) == Names({"pipe"}, Args(1) \o compat_pipe2(build, want) \o Own(2))
fcntl == Names({"open"}, Args(3) \o Steps("native", 1) \o Own(1))
sys_socket(build, want) ==
  Names({"socket"}, Args(3) \o compat_socket(build, want) \o Own(1)) \cup
  Names({"socketpair"}, Args(3) \o compat_socketpair(build, want) \o Own(2))
fd_accept(build, want) ==
  Names({"accept"}, Args(2) \o compat_accept4(build, want) \o Own(1) \o Step("push"))
stdlib(build, want) ==
  Names({"realpath", "mkdtemp"}, Args(1) \o Step("buffer") \o Step("call") \o Step("push")) \cup
  Names({"mkstemp"}, Args(2) \o Step("buffer") \o compat_mkostemp(build, want)
                     \o Own(1) \o Step("push"))

fd ==
  Names({"fd"}, Args(1) \o Step("adopt")) \cup
  Names({"get"}, Args(1)) \cup Names({"fd_ref"}, Args(1) \o Step("push")) \cup
  Names({"close"}, Args(1) \o Step("close"))

selector(build, want) ==
  \* no mode flag is understood here
  (IF "mode" \in want THEN {}
   ELSE Names({"selector_epoll"}, Args(1) \o epoll_open(build, want) \o Own(1)) \cup
        Names({"selector_kqueue"}, Args(1) \o kqueue_open(want) \o Own(1))) \cup
  Names({"selector.close"}, Args(1) \o Step("close")) \cup
  Names({"selector.get"}, Args(1)) \cup
  Names({"selector.add", "selector.mod"}, Call(3)) \cup
  Names({"selector.del", "selector.select", "selector.event"}, Call(2))

selfpipe ==
  Names({"selfpipe"}, Steps("native", 1) \o Own(1)) \cup
  Names({"selfpipe.close"}, Args(1) \o Step("close")) \cup
  Names({"selfpipe.get", "selfpipe.read"}, Args(1))

ReadEntry(fails) == Args(1) \o Step("clear") \o Step(fails)
dirent ==
  Names({"opendir"}, Args(1) \o Steps("native", 1) \o Own(1)) \cup
  Names({"dirents"}, Args(1) \o Steps("native", 1) \o Step("push") \o Own(1)) \cup
  Names({"closedir"}, Args(1) \o Step("close")) \cup
  Names({"rewinddir", "telldir"}, Args(1)) \cup Names({"seekdir"}, Args(2)) \cup
  Names({"readdir"}, ReadEntry("probe") \o Step("push")) \cup
  Names({"readdir_at_the_end"}, ReadEntry("probe")) \cup
  Names({"iterator"}, ReadEntry("throwing_probe") \o Step("push")) \cup
  Names({"iterator_at_the_end"}, ReadEntry("throwing_probe") \o Step("close"))

-----------------------------------------------------------------------------
(* The functions that open none *)

unistd ==
  Names({"get_environ"}, Step("push")) \cup
  Names({"getuid", "getgid", "geteuid", "getegid", "getpid", "getpgrp", "getppid",
         "hardware_concurrency"}, <<>>) \cup
  Names({"chdir"}, Call(1)) \cup
  Names({"access", "link", "symlink", "truncate"}, Call(2)) \cup
  Names({"chown"}, Call(3)) \cup
  Names({"getcwd"}, Step("silent") \o Step("buffer") \o Step("call") \o Step("push")) \cup
  Names({"sysconf"}, Args(1) \o Step("clear") \o Step("probe"))

fd_unistd ==
  Names({"read"}, Args(2) \o Step("buffer") \o Step("call") \o Step("push")) \cup
  Names({"write"}, Call(4)) \cup Names({"fsync"}, Call(1)) \cup
  Names({"lseek"}, Call(3)) \cup Names({"ftruncate"}, Call(2))

\* coe and ndelay read the flags, then write them; the others are one call
fd_djb ==
  Names({"coe", "ndelay_on", "ndelay_off"}, Call(1) \o Step("call")) \cup
  Names({"lock_ex", "lock_exnb", "lock_un", "is_coe", "is_ndelay_on", "is_ndelay_off"}, Call(1))

fd_socket ==
  Names({"bind", "listen", "connect", "shutdown"}, Call(2)) \cup
  Names({"setsockopt"}, Call(4)) \cup Names({"getsockopt"}, Call(3)) \cup
  Names({"getsockname", "getpeername"}, Result(1))
fd_transfer ==
  Names({"recv"}, Args(3) \o Step("buffer") \o Step("call") \o Step("push")) \cup
  Names({"recvfrom"}, Args(3) \o Step("buffer") \o Step("call") \o Step("push") \o Step("push")) \cup
  Names({"send"}, Call(5)) \cup Names({"sendto"}, Call(6))

termios ==
  Names({"get_iflag", "get_oflag", "get_cflag", "get_lflag", "cfgetispeed", "cfgetospeed"}, Args(1)) \cup
  Names({"get_cc"}, Args(2)) \cup Names({"cfsetispeed", "cfsetospeed"}, Call(2))
fd_termios == Names({"tcgetattr"}, Result(1)) \cup Names({"tcsetattr"}, Call(3))

sys_stat ==
  Names({"stat", "fstat"}, Result(1)) \cup Names({"umask"}, Args(1)) \cup
  Names({"mkdir", "mkfifo", "chmod"}, Call(2)) \cup
  Names({"utimensat"}, Call(5)) \cup Names({"mknod"}, Call(3))
sys_statvfs == Names({"statvfs", "fstatvfs"}, Result(1))

sys_xattr ==
  Names({"getxattr", "lgetxattr"},
        Call(2) \o Step("buffer") \o Step("call") \o Step("push")) \cup
  Names({"setxattr", "lsetxattr"}, Call(4)) \cup
  Names({"removexattr", "lremovexattr"}, Call(2)) \cup
  Names({"listxattr", "llistxattr"},
        Call(1) \o Step("buffer") \o Step("call") \o Step("push")) \cup
  Names({"listxattr_of_none"}, Call(1) \o Step("push"))

netdb ==
  Names({"getaddrinfo"}, Args(1) \o Steps("gai", 1) \o Step("push") \o Step("free")) \cup
  Names({"getnameinfo"}, Args(2) \o Step("buffer") \o Steps("gai", 0) \o Step("push"))

pwd == Names({"getpwnam", "getpwuid"},
             Args(1) \o Step("silent") \o Step("buffer") \o Step("silent") \o Step("push"))

\* sigemptyset, sigaddset, then the mask
signal ==
  Names({"kill"}, Call(2)) \cup Names({"ignore_signal"}, Call(1)) \cup
  Names({"block_all_signals", "unblock_all_signals"}, Step("mask")) \cup
  Names({"block_signal", "unblock_signal"}, Call(1) \o Step("call") \o Step("mask"))

syslog == Names({"openlog"}, Args(2) \o Step("buffer")) \cup
          Names({"syslog"}, Args(2)) \cup Names({"closelog"}, <<>>)

sys_wait == Names({"wait"}, Result(2))
sys_mman == Names({"mlockall"}, Call(1)) \cup Names({"munlockall"}, Step("call")) \cup
            Names({"reserve_stack_pages"}, Args(1))
sys_utsname == Names({"uname"}, Step("call") \o Step("push"))

sched ==
  Names({"sched_yield"}, Step("call")) \cup
  Names({"sched_get_priority_min", "sched_get_priority_max", "sched_getscheduler"}, Call(1)) \cup
  Names({"sched_getparam", "sched_getaffinity"}, Result(1)) \cup
  Names({"sched_setscheduler"}, Call(3)) \cup Names({"sched_setaffinity"}, Call(1))

timer == Names({"timer"}, Step("push")) \cup Names({"start", "stop"}, Call(1)) \cup
         Names({"elapsed"}, Args(1))
int == Names({"band", "bor"}, Args(2))
time == Names({"nanosleep"}, Call(1)) \cup Names({"clock_gettime"}, Result(1))

\* the pid is stored, with errno saved, before the result is looked at
process ==
  Names({"process"}, Step("push")) \cup
  Names({"forkexec", "forkexec_daemon"}, Args(2) \o Step("buffer") \o Step("late_call"))
pathexec == Names({"pathexec"}, Args(2) \o Step("buffer") \o Step("call"))

error ==
  Names({"strerror", "set_errno", "set_last_errno"}, Args(1)) \cup
  Names({"get_errno", "get_last_errno"}, <<>>) \cup
  Names({"get_error", "get_last_error"}, Step("push"))

sockaddr ==
  Names({"size", "family"}, Args(1)) \cup Names({"addr", "port", "path"}, Args(1) \o Step("push")) \cup
  Names({"sockaddr_in", "sockaddr_in6"}, Args(4) \o Step("push")) \cup
  Names({"sockaddr_un"}, Args(2) \o Step("push"))

Module(build, want) ==
  pipe(build, want) \cup fcntl \cup sys_socket(build, want) \cup fd_accept(build, want) \cup
  stdlib(build, want) \cup fd \cup selector(build, want) \cup selfpipe \cup dirent \cup unistd \cup
  fd_unistd \cup fd_djb \cup fd_socket \cup fd_transfer \cup termios \cup fd_termios \cup sys_stat \cup
  sys_statvfs \cup sys_xattr \cup netdb \cup pwd \cup signal \cup syslog \cup sys_wait \cup sys_mman \cup
  sys_utsname \cup sched \cup timer \cup int \cup time \cup process \cup pathexec \cup error \cup sockaddr

\* The functions as a program can tell them apart by their steps
Shapes == [b \in Builds |-> [w \in SUBSET Flags |->
             {f[2] : f \in Module(b, w)}]]
=============================================================================
