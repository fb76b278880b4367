---- MODULE PathExec ----
(***************************************************************************)
(* src/lib/pathexec.cpp: pathexec_buffer_size measures a path, the caller  *)
(* brings a buffer, pathexec builds in it each candidate along the path    *)
(* and tries to execute it.                                                *)
(*                                                                         *)
(* A path is the sequence of the lengths of its elements, "a::bc" is       *)
(* <<1, 0, 2>>; the empty string is one empty element.  The command is its *)
(* length, or a name with a slash.                                         *)
(***************************************************************************)
EXTENDS Integers, Sequences

CONSTANTS
  Paths,    \* sequences of lengths
  Commands, \* lengths of argv[0]
  Sizes,    \* sizes a caller may choose of its own
  Fatal     \* errno values other than the four that pathexec knows

Missing == "ENOENT"
Kept == {"EACCES", "EISDIR", "EPERM"}
Errors == {Missing} \cup Kept \cup Fatal

ASSUME PathExecAssumption ==
  /\ Paths \subseteq Seq(Nat) /\ <<>> \notin Paths
  /\ Commands \subseteq Nat /\ Sizes \subseteq Nat
  /\ Fatal \cap ({Missing, "success", "skipped", "none"} \cup Kept) = {}

VARIABLES
  slash,    \* argv[0] has a slash
  given,    \* path is not the null pointer
  path, command,
  at,       \* "measure", "call", "search", "direct", "running" or "returned"
  k,        \* the element the loop is at
  longest,  \* path_size of the first loop
  measured, \* what pathexec_buffer_size returned
  size,     \* of the buffer given to pathexec
  code,     \* the local code of pathexec
  errno,    \* errno when pathexec returned
  tried     \* what execve answered, element by element; "skipped" if not called

input == <<slash, given, path, command>>
loop == <<k, longest, measured, size>>
vars == <<input, at, loop, code, errno, tried>>

Init ==
  /\ slash \in BOOLEAN /\ given \in BOOLEAN
  /\ path \in Paths /\ command \in Commands
  /\ at = "measure" /\ k = 1 /\ longest = 1 /\ measured = 0 /\ size = 0
  /\ code = Missing /\ errno = "none" /\ tried = <<>>

-----------------------------------------------------------------------------
(* pathexec_buffer_size. *)

Larger(a, b) == IF a < b THEN b ELSE a

NoMeasure ==
  /\ at = "measure" /\ (slash \/ ~given)
  /\ at' = "call"
  /\ UNCHANGED <<input, loop, code, errno, tried>>

\* One element; the result at the last.
Measure ==
  /\ at = "measure" /\ ~slash /\ given
  /\ longest' = Larger(longest, path[k])
  /\ IF k < Len(path)
     THEN k' = k + 1 /\ UNCHANGED <<at, measured>>
     ELSE k' = 1 /\ at' = "call" /\ measured' = longest' + command + 2
  /\ UNCHANGED <<input, size, code, errno, tried>>

\* forkexec.cpp and the Lua binding give a buffer of the measured size.
Call ==
  /\ at = "call"
  /\ size' \in {measured} \cup Sizes
  /\ at' = IF slash THEN "direct" ELSE "search"
  /\ UNCHANGED <<input, k, longest, measured, code, errno, tried>>

-----------------------------------------------------------------------------
(* pathexec. *)

Return(e) == at' = "returned" /\ errno' = e

Direct(answer) ==
  /\ at = "direct"
  /\ tried' = <<answer>>
  /\ IF answer = "success" THEN at' = "running" /\ UNCHANGED errno ELSE Return(answer)
  /\ UNCHANGED <<input, loop, code>>

NoPath ==
  /\ at = "search" /\ ~given
  /\ Return(Missing)
  /\ UNCHANGED <<input, loop, code, tried>>

\* An empty element stands for ".".
Width(i) == IF path[i] > 0 THEN path[i] ELSE 1

\* Mutant: the terminating zero is forgotten.
FitsWithoutZero(i) == Width(i) + 1 + command <= size

Fits(i) == Width(i) + 1 + command < size

\* The end of the loop body: the next element, or errno = code.
Advance(c) ==
  IF k < Len(path)
  THEN k' = k + 1 /\ UNCHANGED <<at, errno>>
  ELSE k' = k /\ Return(c)

Skip ==
  /\ at = "search" /\ given /\ ~Fits(k)
  /\ tried' = Append(tried, "skipped")
  /\ Advance(code)
  /\ UNCHANGED <<input, longest, measured, size, code>>

\* Mutant: the last error counts, whatever it is.
TryKeepingLast(answer) ==
  /\ at = "search" /\ given /\ Fits(k)
  /\ tried' = Append(tried, answer)
  /\ code' = IF answer \in Kept \cup {Missing} THEN answer ELSE code
  /\ \/ answer = "success" /\ at' = "running" /\ UNCHANGED <<k, errno>>
     \/ answer \in Fatal /\ Return(answer) /\ UNCHANGED k
     \/ answer \in {Missing} \cup Kept /\ Advance(code')
  /\ UNCHANGED <<input, longest, measured, size>>

\* execve of element k gives answer: a new program, or an errno.
Try(answer) ==
  /\ at = "search" /\ given /\ Fits(k)
  /\ tried' = Append(tried, answer)
  /\ code' = IF answer \in Kept THEN answer ELSE code
  /\ \/ answer = "success" /\ at' = "running" /\ UNCHANGED <<k, errno>>
     \/ answer \in Fatal /\ Return(answer) /\ UNCHANGED k
     \/ answer \in {Missing} \cup Kept /\ Advance(code')
  /\ UNCHANGED <<input, longest, measured, size>>

Finished == at \in {"running", "returned"} /\ UNCHANGED vars

Next ==
  \/ NoMeasure \/ Measure \/ Call
  \/ NoPath \/ Skip
  \/ \E answer \in Errors \cup {"success"} : Direct(answer) \/ Try(answer)
  \/ Finished

Spec == Init /\ [][Next]_vars

-----------------------------------------------------------------------------
TypeOK ==
  /\ slash \in BOOLEAN /\ given \in BOOLEAN /\ path \in Paths /\ command \in Commands
  /\ at \in {"measure", "call", "search", "direct", "running", "returned"}
  /\ k \in 1..Len(path) /\ longest \in Nat /\ measured \in Nat /\ size \in Nat
  /\ code \in {Missing} \cup Kept
  /\ errno \in Errors \cup {"none"}
  /\ tried \in Seq(Errors \cup {"success", "skipped"})

\* The first loop (pathexec.cpp:54-69) asks for what the second (92-126) needs
\* and for no more: a search to the end passes over a candidate exactly when the
\* buffer is smaller than that.
BufferIsExact ==
  at = "returned" /\ Len(tried) = Len(path) /\ ~slash =>
    (size < measured <=> \E i \in 1..Len(tried) : tried[i] = "skipped")

\* The last errno of Kept among the answers, and ENOENT without one.
LastKept(e) ==
  \/ \E i \in 1..Len(tried) :
       /\ tried[i] = e /\ e \in Kept
       /\ \A j \in i + 1..Len(tried) : tried[j] \in {Missing, "skipped"}
  \/ e = Missing /\ \A i \in 1..Len(tried) : tried[i] \in {Missing, "skipped"}

\* The errno of a failed search is that of the error that stopped it, or the
\* last of EACCES, EISDIR and EPERM after every element had its turn, or
\* ENOENT when there was none (pathexec.cpp:79-84, 87-90, 109-128).
Outcome ==
  at = "returned" =>
    IF slash \/ ~given
    THEN Len(tried) <= 1 /\ errno = IF slash THEN tried[1] ELSE Missing
    ELSE \/ /\ errno \in Fatal /\ tried[Len(tried)] = errno
            /\ \A i \in 1..Len(tried) - 1 : tried[i] \notin Fatal
         \/ Len(tried) = Len(path) /\ LastKept(errno)

====
