---------------------------- MODULE SequentialProofs ---------------------------
(***************************************************************************)
(* Theorems about the parts without concurrency: PathExec, for every path, *)
(* command and buffer size, and Timespec, for every time and every scale   *)
(* of its units.                                                           *)
(***************************************************************************)
EXTENDS PathExec, Timespec, TLAPS


\* A search along a path: pathexec was given one and argv[0] has no slash.
Along == given /\ ~slash

\* The order of the places of a call, and what is still untouched in each.
Shape ==
  /\ at \in {"measure", "call", "direct"} => tried = <<>> /\ code = Missing
  /\ at = "call" /\ Along => k = 1
  /\ at = "direct" => slash
  /\ at = "search" => ~slash
  /\ at \in {"search", "returned"} /\ ~slash /\ ~given => tried = <<>>

\* n bounds the widths of the elements before the k-th, and is one of them.
MaxBefore(j, n) ==
  /\ \A i \in 1..j : Width(i) <= n
  /\ (j = 0 /\ n = 1) \/ \E i \in 1..j : Width(i) = n

Measuring == at = "measure" /\ Along => MaxBefore(k - 1, longest)

Measured == at # "measure" /\ Along => MaxBefore(Len(path), measured - command - 2)

\* The elements that had their turn, and why.
Judged == \A i \in 1..Len(tried) : tried[i] = "skipped" <=> ~Fits(i)

Searching ==
  at = "search" /\ Along =>
    /\ Len(tried) = k - 1 /\ Judged
    /\ \A i \in 1..Len(tried) : tried[i] \notin Fatal
    /\ LastKept(code)

Searched == at = "returned" /\ Along => Len(tried) <= Len(path) /\ Judged

IInv == TypeOK /\ Shape /\ Measuring /\ Measured /\ Searching /\ Searched /\ Outcome

-----------------------------------------------------------------------------
\* The size of a buffer for a candidate of width w.
LEMMA SizeFacts == \A w, c \in Nat : w + c + 2 \in Nat /\ (w + c + 2) - c - 2 = w
OBVIOUS

\* What a path is.
LEMMA PathFacts ==
  ASSUME path \in Paths
  PROVE  /\ path \in Seq(Nat) /\ Len(path) \in Nat /\ Len(path) >= 1
         /\ \A i \in 1..Len(path) : path[i] \in Nat /\ Width(i) \in Nat /\ Width(i) >= 1
<1>1. path \in Seq(Nat) /\ path # <<>>
  BY PathExecAssumption DEF PathExecAssumption
<1>2. Len(path) \in Nat /\ Len(path) >= 1
  BY <1>1
<1>3. ASSUME NEW i \in 1..Len(path)
      PROVE  path[i] \in Nat /\ Width(i) \in Nat /\ Width(i) >= 1
  <2>1. path[i] \in Nat
    BY <1>1
  <2> QED
    BY <2>1 DEF Width
<1> QED
  BY <1>1, <1>2, <1>3

\* The larger of two lengths, as the first loop keeps it.
LEMMA MaxGrows ==
  ASSUME path \in Paths, NEW j \in Nat, j + 1 \in 1..Len(path), NEW n \in Nat, n >= 1,
         MaxBefore(j, n)
  PROVE  LET m == Larger(n, path[j + 1]) IN m \in Nat /\ m >= 1 /\ MaxBefore(j + 1, m)
<1> DEFINE m == Larger(n, path[j + 1])
<1>1. path[j + 1] \in Nat /\ \A i \in 1..j + 1 : Width(i) \in Nat
  BY PathFacts
<1>2. Width(j + 1) = IF path[j + 1] > 0 THEN path[j + 1] ELSE 1
  BY DEF Width
<1>3. m \in Nat /\ m >= n /\ m >= 1 /\ m >= Width(j + 1)
  BY <1>1, <1>2 DEF Larger
<1>4. \A i \in 1..j : Width(i) <= n
  BY DEF MaxBefore
<1>5. \A i \in 1..j + 1 : Width(i) <= m
  BY <1>1, <1>3, <1>4
<1>6. \E i \in 1..j + 1 : Width(i) = m
  <2>1. CASE n < path[j + 1]
    BY <2>1, <1>1, <1>2 DEF Larger
  <2>2. CASE ~(n < path[j + 1]) /\ j = 0 /\ n = 1
    BY <2>2, <1>1, <1>2 DEF Larger
  <2>3. CASE ~(n < path[j + 1]) /\ \E i \in 1..j : Width(i) = n
    BY <2>3, <1>1 DEF Larger
  <2> QED
    BY <2>1, <2>2, <2>3 DEF MaxBefore
<1> HIDE DEF m
<1>7. MaxBefore(j + 1, m)
  BY <1>5, <1>6 DEF MaxBefore
<1> QED
  BY <1>3, <1>7 DEF m

\* What a state sees of path, command and size stays when they do.
LEMMA SameInput ==
  ASSUME UNCHANGED <<path, command, size>>
  PROVE  /\ \A i : Width(i)' = Width(i)
         /\ \A i : Fits(i)' = Fits(i)
BY DEF Width, Fits

-----------------------------------------------------------------------------
\* The invariant holds before the first call.
LEMMA InitInvariant == Init => IInv
<1> SUFFICES ASSUME Init PROVE IInv
  OBVIOUS
<1> USE DEF Init
<1>1. Len(path) \in Nat /\ Len(path) >= 1
  BY PathFacts
<1>2. TypeOK
  BY <1>1 DEF TypeOK, Errors
<1>3. Shape /\ Measured /\ Searching /\ Searched /\ Outcome
  BY DEF Shape, Measured, Searching, Searched, Outcome
<1>4. Measuring
  BY DEF Measuring, MaxBefore
<1> QED
  BY <1>2, <1>3, <1>4 DEF IInv

\* With a slash in the command, or without a path, nothing is measured.
LEMMA NoMeasureInvariant == IInv /\ NoMeasure => IInv'
<1> SUFFICES ASSUME IInv, NoMeasure PROVE IInv'
  OBVIOUS
<1> USE DEF IInv, NoMeasure, input, loop
<1>1. TypeOK' /\ Shape'
  BY DEF TypeOK, Shape, Along
<1>2. Measuring' /\ Measured'
  BY DEF Measuring, Measured, Along
<1>3. Searching' /\ Searched' /\ Outcome'
  BY DEF Searching, Searched, Outcome
<1> QED
  BY <1>1, <1>2, <1>3

\* A turn of the loop of pathexec_buffer_size.
LEMMA MeasureInvariant == IInv /\ Measure => IInv'
<1> SUFFICES ASSUME IInv, Measure PROVE IInv'
  OBVIOUS
<1>1. /\ at = "measure" /\ Along /\ Along'
      /\ longest' = Larger(longest, path[k])
      /\ UNCHANGED <<input, size, code, errno, tried>>
      /\ TypeOK /\ Shape /\ Measuring
  BY DEF IInv, Measure, Along, input
<1>2. /\ path \in Paths /\ command \in Nat /\ k \in 1..Len(path) /\ longest \in Nat
      /\ tried = <<>> /\ code = Missing /\ MaxBefore(k - 1, longest)
  BY <1>1, PathExecAssumption DEF TypeOK, Shape, Measuring, PathExecAssumption
<1>3. Len(path) \in Nat /\ Len(path) >= 1 /\ k \in Nat /\ k <= Len(path)
  BY <1>2, PathFacts
<1>4. longest >= 1
  <2>1. \A i \in 1..k - 1 : Width(i) >= 1
    BY <1>2, <1>3, PathFacts
  <2> QED
    BY <1>2, <2>1 DEF MaxBefore
<1>5. longest' \in Nat /\ longest' >= 1 /\ MaxBefore(k, longest')
  <2>1. k - 1 \in Nat /\ (k - 1) + 1 = k
    BY <1>2, <1>3
  <2> QED
    BY <1>1, <1>2, <1>4, <2>1, MaxGrows
<1>6. \A j, n : MaxBefore(j, n)' <=> MaxBefore(j, n)
  BY <1>1 DEF MaxBefore, Width, input
<1>7. CASE k < Len(path)
  <2>1. k' = k + 1 /\ at' = "measure" /\ measured' = measured
    BY <1>1, <1>7 DEF Measure, IInv
  <2>2. TypeOK'
    BY <1>1, <1>2, <1>3, <1>5, <1>7, <2>1 DEF TypeOK, input
  <2>3. Shape' /\ Measured' /\ Searching' /\ Searched' /\ Outcome'
    BY <1>1, <1>2, <2>1 DEF Shape, Measured, Searching, Searched, Outcome
  <2>4. MaxBefore(k' - 1, longest')
    BY <1>2, <1>3, <1>5, <2>1
  <2>5. Measuring'
    BY <1>6, <2>4 DEF Measuring, MaxBefore
  <2> QED
    BY <2>2, <2>3, <2>5 DEF IInv
<1>8. CASE ~(k < Len(path))
  <2>1. k' = 1 /\ at' = "call" /\ measured' = longest' + command + 2
    BY <1>1, <1>8 DEF Measure, IInv
  <2>2. k = Len(path) /\ measured' \in Nat
    <3>1. k = Len(path)
      BY <1>3, <1>8
    <3>2. longest' \in Nat /\ command \in Nat /\ measured' = longest' + command + 2
      BY <1>2, <1>5, <2>1
    <3>3. measured' \in Nat
      BY <3>2, SizeFacts
    <3> QED
      BY <3>1, <3>3
  <2>3. TypeOK'
    BY <1>1, <1>2, <1>3, <1>5, <2>1, <2>2 DEF TypeOK, input
  <2>4. Shape' /\ Measuring' /\ Searching' /\ Searched' /\ Outcome'
    BY <1>1, <1>2, <2>1 DEF Shape, Measuring, Searching, Searched, Outcome
  <2>5. UNCHANGED <<path, command>> /\ Len(path)' = k
    <3>1. UNCHANGED <<path, command>>
      BY <1>1 DEF input
    <3> QED
      BY <2>2, <3>1
  <2>6. measured' - command' - 2 = longest'
    <3>1. /\ longest' \in Nat /\ command \in Nat /\ command' = command
          /\ measured' = longest' + command + 2
      BY <1>2, <1>5, <2>1, <2>5
    <3> QED
      BY <3>1, SizeFacts
  <2>7. Measured'
    <3>1. MaxBefore(Len(path)', measured' - command' - 2)
      BY <1>5, <2>5, <2>6
    <3>2. MaxBefore(Len(path), measured - command - 2)' <=> MaxBefore(Len(path)', measured' - command' - 2)
      BY <2>5 DEF MaxBefore, Width
    <3> QED
      BY <3>1, <3>2 DEF Measured
  <2> QED
    BY <2>3, <2>4, <2>7 DEF IInv
<1> QED
  BY <1>7, <1>8

\* The call of pathexec.
LEMMA CallInvariant == IInv /\ Call => IInv'
<1> SUFFICES ASSUME IInv, Call PROVE IInv'
  OBVIOUS
<1>1. /\ at = "call" /\ size' \in {measured} \cup Sizes
      /\ at' = IF slash THEN "direct" ELSE "search"
      /\ UNCHANGED <<input, k, longest, measured, code, errno, tried>>
      /\ TypeOK /\ Shape /\ Measured
  BY DEF IInv, Call
<1>2. tried = <<>> /\ code = Missing /\ (Along => k = 1) /\ (Along' <=> Along)
  BY <1>1 DEF Shape, Along, input
<1>3. TypeOK'
  BY <1>1, PathExecAssumption DEF TypeOK, PathExecAssumption, input
<1>4. Shape' /\ Measuring' /\ Searched' /\ Outcome'
  BY <1>1, <1>2 DEF Shape, Measuring, Searched, Outcome, input
<1>5. Measured'
  BY <1>1, <1>2 DEF Measured, MaxBefore, Width, input
<1>6. Searching'
  BY <1>1, <1>2 DEF Searching, Judged, LastKept, input
<1> QED
  BY <1>3, <1>4, <1>5, <1>6 DEF IInv

\* A command with a slash is tried as it is, once.
LEMMA DirectInvariant == ASSUME NEW answer \in Errors \cup {"success"}, IInv, Direct(answer) PROVE IInv'
<1>1. /\ at = "direct" /\ tried' = <<answer>> /\ at' \in {"running", "returned"}
      /\ at' = "running" => answer = "success" /\ errno' = errno
      /\ at' = "returned" => answer # "success" /\ errno' = answer
      /\ UNCHANGED <<input, loop, code>>
      /\ TypeOK /\ slash
  BY DEF IInv, Direct, Return, Shape
<1>2. TypeOK'
  BY <1>1 DEF TypeOK, input, loop
<1>3. Shape' /\ Measuring' /\ Measured' /\ Searching' /\ Searched'
  BY <1>1 DEF Shape, Measuring, Measured, Searching, Searched, Along, input
<1>4. Outcome'
  BY <1>1 DEF Outcome, input
<1> QED
  BY <1>2, <1>3, <1>4 DEF IInv

\* Without a path there is nothing to search.
LEMMA NoPathInvariant == IInv /\ NoPath => IInv'
<1> SUFFICES ASSUME IInv, NoPath PROVE IInv'
  OBVIOUS
<1>1. /\ at = "search" /\ ~given /\ at' = "returned" /\ errno' = Missing
      /\ UNCHANGED <<input, loop, code, tried>>
      /\ TypeOK /\ ~slash /\ tried = <<>>
  BY DEF IInv, NoPath, Return, Shape
<1>2. TypeOK'
  BY <1>1 DEF TypeOK, Errors, input, loop
<1>3. Shape' /\ Measuring' /\ Measured' /\ Searching' /\ Searched'
  BY <1>1 DEF Shape, Measuring, Measured, Searching, Searched, Along, input
<1>4. Outcome'
  BY <1>1 DEF Outcome, input
<1> QED
  BY <1>2, <1>3, <1>4 DEF IInv

-----------------------------------------------------------------------------
(* The second loop: an element had its turn. *)

\* One more element had its turn, and the answer stopped the search or not.
LEMMA Turn ==
  ASSUME IInv, at = "search", Along, NEW answer,
         answer \in Errors \cup {"success", "skipped"},
         answer = "skipped" <=> ~Fits(k),
         tried' = Append(tried, answer), UNCHANGED <<input, size>>
  PROVE  /\ tried' \in Seq(Errors \cup {"success", "skipped"})
         /\ Len(tried') = k /\ tried'[k] = answer
         /\ \A i \in 1..k - 1 : tried'[i] = tried[i] /\ tried'[i] \notin Fatal
         /\ Judged'
<1>1. /\ tried \in Seq(Errors \cup {"success", "skipped"}) /\ Len(tried) = k - 1
      /\ k \in 1..Len(path) /\ Len(path) \in Nat
  BY PathFacts DEF IInv, TypeOK, Searching
<1>2. /\ tried' \in Seq(Errors \cup {"success", "skipped"})
      /\ Len(tried') = k /\ tried'[k] = answer
      /\ \A i \in 1..k - 1 : tried'[i] = tried[i]
  BY <1>1
<1>3. \A i \in 1..k - 1 : tried[i] \notin Fatal /\ (tried[i] = "skipped" <=> ~Fits(i))
  BY <1>1 DEF IInv, Searching, Judged
<1>4. \A i : Fits(i)' <=> Fits(i)
  BY SameInput DEF input
<1>5. \A i \in 1..k : tried'[i] = "skipped" <=> ~Fits(i)'
  <2>1. \A i \in 1..k : i = k \/ i \in 1..k - 1
    BY <1>1
  <2> QED
    BY <1>2, <1>3, <1>4, <2>1
<1>6. Judged'
  BY <1>2, <1>5 DEF Judged
<1> QED
  BY <1>2, <1>3, <1>6

\* The code after an answer that does not stop the search.
LEMMA CodeFollows ==
  ASSUME IInv, at = "search", Along, NEW answer,
         answer \in {Missing, "skipped"} \cup Kept,
         Len(tried') = k, tried'[k] = answer,
         \A i \in 1..k - 1 : tried'[i] = tried[i],
         code' = IF answer \in Kept THEN answer ELSE code
  PROVE  LastKept(code)'
<1>1. Len(tried) = k - 1 /\ k \in Nat /\ k >= 1 /\ LastKept(code)
  BY PathFacts DEF IInv, TypeOK, Searching
<1>2. CASE answer \in Kept
  <2>1. \A j \in k + 1..k : FALSE
    BY <1>1
  <2> QED
    BY <1>1, <1>2, <2>1 DEF LastKept
<1>3. CASE answer \notin Kept
  <2>1. code' = code /\ tried'[k] \in {Missing, "skipped"}
    BY <1>3
  <2>2. CASE \E i \in 1..Len(tried) :
               /\ tried[i] = code /\ code \in Kept
               /\ \A j \in i + 1..Len(tried) : tried[j] \in {Missing, "skipped"}
    <3>1. PICK i \in 1..k - 1 :
               /\ tried[i] = code /\ code \in Kept
               /\ \A j \in i + 1..k - 1 : tried[j] \in {Missing, "skipped"}
      BY <1>1, <2>2
    <3>2. i \in 1..k /\ tried'[i] = code' /\ code' \in Kept
      BY <1>1, <2>1, <3>1
    <3>3. \A j \in i + 1..k : tried'[j] \in {Missing, "skipped"}
      <4>1. \A j \in i + 1..k : j = k \/ (j \in i + 1..k - 1 /\ j \in 1..k - 1)
        BY <1>1, <3>1
      <4> QED
        BY <2>1, <3>1, <4>1
    <3> QED
      BY <3>2, <3>3 DEF LastKept
  <2>3. CASE code = Missing /\ \A i \in 1..Len(tried) : tried[i] \in {Missing, "skipped"}
    <3>1. \A i \in 1..k : i = k \/ i \in 1..k - 1
      BY <1>1
    <3>2. \A i \in 1..k : tried'[i] \in {Missing, "skipped"}
      BY <1>1, <2>1, <2>3, <3>1
    <3> QED
      BY <2>1, <2>3, <3>2 DEF LastKept
  <2> QED
    BY <1>1, <2>2, <2>3 DEF LastKept
<1> QED
  BY <1>2, <1>3

\* The end of the loop body, after an answer that does not stop the search.
LEMMA AdvanceInvariant ==
  ASSUME IInv, at = "search", Along, NEW answer,
         answer \in {Missing, "skipped"} \cup Kept,
         answer = "skipped" <=> ~Fits(k),
         tried' = Append(tried, answer),
         code' = IF answer \in Kept THEN answer ELSE code,
         Advance(code'),
         UNCHANGED <<input, longest, measured, size>>
  PROVE  IInv'
<1>1. /\ answer \in Errors \cup {"success", "skipped"} /\ answer \notin Fatal
      /\ TypeOK /\ Shape /\ Measured /\ Searching
      /\ given /\ ~slash /\ given' /\ ~slash' /\ UNCHANGED <<path, command, input>>
  BY PathExecAssumption DEF PathExecAssumption, IInv, Errors, Along, input
<1>2. /\ tried' \in Seq(Errors \cup {"success", "skipped"})
      /\ Len(tried') = k /\ tried'[k] = answer
      /\ \A i \in 1..k - 1 : tried'[i] = tried[i] /\ tried'[i] \notin Fatal
      /\ Judged'
  BY <1>1, Turn
<1>3. LastKept(code)'
  BY <1>2, CodeFollows
<1>4. code' \in {Missing} \cup Kept
  BY <1>1 DEF TypeOK
<1>5. Measured'
  BY <1>1 DEF Measured, MaxBefore, Width, Along
<1>6. k \in 1..Len(path) /\ Len(path) \in Nat
  BY <1>1, PathFacts DEF TypeOK
<1>7. \A i \in 1..k : tried'[i] \notin Fatal
  <2>1. \A i \in 1..k : i = k \/ i \in 1..k - 1
    BY <1>6
  <2> QED
    BY <1>1, <1>2, <2>1
<1>8. CASE k < Len(path)
  <2>1. k' = k + 1 /\ at' = "search" /\ errno' = errno
    BY <1>8 DEF Advance
  <2>2. k' \in 1..Len(path) /\ k' - 1 = k
    BY <1>6, <1>8, <2>1
  <2>3. TypeOK'
    BY <1>1, <1>2, <1>4, <2>1, <2>2 DEF TypeOK, input
  <2>4. Shape' /\ Measuring' /\ Searched' /\ Outcome'
    BY <1>1, <2>1 DEF Shape, Measuring, Searched, Outcome
  <2>5. Searching'
    BY <1>2, <1>3, <1>7, <2>2 DEF Searching
  <2> QED
    BY <1>5, <2>3, <2>4, <2>5 DEF IInv
<1>9. CASE ~(k < Len(path))
  <2>1. k' = k /\ at' = "returned" /\ errno' = code'
    BY <1>9 DEF Advance, Return
  <2>2. k = Len(path)
    BY <1>6, <1>9
  <2>3. TypeOK'
    BY <1>1, <1>2, <1>4, <2>1 DEF TypeOK, input, Errors
  <2>4. Shape' /\ Measuring' /\ Searching'
    BY <1>1, <2>1 DEF Shape, Measuring, Searching, Along
  <2>5. Searched'
    BY <1>1, <1>2, <2>2 DEF Searched
  <2>6. LastKept(errno)'
    BY <1>3, <2>1 DEF LastKept
  <2>7. Outcome'
    BY <1>1, <1>2, <2>2, <2>6 DEF Outcome
  <2> QED
    BY <1>5, <2>3, <2>4, <2>5, <2>7 DEF IInv
<1> QED
  BY <1>8, <1>9

\* A candidate that does not fit is passed over.
LEMMA SkipInvariant == IInv /\ Skip => IInv'
<1> SUFFICES ASSUME IInv, Skip PROVE IInv'
  OBVIOUS
<1>1. at = "search" /\ Along
  BY DEF IInv, Shape, Skip, Along
<1>2. "skipped" \notin Kept
  BY DEF Kept
<1>3. code' = code
  BY DEF Skip
<1> QED
  BY <1>1, <1>2, <1>3, AdvanceInvariant DEF Skip

\* A candidate is tried.
LEMMA TryInvariant == ASSUME NEW answer \in Errors \cup {"success"}, IInv, Try(answer) PROVE IInv'
<1>1. /\ at = "search" /\ Along /\ Fits(k)
      /\ tried' = Append(tried, answer)
      /\ code' = IF answer \in Kept THEN answer ELSE code
      /\ UNCHANGED <<input, longest, measured, size>>
  BY DEF IInv, Shape, Try, Along
<1>2. answer # "skipped"
  BY PathExecAssumption DEF PathExecAssumption, Errors, Kept, Missing
<1>3. CASE answer \in {Missing} \cup Kept
  <2>1. Advance(code')
    BY <1>3, PathExecAssumption DEF Try, PathExecAssumption, Kept, Missing
  <2> QED
    BY <1>1, <1>2, <1>3, <2>1, AdvanceInvariant
<1>4. CASE answer \notin {Missing} \cup Kept
  <2>1. /\ k' = k /\ code' = code
        /\ \/ answer = "success" /\ at' = "running" /\ errno' = errno
           \/ answer \in Fatal /\ at' = "returned" /\ errno' = answer
    BY <1>1, <1>4 DEF Try, Return
  <2>2. /\ TypeOK /\ Shape /\ Measured
        /\ given' /\ ~slash' /\ UNCHANGED <<path, command, input>>
    BY <1>1 DEF IInv, Along, input
  <2>3. /\ tried' \in Seq(Errors \cup {"success", "skipped"})
        /\ Len(tried') = k /\ tried'[k] = answer
        /\ \A i \in 1..k - 1 : tried'[i] = tried[i] /\ tried'[i] \notin Fatal
        /\ Judged'
    BY <1>1, <1>2, Turn
  <2>4. k \in 1..Len(path) /\ Len(path) \in Nat
    BY <2>2, PathFacts DEF TypeOK
  <2>5. TypeOK'
    <3>1. errno' \in Errors \cup {"none"} /\ at' \in {"running", "returned"}
      BY <2>1, <2>2 DEF TypeOK, Errors
    <3>2. code' \in {Missing} \cup Kept /\ k' \in 1..Len(path')
      BY <2>1, <2>2, <2>4 DEF TypeOK
    <3> QED
      BY <1>1, <2>2, <2>3, <3>1, <3>2 DEF TypeOK, input
  <2>6. Shape' /\ Measuring' /\ Searching'
    BY <2>1, <2>2 DEF Shape, Measuring, Searching
  <2>7. Measured'
    BY <1>1, <2>2 DEF Measured, MaxBefore, Width, Along
  <2>8. Searched'
    BY <2>2, <2>3, <2>4 DEF Searched
  <2>9. Outcome'
    BY <2>1, <2>2, <2>3 DEF Outcome
  <2> QED
    BY <2>5, <2>6, <2>7, <2>8, <2>9 DEF IInv
<1> QED
  BY <1>3, <1>4

\* A step that changes nothing.
LEMMA StutterInvariant == IInv /\ UNCHANGED vars => IInv'
BY DEF vars, input, loop, IInv, TypeOK, Shape, Along, Measuring, Measured, MaxBefore, Width, Fits,
       Searching, Judged, LastKept, Searched, Outcome

-----------------------------------------------------------------------------
\* The invariant that the theorems below are parts of.
THEOREM Invariance == Spec => []IInv
<1>1. IInv /\ [Next]_vars => IInv'
  <2> SUFFICES ASSUME IInv, [Next]_vars PROVE IInv'
    OBVIOUS
  <2>1. CASE NoMeasure
    BY <2>1, NoMeasureInvariant
  <2>2. CASE Measure
    BY <2>2, MeasureInvariant
  <2>3. CASE Call
    BY <2>3, CallInvariant
  <2>4. CASE NoPath
    BY <2>4, NoPathInvariant
  <2>5. CASE Skip
    BY <2>5, SkipInvariant
  <2>6. ASSUME NEW answer \in Errors \cup {"success"}, Direct(answer) PROVE IInv'
    BY <2>6, DirectInvariant
  <2>7. ASSUME NEW answer \in Errors \cup {"success"}, Try(answer) PROVE IInv'
    BY <2>7, TryInvariant
  <2>8. CASE UNCHANGED vars
    BY <2>8, StutterInvariant
  <2> QED
    BY <2>1, <2>2, <2>3, <2>4, <2>5, <2>6, <2>7, <2>8 DEF Next, Finished
<1> QED
  BY <1>1, InitInvariant, PTL DEF Spec

\* The search reports the error that the code ranks highest, for every path and
\* every sequence of answers of execve (pathexec.cpp:109-128).
THEOREM ReportsTheError == Spec => []Outcome
<1>1. IInv => Outcome
  BY DEF IInv
<1> QED
  BY <1>1, Invariance, PTL

\* The first loop of pathexec.cpp asks for exactly the buffer the second needs,
\* for every path and command.
THEOREM SizeIsExact == Spec => []BufferIsExact
<1>1. IInv => BufferIsExact
  <2> SUFFICES ASSUME IInv, at = "returned", Len(tried) = Len(path), ~slash
               PROVE  size < measured <=> \E i \in 1..Len(tried) : tried[i] = "skipped"
    BY DEF BufferIsExact
  <2>1. TypeOK /\ path \in Paths /\ size \in Nat /\ measured \in Nat /\ command \in Nat
    BY PathExecAssumption DEF IInv, TypeOK, PathExecAssumption
  <2>2. Len(path) \in Nat /\ Len(path) >= 1 /\ \A i \in 1..Len(path) : Width(i) \in Nat
    BY <2>1, PathFacts
  <2>3. Along
    <3>1. Len(<<>>) = 0
      OBVIOUS
    <3> QED
      BY <2>2, <3>1 DEF IInv, Shape, Along
  <2>4. Judged /\ MaxBefore(Len(path), measured - command - 2)
    BY <2>3 DEF IInv, Searched, Measured
  <2>5. \A i \in 1..Len(path) : tried[i] = "skipped" <=> ~(Width(i) + 1 + command < size)
    BY <2>4 DEF Judged, Fits
  <2>6. \A i \in 1..Len(path) : Width(i) <= measured - command - 2
    BY <2>4 DEF MaxBefore
  <2>7. PICK m \in 1..Len(path) : Width(m) = measured - command - 2
    BY <2>2, <2>4 DEF MaxBefore
  <2>8. ASSUME size < measured PROVE tried[m] = "skipped"
    <3>1. ~(Width(m) + 1 + command < size)
      BY <2>1, <2>2, <2>7, <2>8
    <3> QED
      BY <2>5, <3>1
  <2>9. ASSUME ~(size < measured), NEW i \in 1..Len(path) PROVE tried[i] # "skipped"
    <3>1. Width(i) \in Nat /\ Width(i) <= measured - command - 2
      BY <2>2, <2>6, <2>9
    <3>2. Width(i) + 1 + command < size
      BY <2>1, <2>9, <3>1
    <3> QED
      BY <2>5, <2>9, <3>2
  <2> QED
    BY <2>8, <2>9
<1> QED
  BY <1>1, Invariance, PTL

-----------------------------------------------------------------------------
(* Timespec.  A value stands for so many units of time; the lemmas reduce  *)
(* what the functions do with seconds and parts of one to arithmetic on    *)
(* that number, in which products are opaque.                              *)


\* What a variable of the program holds.
AValue == [form : {"table", "number"}, sec : Int, nsec : Int, type : TypesOfTime]
TimeOK == x \in AValue /\ y \in AValue

\* The scales are positive numbers.
LEMMA SecondInNat == Second \in Nat \ {0} /\ Milli \in Nat \ {0} /\ PerSecond \in Nat \ {0} /\ IntMax \in Nat \ {0}
BY TimespecAssumption DEF Second

\* Products of a sum, for the provers: a second is a constant they do not know.
LEMMA Distribute ==
  ASSUME NEW a \in Int, NEW b \in Int, NEW s \in Int
  PROVE  (a + b) * s = a * s + b * s /\ (a - b) * s = a * s - b * s /\ a * s \in Int
BY SMT

\* The four types of a time are different.
LEMMA TypesDiffer == R # M /\ R # D /\ R # U /\ M # D /\ M # U /\ D # U
BY DEF R, M, D, U

\* The entries of a table of types, read row by row.
LEMMA MatrixForm ==
  ASSUME NEW rows
  PROVE /\ matrix(rows)[R][R] = rows[1][1] /\ matrix(rows)[R][M] = rows[1][2]
        /\ matrix(rows)[R][D] = rows[1][3] /\ matrix(rows)[R][U] = rows[1][4]
        /\ matrix(rows)[M][R] = rows[2][1] /\ matrix(rows)[M][M] = rows[2][2]
        /\ matrix(rows)[M][D] = rows[2][3] /\ matrix(rows)[M][U] = rows[2][4]
        /\ matrix(rows)[D][R] = rows[3][1] /\ matrix(rows)[D][M] = rows[3][2]
        /\ matrix(rows)[D][D] = rows[3][3] /\ matrix(rows)[D][U] = rows[3][4]
        /\ matrix(rows)[U][R] = rows[4][1] /\ matrix(rows)[U][M] = rows[4][2]
        /\ matrix(rows)[U][D] = rows[4][3] /\ matrix(rows)[U][U] = rows[4][4]
<1> DEFINE four == <<R, M, D, U>>
           place == [t \in TypesOfTime |-> CHOOSE n \in 1 .. 4 : four[n] = t]
<1>1. four[1] = R /\ four[2] = M /\ four[3] = D /\ four[4] = U
  OBVIOUS
<1> HIDE DEF four
<1>2. \A n \in 1 .. 4 : n = 1 \/ n = 2 \/ n = 3 \/ n = 4
  OBVIOUS
<1>3. ASSUME NEW t, NEW m \in 1 .. 4, four[m] = t, \A n \in 1 .. 4 : four[n] = t => n = m
      PROVE  (CHOOSE n \in 1 .. 4 : four[n] = t) = m
  BY <1>3
<1>4. place[R] = 1 /\ place[M] = 2 /\ place[D] = 3 /\ place[U] = 4
  <2>1. (CHOOSE n \in 1 .. 4 : four[n] = R) = 1
    BY <1>1, <1>2, <1>3, TypesDiffer
  <2>2. (CHOOSE n \in 1 .. 4 : four[n] = M) = 2
    BY <1>1, <1>2, <1>3, TypesDiffer
  <2>3. (CHOOSE n \in 1 .. 4 : four[n] = D) = 3
    BY <1>1, <1>2, <1>3, TypesDiffer
  <2>4. (CHOOSE n \in 1 .. 4 : four[n] = U) = 4
    BY <1>1, <1>2, <1>3, TypesDiffer
  <2> QED BY <2>1, <2>2, <2>3, <2>4 DEF TypesOfTime
<1>5. matrix(rows) = [a \in TypesOfTime |-> [b \in TypesOfTime |-> rows[place[a]][place[b]]]]
  BY Zenon DEF matrix, four
<1> HIDE DEF place
<1>6. R \in TypesOfTime /\ M \in TypesOfTime /\ D \in TypesOfTime /\ U \in TypesOfTime
  BY DEF TypesOfTime
<1>7. \A a, b \in TypesOfTime : matrix(rows)[a][b] = rows[place[a]][place[b]]
  BY <1>5
<1> QED BY <1>4, <1>6, <1>7

\* The type there is if there is only one.
LEMMA OneOrUnknownIs ==
  /\ \A t : OneOrUnknown({t}) = t
  /\ OneOrUnknown({}) = U
  /\ \A S, s, t : s \in S /\ t \in S /\ s # t => OneOrUnknown(S) = U
<1>1. \A t : OneOrUnknown({t}) = t
  BY DEF OneOrUnknown
<1>2. OneOrUnknown({}) = U
  BY DEF OneOrUnknown
<1>3. \A S, s, t : s \in S /\ t \in S /\ s # t => OneOrUnknown(S) = U
  BY DEF OneOrUnknown
<1> QED BY <1>1, <1>2, <1>3

\* The types an unknown one may be.
LEMMA PossibleIs == /\ Possible(R) = {R} /\ Possible(M) = {M} /\ Possible(D) = {D}
                    /\ Possible(U) = {R, M, D}
BY TypesDiffer, Zenon DEF Possible

\* Which types the sum of two types can have.
LEMMA SumsAre == /\ Sums(R, R) = {} /\ Sums(R, M) = {} /\ Sums(R, D) = {R}
                 /\ Sums(M, R) = {} /\ Sums(M, M) = {} /\ Sums(M, D) = {M}
                 /\ Sums(D, R) = {R} /\ Sums(D, M) = {M} /\ Sums(D, D) = {D}
BY TypesDiffer, Zenon DEF Sums

\* Which types the difference of two types can have.
LEMMA DifferencesAre ==
  /\ Differences(R, R) = {D} /\ Differences(R, M) = {} /\ Differences(R, D) = {R}
  /\ Differences(M, R) = {} /\ Differences(M, M) = {D} /\ Differences(M, D) = {M}
  /\ Differences(D, R) = {} /\ Differences(D, M) = {} /\ Differences(D, D) = {D}
BY TypesDiffer, Zenon DEF Differences

\* The only type that a sum can have, over all a value may be.
LEMMA TypeOfSumIs ==
  /\ TypeOfSum(R, R) = U /\ TypeOfSum(R, M) = U /\ TypeOfSum(R, D) = R /\ TypeOfSum(R, U) = R
  /\ TypeOfSum(M, R) = U /\ TypeOfSum(M, M) = U /\ TypeOfSum(M, D) = M /\ TypeOfSum(M, U) = M
  /\ TypeOfSum(D, R) = R /\ TypeOfSum(D, M) = M /\ TypeOfSum(D, D) = D /\ TypeOfSum(D, U) = U
  /\ TypeOfSum(U, R) = R /\ TypeOfSum(U, M) = M /\ TypeOfSum(U, D) = U /\ TypeOfSum(U, U) = U
<1>1. TypeOfSum(R, R) = U
  <2>1. UNION {UNION {Sums(s, t) : t \in Possible(R)} : s \in Possible(R)} = {}
    BY PossibleIs, SumsAre
  <2> QED
    BY <2>1, OneOrUnknownIs, TypesDiffer DEF TypeOfSum
<1>2. TypeOfSum(R, M) = U
  <2>1. UNION {UNION {Sums(s, t) : t \in Possible(M)} : s \in Possible(R)} = {}
    BY PossibleIs, SumsAre
  <2> QED
    BY <2>1, OneOrUnknownIs, TypesDiffer DEF TypeOfSum
<1>3. TypeOfSum(R, D) = R
  <2>1. UNION {UNION {Sums(s, t) : t \in Possible(D)} : s \in Possible(R)} = {R}
    BY PossibleIs, SumsAre
  <2> QED
    BY <2>1, OneOrUnknownIs, TypesDiffer DEF TypeOfSum
<1>4. TypeOfSum(R, U) = R
  <2>1. UNION {UNION {Sums(s, t) : t \in Possible(U)} : s \in Possible(R)} = {R}
    BY PossibleIs, SumsAre
  <2> QED
    BY <2>1, OneOrUnknownIs, TypesDiffer DEF TypeOfSum
<1>5. TypeOfSum(M, R) = U
  <2>1. UNION {UNION {Sums(s, t) : t \in Possible(R)} : s \in Possible(M)} = {}
    BY PossibleIs, SumsAre
  <2> QED
    BY <2>1, OneOrUnknownIs, TypesDiffer DEF TypeOfSum
<1>6. TypeOfSum(M, M) = U
  <2>1. UNION {UNION {Sums(s, t) : t \in Possible(M)} : s \in Possible(M)} = {}
    BY PossibleIs, SumsAre
  <2> QED
    BY <2>1, OneOrUnknownIs, TypesDiffer DEF TypeOfSum
<1>7. TypeOfSum(M, D) = M
  <2>1. UNION {UNION {Sums(s, t) : t \in Possible(D)} : s \in Possible(M)} = {M}
    BY PossibleIs, SumsAre
  <2> QED
    BY <2>1, OneOrUnknownIs, TypesDiffer DEF TypeOfSum
<1>8. TypeOfSum(M, U) = M
  <2>1. UNION {UNION {Sums(s, t) : t \in Possible(U)} : s \in Possible(M)} = {M}
    BY PossibleIs, SumsAre
  <2> QED
    BY <2>1, OneOrUnknownIs, TypesDiffer DEF TypeOfSum
<1>9. TypeOfSum(D, R) = R
  <2>1. UNION {UNION {Sums(s, t) : t \in Possible(R)} : s \in Possible(D)} = {R}
    BY PossibleIs, SumsAre
  <2> QED
    BY <2>1, OneOrUnknownIs, TypesDiffer DEF TypeOfSum
<1>10. TypeOfSum(D, M) = M
  <2>1. UNION {UNION {Sums(s, t) : t \in Possible(M)} : s \in Possible(D)} = {M}
    BY PossibleIs, SumsAre
  <2> QED
    BY <2>1, OneOrUnknownIs, TypesDiffer DEF TypeOfSum
<1>11. TypeOfSum(D, D) = D
  <2>1. UNION {UNION {Sums(s, t) : t \in Possible(D)} : s \in Possible(D)} = {D}
    BY PossibleIs, SumsAre
  <2> QED
    BY <2>1, OneOrUnknownIs, TypesDiffer DEF TypeOfSum
<1>12. TypeOfSum(D, U) = U
  <2>1. UNION {UNION {Sums(s, t) : t \in Possible(U)} : s \in Possible(D)} = {R, M, D}
    BY PossibleIs, SumsAre
  <2> QED
    BY <2>1, OneOrUnknownIs, TypesDiffer DEF TypeOfSum
<1>13. TypeOfSum(U, R) = R
  <2>1. UNION {UNION {Sums(s, t) : t \in Possible(R)} : s \in Possible(U)} = {R}
    BY PossibleIs, SumsAre
  <2> QED
    BY <2>1, OneOrUnknownIs, TypesDiffer DEF TypeOfSum
<1>14. TypeOfSum(U, M) = M
  <2>1. UNION {UNION {Sums(s, t) : t \in Possible(M)} : s \in Possible(U)} = {M}
    BY PossibleIs, SumsAre
  <2> QED
    BY <2>1, OneOrUnknownIs, TypesDiffer DEF TypeOfSum
<1>15. TypeOfSum(U, D) = U
  <2>1. UNION {UNION {Sums(s, t) : t \in Possible(D)} : s \in Possible(U)} = {R, M, D}
    BY PossibleIs, SumsAre
  <2> QED
    BY <2>1, OneOrUnknownIs, TypesDiffer DEF TypeOfSum
<1>16. TypeOfSum(U, U) = U
  <2>1. UNION {UNION {Sums(s, t) : t \in Possible(U)} : s \in Possible(U)} = {R, M, D}
    BY PossibleIs, SumsAre
  <2> QED
    BY <2>1, OneOrUnknownIs, TypesDiffer DEF TypeOfSum
<1> QED BY <1>1, <1>2, <1>3, <1>4, <1>5, <1>6, <1>7, <1>8, <1>9, <1>10, <1>11, <1>12, <1>13, <1>14, <1>15, <1>16

\* The same of a difference.
LEMMA TypeOfDifferenceIs ==
  /\ TypeOfDifference(R, R) = D /\ TypeOfDifference(R, M) = U /\ TypeOfDifference(R, D) = R /\ TypeOfDifference(R, U) = U
  /\ TypeOfDifference(M, R) = U /\ TypeOfDifference(M, M) = D /\ TypeOfDifference(M, D) = M /\ TypeOfDifference(M, U) = U
  /\ TypeOfDifference(D, R) = U /\ TypeOfDifference(D, M) = U /\ TypeOfDifference(D, D) = D /\ TypeOfDifference(D, U) = D
  /\ TypeOfDifference(U, R) = D /\ TypeOfDifference(U, M) = D /\ TypeOfDifference(U, D) = U /\ TypeOfDifference(U, U) = U
<1>1. TypeOfDifference(R, R) = D
  <2>1. UNION {UNION {Differences(s, t) : t \in Possible(R)} : s \in Possible(R)} = {D}
    BY PossibleIs, DifferencesAre
  <2> QED
    BY <2>1, OneOrUnknownIs, TypesDiffer DEF TypeOfDifference
<1>2. TypeOfDifference(R, M) = U
  <2>1. UNION {UNION {Differences(s, t) : t \in Possible(M)} : s \in Possible(R)} = {}
    BY PossibleIs, DifferencesAre
  <2> QED
    BY <2>1, OneOrUnknownIs, TypesDiffer DEF TypeOfDifference
<1>3. TypeOfDifference(R, D) = R
  <2>1. UNION {UNION {Differences(s, t) : t \in Possible(D)} : s \in Possible(R)} = {R}
    BY PossibleIs, DifferencesAre
  <2> QED
    BY <2>1, OneOrUnknownIs, TypesDiffer DEF TypeOfDifference
<1>4. TypeOfDifference(R, U) = U
  <2>1. UNION {UNION {Differences(s, t) : t \in Possible(U)} : s \in Possible(R)} = {R, D}
    BY PossibleIs, DifferencesAre
  <2> QED
    BY <2>1, OneOrUnknownIs, TypesDiffer DEF TypeOfDifference
<1>5. TypeOfDifference(M, R) = U
  <2>1. UNION {UNION {Differences(s, t) : t \in Possible(R)} : s \in Possible(M)} = {}
    BY PossibleIs, DifferencesAre
  <2> QED
    BY <2>1, OneOrUnknownIs, TypesDiffer DEF TypeOfDifference
<1>6. TypeOfDifference(M, M) = D
  <2>1. UNION {UNION {Differences(s, t) : t \in Possible(M)} : s \in Possible(M)} = {D}
    BY PossibleIs, DifferencesAre
  <2> QED
    BY <2>1, OneOrUnknownIs, TypesDiffer DEF TypeOfDifference
<1>7. TypeOfDifference(M, D) = M
  <2>1. UNION {UNION {Differences(s, t) : t \in Possible(D)} : s \in Possible(M)} = {M}
    BY PossibleIs, DifferencesAre
  <2> QED
    BY <2>1, OneOrUnknownIs, TypesDiffer DEF TypeOfDifference
<1>8. TypeOfDifference(M, U) = U
  <2>1. UNION {UNION {Differences(s, t) : t \in Possible(U)} : s \in Possible(M)} = {M, D}
    BY PossibleIs, DifferencesAre
  <2> QED
    BY <2>1, OneOrUnknownIs, TypesDiffer DEF TypeOfDifference
<1>9. TypeOfDifference(D, R) = U
  <2>1. UNION {UNION {Differences(s, t) : t \in Possible(R)} : s \in Possible(D)} = {}
    BY PossibleIs, DifferencesAre
  <2> QED
    BY <2>1, OneOrUnknownIs, TypesDiffer DEF TypeOfDifference
<1>10. TypeOfDifference(D, M) = U
  <2>1. UNION {UNION {Differences(s, t) : t \in Possible(M)} : s \in Possible(D)} = {}
    BY PossibleIs, DifferencesAre
  <2> QED
    BY <2>1, OneOrUnknownIs, TypesDiffer DEF TypeOfDifference
<1>11. TypeOfDifference(D, D) = D
  <2>1. UNION {UNION {Differences(s, t) : t \in Possible(D)} : s \in Possible(D)} = {D}
    BY PossibleIs, DifferencesAre
  <2> QED
    BY <2>1, OneOrUnknownIs, TypesDiffer DEF TypeOfDifference
<1>12. TypeOfDifference(D, U) = D
  <2>1. UNION {UNION {Differences(s, t) : t \in Possible(U)} : s \in Possible(D)} = {D}
    BY PossibleIs, DifferencesAre
  <2> QED
    BY <2>1, OneOrUnknownIs, TypesDiffer DEF TypeOfDifference
<1>13. TypeOfDifference(U, R) = D
  <2>1. UNION {UNION {Differences(s, t) : t \in Possible(R)} : s \in Possible(U)} = {D}
    BY PossibleIs, DifferencesAre
  <2> QED
    BY <2>1, OneOrUnknownIs, TypesDiffer DEF TypeOfDifference
<1>14. TypeOfDifference(U, M) = D
  <2>1. UNION {UNION {Differences(s, t) : t \in Possible(M)} : s \in Possible(U)} = {D}
    BY PossibleIs, DifferencesAre
  <2> QED
    BY <2>1, OneOrUnknownIs, TypesDiffer DEF TypeOfDifference
<1>15. TypeOfDifference(U, D) = U
  <2>1. UNION {UNION {Differences(s, t) : t \in Possible(D)} : s \in Possible(U)} = {R, M, D}
    BY PossibleIs, DifferencesAre
  <2> QED
    BY <2>1, OneOrUnknownIs, TypesDiffer DEF TypeOfDifference
<1>16. TypeOfDifference(U, U) = U
  <2>1. UNION {UNION {Differences(s, t) : t \in Possible(U)} : s \in Possible(U)} = {R, M, D}
    BY PossibleIs, DifferencesAre
  <2> QED
    BY <2>1, OneOrUnknownIs, TypesDiffer DEF TypeOfDifference
<1> QED BY <1>1, <1>2, <1>3, <1>4, <1>5, <1>6, <1>7, <1>8, <1>9, <1>10, <1>11, <1>12, <1>13, <1>14, <1>15, <1>16

\* The table of types in add is the table of the sums.
LEMMA AddIsTheSum ==
  ASSUME NEW a \in TypesOfTime, NEW b \in TypesOfTime
  PROVE  /\ TIMESPEC_TYPE_MATRIX_ADD[a][b] = TypeOfSum(a, b)
         /\ TIMESPEC_TYPE_MATRIX_ADD[a][b] \in TypesOfTime
<1> DEFINE rows == <<<<U, U, R, R>>,
                     <<U, U, M, M>>,
                     <<R, M, D, U>>,
                     <<R, M, U, U>>>>
<1>1. TIMESPEC_TYPE_MATRIX_ADD = matrix(rows)
  BY Zenon DEF TIMESPEC_TYPE_MATRIX_ADD
<1>2. /\ rows[1] = <<U, U, R, R>> /\ rows[2] = <<U, U, M, M>>
      /\ rows[3] = <<R, M, D, U>> /\ rows[4] = <<R, M, U, U>>
  OBVIOUS
<1> HIDE DEF rows
<1>3. /\ rows[1][1] = U /\ rows[1][2] = U /\ rows[1][3] = R /\ rows[1][4] = R
      /\ rows[2][1] = U /\ rows[2][2] = U /\ rows[2][3] = M /\ rows[2][4] = M
      /\ rows[3][1] = R /\ rows[3][2] = M /\ rows[3][3] = D /\ rows[3][4] = U
      /\ rows[4][1] = R /\ rows[4][2] = M /\ rows[4][3] = U /\ rows[4][4] = U
  BY <1>2
<1>4. TIMESPEC_TYPE_MATRIX_ADD[a][b] = TypeOfSum(a, b)
  BY <1>1, <1>3, MatrixForm, TypeOfSumIs DEF TypesOfTime
<1>5. TypeOfSum(a, b) \in TypesOfTime
  BY TypeOfSumIs DEF TypesOfTime
<1> QED BY <1>4, <1>5

\* The table of types in sub is the table of the differences.
LEMMA SubIsTheDifference ==
  ASSUME NEW a \in TypesOfTime, NEW b \in TypesOfTime
  PROVE  /\ TIMESPEC_TYPE_MATRIX_SUB[a][b] = TypeOfDifference(a, b)
         /\ TIMESPEC_TYPE_MATRIX_SUB[a][b] \in TypesOfTime
<1> DEFINE rows == <<<<D, U, R, U>>,
                     <<U, D, M, U>>,
                     <<U, U, D, D>>,
                     <<D, D, U, U>>>>
<1>1. TIMESPEC_TYPE_MATRIX_SUB = matrix(rows)
  BY Zenon DEF TIMESPEC_TYPE_MATRIX_SUB
<1>2. /\ rows[1] = <<D, U, R, U>> /\ rows[2] = <<U, D, M, U>>
      /\ rows[3] = <<U, U, D, D>> /\ rows[4] = <<D, D, U, U>>
  OBVIOUS
<1> HIDE DEF rows
<1>3. /\ rows[1][1] = D /\ rows[1][2] = U /\ rows[1][3] = R /\ rows[1][4] = U
      /\ rows[2][1] = U /\ rows[2][2] = D /\ rows[2][3] = M /\ rows[2][4] = U
      /\ rows[3][1] = U /\ rows[3][2] = U /\ rows[3][3] = D /\ rows[3][4] = D
      /\ rows[4][1] = D /\ rows[4][2] = D /\ rows[4][3] = U /\ rows[4][4] = U
  BY <1>2
<1>4. TIMESPEC_TYPE_MATRIX_SUB[a][b] = TypeOfDifference(a, b)
  BY <1>1, <1>3, MatrixForm, TypeOfDifferenceIs DEF TypesOfTime
<1>5. TypeOfDifference(a, b) \in TypesOfTime
  BY TypeOfDifferenceIs DEF TypesOfTime
<1> QED BY <1>4, <1>5

\* A function that makes a timespec gives a value again.
LEMMA CallIsATime ==
  ASSUME NEW a \in TypesOfTime, NEW b \in TypesOfTime
  PROVE  TIMESPEC_TYPE_MATRIX_CALL[a][b] \in TypesOfTime
<1> DEFINE rows == <<<<R, M, D, R>>,
                     <<R, M, D, M>>,
                     <<R, M, D, D>>,
                     <<R, M, D, U>>>>
<1>1. TIMESPEC_TYPE_MATRIX_CALL = matrix(rows)
  BY Zenon DEF TIMESPEC_TYPE_MATRIX_CALL
<1>2. /\ rows[1] = <<R, M, D, R>> /\ rows[2] = <<R, M, D, M>>
      /\ rows[3] = <<R, M, D, D>> /\ rows[4] = <<R, M, D, U>>
  OBVIOUS
<1> HIDE DEF rows
<1>3. \A i, j \in 1 .. 4 : rows[i][j] \in TypesOfTime
  BY <1>2 DEF TypesOfTime
<1> QED BY <1>1, <1>3, MatrixForm DEF TypesOfTime

\* The units that a second and a part of one make.
LEMMA TimeFields ==
  \A sec, nsec, type :
    /\ Time(sec, nsec, type).sec = sec /\ Time(sec, nsec, type).nsec = nsec
    /\ Time(sec, nsec, type).type = type /\ Time(sec, nsec, type).form = "table"
    /\ sec \in Int /\ nsec \in Int /\ type \in TypesOfTime => Time(sec, nsec, type) \in AValue
BY DEF Time, AValue

\* add gives the sum, carried into the seconds, with the type it must have.
LEMMA Adding ==
  ASSUME NEW a \in AValue, NEW b \in AValue
  PROVE  /\ impl_add(a, b) \in AValue
         /\ Units(impl_add(a, b)) = Units(a) + Units(b)
         /\ Normal(a) /\ Normal(b) => Normal(impl_add(a, b))
         /\ impl_add(a, b).type = TypeOfSum(a.type, b.type)
<1> DEFINE n == a.nsec + b.nsec
           carry == IF n > Second - 1 THEN 1 ELSE 0
           sum == impl_add(a, b)
<1>1. /\ a.sec \in Int /\ a.nsec \in Int /\ a.type \in TypesOfTime
      /\ b.sec \in Int /\ b.nsec \in Int /\ b.type \in TypesOfTime
      /\ Second \in Int
  BY SecondInNat DEF AValue
<1>2. sum = Time(a.sec + b.sec + carry, n - carry * Second, TIMESPEC_TYPE_MATRIX_ADD[a.type][b.type])
  BY DEF impl_add
<1>3. n \in Int /\ carry \in {0, 1} /\ carry * Second = (IF n > Second - 1 THEN Second ELSE 0)
  BY <1>1
<1>4. sum.sec = a.sec + b.sec + carry /\ sum.nsec = n - carry * Second
  BY <1>2, TimeFields
<1>5. sum.type = TypeOfSum(a.type, b.type) /\ sum \in AValue
  <2>1. a.sec + b.sec + carry \in Int /\ n - carry * Second \in Int
    BY <1>1, <1>3
  <2> QED BY <1>1, <1>2, <2>1, TimeFields, AddIsTheSum
<1> HIDE DEF sum
<1>6. Units(sum) = Units(a) + Units(b)
  <2> HIDE DEF carry
  <2>1. (a.sec + b.sec + carry) * Second = a.sec * Second + b.sec * Second + carry * Second
    <3>1. (a.sec + b.sec + carry) * Second = (a.sec + b.sec) * Second + carry * Second
      BY <1>1, <1>3, Distribute
    <3>2. (a.sec + b.sec) * Second = a.sec * Second + b.sec * Second
      BY <1>1, Distribute
    <3> QED BY <3>1, <3>2
  <2>2. a.sec * Second \in Int /\ b.sec * Second \in Int /\ carry * Second \in Int
    BY <1>1, <1>3, Distribute
  <2> QED BY <1>1, <1>4, <2>1, <2>2 DEF Units
<1>7. ASSUME Normal(a), Normal(b)
      PROVE  Normal(sum)
  BY <1>1, <1>3, <1>4, <1>7 DEF Normal, check_nsec
<1> QED BY <1>5, <1>6, <1>7 DEF sum

\* sub gives the difference, borrowed from the seconds, with the type it must have.
LEMMA Subtracting ==
  ASSUME NEW a \in AValue, NEW b \in AValue
  PROVE  /\ impl_sub(a, b) \in AValue
         /\ Units(impl_sub(a, b)) = Units(a) - Units(b)
         /\ Normal(a) /\ Normal(b) => Normal(impl_sub(a, b))
         /\ impl_sub(a, b).type = TypeOfDifference(a.type, b.type)
<1> DEFINE n == a.nsec - b.nsec
           borrow == IF n < 0 THEN 1 ELSE 0
           rest == impl_sub(a, b)
<1>1. /\ a.sec \in Int /\ a.nsec \in Int /\ a.type \in TypesOfTime
      /\ b.sec \in Int /\ b.nsec \in Int /\ b.type \in TypesOfTime
      /\ Second \in Int
  BY SecondInNat DEF AValue
<1>2. rest = Time(a.sec - b.sec - borrow, n + borrow * Second, TIMESPEC_TYPE_MATRIX_SUB[a.type][b.type])
  BY DEF impl_sub
<1>3. n \in Int /\ borrow \in {0, 1} /\ borrow * Second = (IF n < 0 THEN Second ELSE 0)
  BY <1>1
<1>4. rest.sec = a.sec - b.sec - borrow /\ rest.nsec = n + borrow * Second
  BY <1>2, TimeFields
<1>5. rest.type = TypeOfDifference(a.type, b.type) /\ rest \in AValue
  <2>1. a.sec - b.sec - borrow \in Int /\ n + borrow * Second \in Int
    BY <1>1, <1>3
  <2> QED BY <1>1, <1>2, <2>1, TimeFields, SubIsTheDifference
<1> HIDE DEF rest
<1>6. Units(rest) = Units(a) - Units(b)
  <2> HIDE DEF borrow
  <2>1. (a.sec - b.sec - borrow) * Second = a.sec * Second - b.sec * Second - borrow * Second
    <3>1. (a.sec - b.sec - borrow) * Second = (a.sec - b.sec) * Second - borrow * Second
      BY <1>1, <1>3, Distribute
    <3>2. (a.sec - b.sec) * Second = a.sec * Second - b.sec * Second
      BY <1>1, Distribute
    <3> QED BY <3>1, <3>2
  <2>2. a.sec * Second \in Int /\ b.sec * Second \in Int /\ borrow * Second \in Int
    BY <1>1, <1>3, Distribute
  <2> QED BY <1>1, <1>4, <2>1, <2>2 DEF Units
<1>7. ASSUME Normal(a), Normal(b)
      PROVE  Normal(rest)
  BY <1>1, <1>3, <1>4, <1>7 DEF Normal, check_nsec
<1> QED BY <1>5, <1>6, <1>7 DEF rest

\* A time less than another in whole seconds is less by a second at least.
LEMMA SecondsApart ==
  ASSUME NEW i \in Int, NEW j \in Int, i < j
  PROVE  i * Second + Second <= j * Second /\ i * Second \in Int /\ j * Second \in Int
<1>1. Second \in Int /\ Second >= 1
  BY SecondInNat
<1>2. i * Second \in Int /\ j * Second \in Int /\ (j - i - 1) * Second \in Int
  BY <1>1
<1>3. (j - i - 1) * Second >= 0
  BY <1>1
<1>4. (j - i - 1) * Second = (j - i) * Second - 1 * Second
  BY <1>1, Distribute
<1>5. (j - i) * Second = j * Second - i * Second /\ 1 * Second = Second
  BY <1>1, Distribute
<1> QED BY <1>1, <1>2, <1>3, <1>4, <1>5

\* compare orders two values as the units they stand for.
LEMMA Comparing ==
  ASSUME NEW a \in AValue, NEW b \in AValue, Normal(a), Normal(b)
  PROVE  /\ impl_eq(a, b) = (Units(a) = Units(b))
         /\ impl_lt(a, b) = (Units(a) < Units(b))
         /\ impl_le(a, b) = (Units(a) <= Units(b))
<1>1. /\ a.sec \in Int /\ a.nsec \in Int /\ b.sec \in Int /\ b.nsec \in Int
      /\ Second \in Int
  BY SecondInNat DEF AValue
<1>2. /\ 0 <= a.nsec /\ a.nsec <= Second - 1
      /\ 0 <= b.nsec /\ b.nsec <= Second - 1
  BY DEF Normal, check_nsec
<1>3. a.sec * Second \in Int /\ b.sec * Second \in Int
  BY <1>1, Distribute
<1>4. CASE a.sec = b.sec
  BY <1>1, <1>3, <1>4 DEF Units, impl_eq, impl_lt, impl_le
<1>5. CASE a.sec < b.sec
  <2>1. a.sec * Second + Second <= b.sec * Second
    BY <1>1, <1>5, SecondsApart
  <2>2. Units(a) < Units(b)
    BY <1>1, <1>2, <1>3, <2>1 DEF Units
  <2>3. Units(a) \in Int /\ Units(b) \in Int
    BY <1>1, <1>3 DEF Units
  <2> QED BY <1>1, <1>5, <2>2, <2>3 DEF impl_eq, impl_lt, impl_le
<1>6. CASE b.sec < a.sec
  <2>1. b.sec * Second + Second <= a.sec * Second
    BY <1>1, <1>6, SecondsApart
  <2>2. Units(b) < Units(a)
    BY <1>1, <1>2, <1>3, <2>1 DEF Units
  <2>3. Units(a) \in Int /\ Units(b) \in Int
    BY <1>1, <1>3 DEF Units
  <2> QED BY <1>1, <1>6, <2>2, <2>3 DEF impl_eq, impl_lt, impl_le
<1> QED BY <1>1, <1>4, <1>5, <1>6

\* elapsed is the difference of the two readings of a timer.
LEMMA ElapsedIsTheDifference ==
  ASSUME NEW a \in AValue, NEW b \in AValue
  PROVE  elapsed(a, b) = Units(b) - Units(a)
<1> DEFINE n == b.nsec - a.nsec
           borrow == IF n < 0 THEN 1 ELSE 0
<1>1. /\ a.sec \in Int /\ a.nsec \in Int /\ b.sec \in Int /\ b.nsec \in Int
      /\ Second \in Int
  BY SecondInNat DEF AValue
<1>2. n \in Int /\ borrow \in {0, 1}
  BY <1>1
<1>3. elapsed(a, b) = (b.sec - a.sec - borrow) * Second + n + borrow * Second
  BY DEF elapsed
<1> HIDE DEF borrow
<1>4. (b.sec - a.sec - borrow) * Second = (b.sec - a.sec) * Second - borrow * Second
  BY <1>1, <1>2, Distribute
<1>5. (b.sec - a.sec) * Second = b.sec * Second - a.sec * Second
  BY <1>1, Distribute
<1>6. a.sec * Second \in Int /\ b.sec * Second \in Int /\ borrow * Second \in Int
  BY <1>1, <1>2, Distribute
<1> QED BY <1>1, <1>2, <1>3, <1>4, <1>5, <1>6 DEF Units

\* The milliseconds of a number of units, cut.
LEMMA Milliseconds ==
  ASSUME NEW n \in Nat, n <= Second - 1
  PROVE  /\ Cut(n, Milli) \in Nat /\ Cut(n, Milli) < PerSecond
         /\ Cut(n, Milli) * Milli <= n /\ n < (Cut(n, Milli) + 1) * Milli
<1> DEFINE ms == Cut(n, Milli)
<1>1. ms = n \div Milli
  BY DEF Cut
<1>2. Milli \in Nat /\ Milli > 0 /\ PerSecond \in Nat
  BY SecondInNat
<1>3. /\ n \div Milli \in Int /\ n % Milli \in 0 .. Milli - 1
      /\ n = Milli * (n \div Milli) + (n % Milli)
  BY <1>2
<1> HIDE DEF ms
<1>4. ms \in Int /\ ms * Milli = Milli * ms /\ ms * Milli \in Int /\ (ms + 1) * Milli = ms * Milli + Milli
  <2>1. ms \in Int
    BY <1>1, <1>3
  <2>2. (ms + 1) * Milli = ms * Milli + 1 * Milli
    BY <1>2, <2>1, Distribute
  <2> QED BY <1>2, <2>1, <2>2
<1>5. ms * Milli <= n /\ n < (ms + 1) * Milli
  <2>1. n = ms * Milli + (n % Milli)
    BY <1>1, <1>3, <1>4
  <2> QED BY <1>2, <1>3, <1>4, <2>1
<1>6. ms \in Nat
  <2>1. SUFFICES ASSUME ms + 1 <= 0 PROVE FALSE
    BY <1>4
  <2>2. (ms + 1) * Milli <= 0
    BY <1>2, <1>4, <2>1
  <2> QED BY <1>2, <1>4, <1>5, <2>2
<1>7. ms < PerSecond
  <2>1. SUFFICES ASSUME ms - PerSecond >= 0 PROVE FALSE
    BY <1>2, <1>4
  <2>2. (ms - PerSecond) * Milli >= 0
    BY <1>2, <1>4, <2>1
  <2>3. (ms - PerSecond) * Milli = ms * Milli - PerSecond * Milli
    BY <1>2, <1>4, Distribute
  <2>4. PerSecond * Milli = Second /\ Second \in Int
    BY <1>2 DEF Second
  <2> QED BY <1>4, <1>5, <2>2, <2>3, <2>4
<1> QED BY <1>5, <1>6, <1>7 DEF ms

\* A count of milliseconds that fits an int stays what it is.
LEMMA FitsAnInt == ASSUME NEW n \in Nat, n <= IntMax PROVE AsInt(n) = n
<1>1. IntMax \in Nat
  BY SecondInNat
<1>2. n + IntMax + 1 \in Nat /\ n + IntMax + 1 < 2 * (IntMax + 1) /\ 2 * (IntMax + 1) \in Nat \ {0}
  BY <1>1
<1>3. \A i \in Nat, d \in Nat \ {0} : i < d => i % d = i
  OBVIOUS
<1>4. (n + IntMax + 1) % (2 * (IntMax + 1)) = n + IntMax + 1
  BY <1>2, <1>3
<1> QED BY <1>1, <1>4 DEF AsInt

\* A wait is the time that was asked for, cut to whole milliseconds.
LEMMA Waiting ==
  ASSUME NEW a \in AValue, Normal(a), a.sec >= 0, a.sec * PerSecond + PerSecond <= IntMax
  PROVE  /\ epoll_timeout(a) * Milli <= Units(a)
         /\ Units(a) < (epoll_timeout(a) + 1) * Milli
<1> DEFINE ms == Cut(a.nsec, Milli)
           all == a.sec * PerSecond + ms
<1>1. /\ a.sec \in Nat /\ a.nsec \in Nat /\ a.nsec <= Second - 1
      /\ Milli \in Nat /\ PerSecond \in Nat /\ IntMax \in Nat
  BY SecondInNat DEF AValue, Normal, check_nsec
<1>2. ms \in Nat /\ ms < PerSecond /\ ms * Milli <= a.nsec /\ a.nsec < (ms + 1) * Milli
  BY <1>1, Milliseconds
<1>3. epoll_timeout(a) = AsInt(all)
  BY DEF epoll_timeout
<1> HIDE DEF ms
<1>4. a.sec * PerSecond \in Nat
  BY <1>1
<1>5. all \in Nat /\ all <= IntMax
  BY <1>1, <1>2, <1>4
<1>6. epoll_timeout(a) = all
  BY <1>3, <1>5, FitsAnInt
<1>7. all * Milli = (a.sec * PerSecond) * Milli + ms * Milli
  BY <1>1, <1>2, <1>4, Distribute
<1>8. (a.sec * PerSecond) * Milli = a.sec * Second
  BY <1>1 DEF Second
<1>9. (all + 1) * Milli = all * Milli + Milli /\ (ms + 1) * Milli = ms * Milli + Milli
  <2>1. \A i \in Int : (i + 1) * Milli = i * Milli + 1 * Milli
    BY <1>1, Distribute
  <2>2. 1 * Milli = Milli
    BY <1>1
  <2> QED BY <1>2, <1>5, <2>1, <2>2
<1>10. a.sec * Second \in Int /\ ms * Milli \in Int
  BY <1>1, <1>2, SecondInNat
<1> HIDE DEF all
<1> QED BY <1>1, <1>2, <1>5, <1>6, <1>7, <1>8, <1>9, <1>10 DEF Units

-----------------------------------------------------------------------------
\* A number of units, cut into seconds and the rest.
LEMMA NumberIsAValue == ASSUME NEW n \in Int PROVE FromNumber(n) \in AValue
<1>1. Second \in Nat /\ Second > 0
  BY SecondInNat
<1>2. Cut(n, Second) \in Int
  <2>1. \A i \in Nat, d \in Nat : d > 0 => i \div d \in Int
    OBVIOUS
  <2>2. CASE n < 0
    <3>1. -n \in Nat
      BY <2>2
    <3> QED BY <1>1, <2>1, <2>2, <3>1 DEF Cut
  <2>3. CASE ~(n < 0)
    BY <1>1, <2>1, <2>3 DEF Cut
  <2> QED BY <2>2, <2>3
<1>3. Cut(n, Second) * Second \in Int
  BY <1>1, <1>2
<1> HIDE DEF Second
<1>4. U \in TypesOfTime
  BY DEF TypesOfTime
<1> QED BY <1>2, <1>3, <1>4 DEF FromNumber, Time, AValue

\* Both values stay times, whatever is computed.
LEMMA TimesInit == StartTimes => TimeOK
<1>1. \A t \in TypesOfTime : Time(0, 0, t) \in AValue
  BY TimeFields
<1>2. D \in TypesOfTime
  BY DEF TypesOfTime
<1> QED BY <1>1, <1>2 DEF StartTimes, TimeOK

\* Every function leaves two values in the program's variables.
LEMMA TimesStep == TimeOK /\ [TimeNext]_timeVars => TimeOK'
<1> SUFFICES ASSUME TimeOK, [TimeNext]_timeVars PROVE TimeOK'
  OBVIOUS
<1>1. x \in AValue /\ y \in AValue
  BY DEF TimeOK
<1>2. x.type \in TypesOfTime /\ x.sec \in Int /\ x.nsec \in Int
  BY <1>1 DEF AValue
<1>3. CASE LoadNumber
  <2>1. PICK units \in Numbers : x' = FromNumber(units)
    BY <1>3 DEF LoadNumber
  <2>2. units \in Int
    BY TimespecAssumption
  <2> QED BY <1>1, <1>3, <2>1, <2>2, NumberIsAValue DEF LoadNumber, TimeOK
<1>4. CASE LoadTable
  <2>1. PICK sec \in Seconds, nsec \in 0 .. Second - 1, t \in TypesOfTime : x' = Time(sec, nsec, t)
    BY <1>4 DEF LoadTable
  <2>2. sec \in Int /\ nsec \in Int
    BY TimespecAssumption, SecondInNat
  <2> QED BY <1>1, <1>4, <2>1, <2>2, TimeFields DEF LoadTable, TimeOK
<1>5. CASE Swap
  BY <1>1, <1>5 DEF Swap, TimeOK
<1>6. CASE Add
  BY <1>1, <1>6, Adding DEF Add, Gives, TimeOK
<1>7. CASE Sub
  BY <1>1, <1>7, Subtracting DEF Sub, Gives, TimeOK
<1>8. CASE SetType
  <2>1. PICK t \in TypesOfTime : x' = impl_call(x, t) /\ y' = y
    BY <1>8 DEF SetType, Gives
  <2> QED BY <1>1, <1>2, <2>1, TimeFields, CallIsATime DEF impl_call, TimeOK
<1>9. CASE Compare
  BY <1>1, <1>9 DEF Compare, Says, TimeOK
<1>10. CASE Elapsed
  BY <1>1, <1>10 DEF Elapsed, Says, TimeOK
<1>11. CASE Wait
  BY <1>1, <1>11 DEF Wait, Says, TimeOK
<1>12. CASE UNCHANGED timeVars
  BY <1>1, <1>12 DEF timeVars, TimeOK
<1> QED BY <1>3, <1>4, <1>5, <1>6, <1>7, <1>8, <1>9, <1>10, <1>11, <1>12 DEF TimeNext

\* What every step from two values does.
LEMMA PromisesKept == TimeOK => SumsPromise /\ ComparePromise /\ WaitPromise
<1> SUFFICES ASSUME TimeOK PROVE SumsPromise /\ ComparePromise /\ WaitPromise
  OBVIOUS
<1>1. x \in AValue /\ y \in AValue
  BY DEF TimeOK
<1>2. SumsPromise
  <2>1. Add => x' = impl_add(x, y)
    BY DEF Add, Gives
  <2>2. Sub => x' = impl_sub(x, y)
    BY DEF Sub, Gives
  <2>3. ASSUME Add
        PROVE  /\ Units(x') = Units(x) + Units(y)
               /\ Normal(x) /\ Normal(y) => Normal(x')
               /\ x'.type = TypeOfSum(x.type, y.type)
    BY <1>1, <2>1, <2>3, Adding
  <2>4. ASSUME Sub
        PROVE  /\ Units(x') = Units(x) - Units(y)
               /\ Normal(x) /\ Normal(y) => Normal(x')
               /\ x'.type = TypeOfDifference(x.type, y.type)
    BY <1>1, <2>2, <2>4, Subtracting
  <2> QED BY <2>3, <2>4, Zenon DEF SumsPromise
<1>3. ComparePromise
  <2>1. ASSUME Compare, Normal(x), Normal(y)
        PROVE  out' = <<Units(x) = Units(y), Units(x) < Units(y), Units(x) <= Units(y)>>
    <3>1. out' = <<impl_eq(x, y), impl_lt(x, y), impl_le(x, y)>>
      BY <2>1, Zenon DEF Compare, Says
    <3>2. /\ impl_eq(x, y) = (Units(x) = Units(y))
          /\ impl_lt(x, y) = (Units(x) < Units(y))
          /\ impl_le(x, y) = (Units(x) <= Units(y))
      BY <1>1, <2>1, Comparing, Zenon
    <3> QED BY <3>1, <3>2, Zenon
  <2>2. ASSUME Elapsed
        PROVE  out'[2] = Units(y) - Units(x)
    <3>1. out' = <<"elapsed", elapsed(x, y)>>
      BY <2>2 DEF Elapsed, Says
    <3> QED BY <1>1, <3>1, ElapsedIsTheDifference
  <2> QED BY <2>1, <2>2, Zenon DEF ComparePromise
<1>4. WaitPromise
  <2>1. SUFFICES ASSUME Wait, Normal(x), x.sec >= 0, x.sec * PerSecond + PerSecond <= IntMax
                 PROVE  out'[2] * Milli <= Units(x) /\ Units(x) < (out'[2] + 1) * Milli
    BY DEF WaitPromise
  <2>2. out' = <<"timeout", epoll_timeout(x)>>
    BY <2>1 DEF Wait, Says
  <2>3. out'[2] = epoll_timeout(x)
    BY <2>2
  <2> QED BY <1>1, <2>1, <2>3, Waiting
<1> QED BY <1>2, <1>3, <1>4

(* Whatever a second and a millisecond are and however long the times:      *)
(* sums and differences are exact, normal and of the right type, times      *)
(* compare as their lengths, and a wait is right to the millisecond         *)
(* (impl_add, impl_sub, impl_eq, impl_lt, impl_le, elapsed, select).        *)
THEOREM ExactTimes == TimeSpec => TimesAreExact
<1>1. TimeSpec => []TimeOK
  BY TimesInit, TimesStep, PTL DEF TimeSpec
<1> QED BY <1>1, PromisesKept, PTL DEF TimesAreExact
=============================================================================
