---------------------------- MODULE SequenceLemmas ----------------------------
(***************************************************************************)
(* What the sequence operators of the models do to the set of elements,    *)
(* for sequences without repetitions: the lists of tasks of the thread     *)
(* pool, the descriptors a call holds.                                     *)
(***************************************************************************)
EXTENDS Integers, SequencesExt, SequenceTheorems, TLAPS

\* An element of a sequence is at one of its positions.
LEMMA InRangeOf ==
  ASSUME NEW S, NEW q \in Seq(S)
  PROVE  /\ Range(q) \subseteq S
         /\ \A x : x \in Range(q) <=> \E i \in 1 .. Len(q) : q[i] = x
BY DEF Range

\* The empty sequence has no element.
LEMMA RangeEmpty == Range(<<>>) = {} /\ IsInjective(<<>>)
BY DEF Range, IsInjective

\* Appending adds one element, and a new one keeps the sequence free of
\* repetitions.
LEMMA AppendRange ==
  ASSUME NEW S, NEW q \in Seq(S), NEW x \in S
  PROVE  /\ Append(q, x) \in Seq(S)
         /\ Range(Append(q, x)) = Range(q) \cup {x}
         /\ IsInjective(q) /\ x \notin Range(q) => IsInjective(Append(q, x))
<1> DEFINE r == Append(q, x)
<1>1. /\ r \in Seq(S) /\ Len(r) = Len(q) + 1 /\ Len(q) \in Nat
      /\ \A i \in 1 .. Len(q) : r[i] = q[i]
      /\ r[Len(q) + 1] = x
  BY AppendProperties
<1>2. DOMAIN r = 1 .. Len(q) + 1 /\ DOMAIN q = 1 .. Len(q)
  BY <1>1
<1> HIDE DEF r
<1>3. \A i \in 1 .. Len(q) + 1 : i \in 1 .. Len(q) \/ i = Len(q) + 1
  BY <1>1
<1>4. Range(r) = Range(q) \cup {x}
  BY <1>1, <1>2, <1>3 DEF Range
<1>5. IsInjective(q) /\ x \notin Range(q) => IsInjective(r)
  BY <1>1, <1>2, <1>3 DEF Range, IsInjective
<1> QED BY <1>1, <1>4, <1>5 DEF r

\* Taking the head leaves the other elements.
LEMMA TailRange ==
  ASSUME NEW S, NEW q \in Seq(S), q # <<>>
  PROVE  /\ Head(q) \in S /\ Tail(q) \in Seq(S)
         /\ Range(q) = Range(Tail(q)) \cup {Head(q)}
         /\ IsInjective(q) => IsInjective(Tail(q)) /\ Head(q) \notin Range(Tail(q))
<1> DEFINE r == Tail(q)
<1>1. /\ r \in Seq(S) /\ Len(r) = Len(q) - 1 /\ Len(q) \in Nat \ {0}
      /\ Head(q) = q[1] /\ Head(q) \in S
      /\ \A i \in 1 .. Len(r) : r[i] = q[i + 1]
  BY HeadTailProperties, EmptySeq
<1>2. DOMAIN r = 1 .. Len(q) - 1 /\ DOMAIN q = 1 .. Len(q)
  BY <1>1
<1> HIDE DEF r
<1>3. \A i \in 1 .. Len(q) : i = 1 \/ (i - 1 \in 1 .. Len(q) - 1 /\ q[i] = r[i - 1])
  BY <1>1
<1>4. \A i \in 1 .. Len(q) - 1 : i + 1 \in 1 .. Len(q) /\ i + 1 # 1 /\ r[i] = q[i + 1]
  BY <1>1
<1>5. Range(q) = Range(r) \cup {Head(q)}
  <2>1. Range(q) \subseteq Range(r) \cup {Head(q)}
    BY <1>1, <1>2, <1>3, SMTT(30) DEF Range
  <2>2. Range(r) \subseteq Range(q)
    BY <1>1, <1>2, <1>4 DEF Range
  <2>3. 1 \in 1 .. Len(q) /\ Head(q) \in Range(q)
    BY <1>1, <1>2 DEF Range
  <2> QED BY <2>1, <2>2, <2>3
<1>6. ASSUME IsInjective(q) PROVE IsInjective(r) /\ Head(q) \notin Range(r)
  <2>1. \A i \in 1 .. Len(q) - 1 : r[i] # q[1]
    BY <1>1, <1>2, <1>4, <1>6 DEF IsInjective
  <2>2. \A i, j \in 1 .. Len(q) - 1 : r[i] = r[j] => i + 1 = j + 1
    BY <1>2, <1>4, <1>6 DEF IsInjective
  <2>3. \A i, j \in 1 .. Len(q) - 1 : i + 1 = j + 1 => i = j
    OBVIOUS
  <2> QED BY <1>1, <1>2, <2>1, <2>2, <2>3 DEF IsInjective, Range
<1> QED BY <1>1, <1>5, <1>6 DEF r

\* Erasing the element at position i moves the later ones down.
LEMMA RemoveAtElements ==
  ASSUME NEW S, NEW q \in Seq(S), NEW i \in DOMAIN q
  PROVE  /\ RemoveAt(q, i) \in Seq(S) /\ Len(RemoveAt(q, i)) = Len(q) - 1
         /\ \A j \in 1 .. Len(q) - 1 : RemoveAt(q, i)[j] = q[IF j < i THEN j ELSE j + 1]
<1>1. i \in 1 .. Len(q) /\ Len(q) \in Nat
  OBVIOUS
<1> DEFINE a == SubSeq(q, 1, i - 1)
           b == SubSeq(q, i + 1, Len(q))
<1>2. a \in Seq(S) /\ Len(a) = i - 1 /\ \A j \in 1 .. i - 1 : a[j] = q[j]
  BY <1>1
<1>3. b \in Seq(S) /\ Len(b) = Len(q) - i /\ \A j \in 1 .. Len(q) - i : b[j] = q[i + j]
  BY <1>1
<1> HIDE DEF a, b
<1>4. /\ a \o b \in Seq(S) /\ Len(a \o b) = Len(q) - 1
      /\ \A j \in 1 .. Len(q) - 1 : (a \o b)[j] = IF j <= i - 1 THEN a[j] ELSE b[j - (i - 1)]
  BY <1>1, <1>2, <1>3, ConcatProperties, SMTT(30)
<1>5. ASSUME NEW j \in 1 .. Len(q) - 1
      PROVE  (a \o b)[j] = q[IF j < i THEN j ELSE j + 1]
  <2>1. CASE j < i
    BY <1>1, <1>2, <1>4, <2>1
  <2>2. CASE ~(j < i)
    <3>1. j - (i - 1) \in 1 .. Len(q) - i /\ i + (j - (i - 1)) = j + 1 /\ ~(j <= i - 1)
      BY <1>1, <2>2
    <3> QED BY <1>3, <1>4, <2>2, <3>1
  <2> QED BY <2>1, <2>2
<1> QED BY <1>4, <1>5 DEF RemoveAt, a, b

\* Erasing an element of a sequence without repetitions leaves the others.
LEMMA RemoveAtRange ==
  ASSUME NEW S, NEW q \in Seq(S), NEW i \in DOMAIN q, IsInjective(q)
  PROVE  /\ RemoveAt(q, i) \in Seq(S)
         /\ Range(RemoveAt(q, i)) = Range(q) \ {q[i]}
         /\ IsInjective(RemoveAt(q, i))
<1> DEFINE r == RemoveAt(q, i)
           at(j) == IF j < i THEN j ELSE j + 1
<1>1. /\ r \in Seq(S) /\ Len(r) = Len(q) - 1 /\ Len(q) \in Nat /\ i \in 1 .. Len(q)
      /\ DOMAIN q = 1 .. Len(q)
      /\ \A j \in 1 .. Len(q) - 1 : r[j] = q[at(j)]
  BY RemoveAtElements
<1>2. DOMAIN r = 1 .. Len(q) - 1
  BY <1>1
<1> HIDE DEF r
<1>3. /\ \A j \in 1 .. Len(q) - 1 : at(j) \in 1 .. Len(q) /\ at(j) # i
      /\ \A j, k \in 1 .. Len(q) - 1 : at(j) = at(k) => j = k
  BY <1>1
<1>4. \A m \in 1 .. Len(q) : m # i => \E j \in 1 .. Len(q) - 1 : at(j) = m
  <2> SUFFICES ASSUME NEW m \in 1 .. Len(q), m # i PROVE \E j \in 1 .. Len(q) - 1 : at(j) = m
    OBVIOUS
  <2>1. CASE m < i
    BY <1>1, <2>1
  <2>2. CASE i < m
    <3>1. m - 1 \in 1 .. Len(q) - 1 /\ at(m - 1) = m
      BY <1>1, <2>2
    <3> QED BY <3>1
  <2> QED BY <1>1, <2>1, <2>2
<1> HIDE DEF at
<1>5. Range(r) = Range(q) \ {q[i]}
  <2>1. Range(r) \subseteq Range(q) \ {q[i]}
    BY <1>1, <1>2, <1>3 DEF Range, IsInjective
  <2>2. ASSUME NEW m \in 1 .. Len(q), m # i PROVE q[m] \in Range(r)
    <3>1. PICK j \in 1 .. Len(q) - 1 : at(j) = m
      BY <1>4, <2>2
    <3> QED BY <1>1, <1>2, <3>1 DEF Range
  <2> QED BY <1>1, <2>1, <2>2 DEF Range
<1>6. IsInjective(r)
  BY <1>1, <1>2, <1>3, SMTT(30) DEF IsInjective
<1> QED BY <1>1, <1>5, <1>6 DEF r

\* One element before a sequence is its head.
LEMMA HeadTailOfCons ==
  ASSUME NEW S, NEW x \in S, NEW s \in Seq(S)
  PROVE  /\ <<x>> \o s \in Seq(S) /\ <<x>> \o s # <<>>
         /\ Head(<<x>> \o s) = x /\ Tail(<<x>> \o s) = s
<1> DEFINE r == <<x>> \o s
<1>1. <<x>> \in Seq(S) /\ Len(<<x>>) = 1 /\ <<x>>[1] = x /\ Len(s) \in Nat
  OBVIOUS
<1>2. /\ r \in Seq(S) /\ Len(r) = 1 + Len(s)
      /\ \A i \in 1 .. 1 + Len(s) : r[i] = IF i <= 1 THEN <<x>>[i] ELSE s[i - 1]
  BY <1>1, ConcatProperties
<1> HIDE DEF r
<1>3. r # <<>> /\ Head(r) = x
  BY <1>1, <1>2
<1>4. /\ Tail(r) \in Seq(S) /\ Len(Tail(r)) = Len(s)
      /\ \A i \in 1 .. Len(s) : Tail(r)[i] = r[i + 1]
  BY <1>1, <1>2, <1>3, HeadTailProperties
<1>5. \A i \in 1 .. Len(s) : Tail(r)[i] = s[i]
  BY <1>1, <1>2, <1>4
<1>6. Tail(r) = s
  BY <1>4, <1>5, SeqEqual
<1> QED BY <1>2, <1>3, <1>6 DEF r

\* A sequence is its head before its tail.
LEMMA HeadBeforeTail ==
  ASSUME NEW S, NEW s \in Seq(S), s # <<>>
  PROVE  s = <<Head(s)>> \o Tail(s)
<1>1. /\ Head(s) \in S /\ Tail(s) \in Seq(S) /\ Len(Tail(s)) = Len(s) - 1
      /\ \A i \in 1 .. Len(Tail(s)) : Tail(s)[i] = s[i + 1]
      /\ Len(s) \in Nat \ {0} /\ Head(s) = s[1]
  BY HeadTailProperties, EmptySeq
<1> DEFINE t == Tail(s)
           h == Head(s)
           r == <<h>> \o t
<1> HIDE DEF t, h
<1>2. <<h>> \in Seq(S) /\ Len(<<h>>) = 1 /\ <<h>>[1] = h
  BY <1>1 DEF h
<1>3. /\ r \in Seq(S) /\ Len(r) = 1 + Len(t)
      /\ \A i \in 1 .. 1 + Len(t) : r[i] = IF i <= 1 THEN <<h>>[i] ELSE t[i - 1]
  BY <1>1, <1>2, ConcatProperties DEF t
<1> HIDE DEF r
<1>4. Len(r) = Len(s) /\ \A i \in 1 .. Len(s) : r[i] = s[i]
  <2>1. Len(r) = Len(s)
    BY <1>1, <1>3 DEF t
  <2>2. ASSUME NEW i \in 1 .. Len(s) PROVE r[i] = s[i]
    <3>1. CASE i = 1
      BY <3>1, <1>1, <1>2, <1>3 DEF h, t
    <3>2. CASE i # 1
      <4>1. i - 1 \in 1 .. Len(t) /\ t[i - 1] = s[i]
        BY <1>1, <3>2 DEF t
      <4> QED BY <1>1, <1>3, <3>2, <4>1 DEF t
    <3> QED BY <3>1, <3>2
  <2> QED BY <2>1, <2>2
<1>5. r = s
  BY <1>3, <1>4, SeqEqual
<1> QED BY <1>5 DEF r, h, t

\* The elements of two sequences in a row
LEMMA ConcatRange ==
  ASSUME NEW S, NEW p \in Seq(S), NEW q \in Seq(S)
  PROVE  Range(p \o q) = Range(p) \cup Range(q)
<1> DEFINE r == p \o q
<1>1. /\ r \in Seq(S) /\ Len(r) = Len(p) + Len(q) /\ Len(p) \in Nat /\ Len(q) \in Nat
      /\ \A i \in 1 .. Len(p) + Len(q) : r[i] = IF i <= Len(p) THEN p[i] ELSE q[i - Len(p)]
  BY ConcatProperties, LenProperties
<1> HIDE DEF r
<1>2. \A x : x \in Range(r) => x \in Range(p) \cup Range(q)
  <2> SUFFICES ASSUME NEW i \in 1 .. Len(r) PROVE r[i] \in Range(p) \cup Range(q)
    BY <1>1, InRangeOf
  <2>1. CASE i <= Len(p)
    BY <1>1, <2>1, InRangeOf
  <2>2. CASE i > Len(p)
    <3>1. i - Len(p) \in 1 .. Len(q) /\ r[i] = q[i - Len(p)]
      BY <1>1, <2>2
    <3> QED BY <3>1, InRangeOf
  <2> QED BY <1>1, <2>1, <2>2
<1>3. \A x : x \in Range(p) => x \in Range(r)
  <2> SUFFICES ASSUME NEW i \in 1 .. Len(p) PROVE p[i] \in Range(r)
    BY InRangeOf
  <2>1. i \in 1 .. Len(r) /\ r[i] = p[i]
    BY <1>1
  <2> QED BY <1>1, <2>1, InRangeOf
<1>4. \A x : x \in Range(q) => x \in Range(r)
  <2> SUFFICES ASSUME NEW i \in 1 .. Len(q) PROVE q[i] \in Range(r)
    BY InRangeOf
  <2> DEFINE k == i + Len(p)
  <2>1. k \in 1 .. Len(r) /\ ~(k <= Len(p)) /\ k - Len(p) = i
    BY <1>1
  <2>2. r[k] = q[i]
    BY <1>1, <2>1
  <2> QED BY <1>1, <2>1, <2>2, InRangeOf
<1> QED BY <1>2, <1>3, <1>4 DEF r

\* Two elements in a row
LEMMA PairOfTwo ==
  ASSUME NEW S, NEW x \in S, NEW y \in S
  PROVE  <<x, y>> \in Seq(S) /\ <<x>> \o <<y>> = <<x, y>>
<1>1. <<x>> \in Seq(S) /\ <<y>> \in Seq(S) /\ Len(<<x>>) = 1 /\ Len(<<y>>) = 1
  OBVIOUS
<1>2. <<x, y>> \in Seq(S) /\ Len(<<x, y>>) = 2
  OBVIOUS
<1> DEFINE r == <<x>> \o <<y>>
<1>3. r \in Seq(S) /\ Len(r) = 2 /\ r[1] = x /\ r[2] = y
  BY <1>1
<1> HIDE DEF r
<1>4. r = <<x, y>>
  <2>1. <<x, y>>[1] = x /\ <<x, y>>[2] = y
    OBVIOUS
  <2>2. \A i \in 1 .. 2 : r[i] = <<x, y>>[i]
    <3> TAKE i \in 1 .. 2
    <3>1. i = 1 \/ i = 2
      OBVIOUS
    <3> QED BY <3>1, <2>1, <1>3
  <2> QED BY <1>2, <1>3, <2>2, SeqEqual
<1> QED BY <1>2, <1>4 DEF r

\* Without its last element a sequence free of repetitions is one still.
LEMMA FrontRange ==
  ASSUME NEW S, NEW q \in Seq(S), q # <<>>, IsInjective(q)
  PROVE  /\ SubSeq(q, 1, Len(q) - 1) \in Seq(S)
         /\ Len(SubSeq(q, 1, Len(q) - 1)) = Len(q) - 1
         /\ Range(SubSeq(q, 1, Len(q) - 1)) = Range(q) \ {q[Len(q)]}
         /\ IsInjective(SubSeq(q, 1, Len(q) - 1))
<1> DEFINE k == Len(q)
           r == SubSeq(q, 1, k - 1)
<1>1. k \in Nat \ {0} /\ DOMAIN q = 1 .. k
  BY EmptySeq, LenProperties
<1>2. r \in Seq(S) /\ Len(r) = k - 1 /\ \A i \in 1 .. k - 1 : r[i] = q[i]
  BY <1>1
<1> HIDE DEF r
<1>3. DOMAIN r = 1 .. k - 1
  BY <1>2, LenProperties
<1>4. IsInjective(r)
  BY <1>1, <1>2, <1>3 DEF IsInjective
<1>5. ASSUME NEW x \in Range(r) PROVE x \in Range(q) \ {q[k]}
  <2>1. PICK i \in 1 .. k - 1 : r[i] = x
    BY <1>2, <1>5, InRangeOf
  <2>2. i \in 1 .. k /\ k \in 1 .. k /\ i # k /\ q[i] = x
    <3>1. q[i] = x
      BY <1>2, <2>1
    <3> HIDE DEF k
    <3>2. i \in 1 .. k /\ k \in 1 .. k /\ i # k
      BY <1>1, <2>1
    <3> QED BY <3>1, <3>2
  <2>3. q[i] # q[k]
    BY <1>1, <2>2 DEF IsInjective
  <2> QED BY <1>1, <2>2, <2>3, InRangeOf
<1>6. ASSUME NEW x \in Range(q) \ {q[k]} PROVE x \in Range(r)
  <2>1. PICK i \in 1 .. k : q[i] = x
    BY <1>1, <1>6, InRangeOf
  <2>2. i \in 1 .. k - 1
    BY <1>1, <1>6, <2>1
  <2>3. r[i] = x /\ i \in 1 .. Len(r)
    BY <1>2, <2>1, <2>2
  <2> QED BY <1>2, <2>3, InRangeOf
<1> QED BY <1>1, <1>2, <1>4, <1>5, <1>6 DEF r
=============================================================================
