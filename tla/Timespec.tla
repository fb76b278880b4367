------------------------------ MODULE Timespec ------------------------------
(***************************************************************************)
(* The values of src/lua/timespec.cpp and what is computed with them: sums *)
(* and differences of times, their types, the elapsed time of a timer and  *)
(* the milliseconds a selector waits.  A second has Second units in place  *)
(* of 10^9 nanoseconds, and a double holds every number of units exactly.  *)
(***************************************************************************)
EXTENDS Integers

CONSTANTS
  Milli,      \* units in a millisecond, 10^6
  PerSecond,  \* milliseconds in a second, 1000
  IntMax,     \* of int
  Numbers,    \* numbers a program uses as times, in units
  Seconds,    \* seconds of a table
  MaxSec      \* bound on the seconds of a value, either sign

ASSUME TimespecAssumption ==
  /\ {Milli, PerSecond, IntMax, MaxSec} \subseteq Nat \ {0}
  /\ Numbers \subseteq Int /\ Seconds \subseteq Int

Second == Milli * PerSecond

R == "realtime"
M == "monotonic"
D == "duration"
U == "unknown"
TypesOfTime == {R, M, D, U}

VARIABLES
  x, y,   \* two values of the program, tables or numbers
  out     \* what a function returned that is no timespec
timeVars == <<x, y, out>>

NoOut == <<"none", 0>>
Time(sec, nsec, type) == [form |-> "table", sec |-> sec, nsec |-> nsec, type |-> type]

-----------------------------------------------------------------------------
matrix(rows) == [a \in TypesOfTime |-> [b \in TypesOfTime |->
  LET at == [t \in TypesOfTime |-> CHOOSE n \in 1 .. 4 : <<R, M, D, U>>[n] = t]
  IN rows[at[a]][at[b]]]]

TIMESPEC_TYPE_MATRIX_ADD == matrix(
  <<<<U, U, R, R>>,
    <<U, U, M, M>>,
    <<R, M, D, U>>,
    <<R, M, U, U>>>>)

TIMESPEC_TYPE_MATRIX_SUB == matrix(
  <<<<D, U, R, U>>,
    <<U, D, M, U>>,
    <<U, U, D, D>>,
    <<D, D, U, U>>>>)

TIMESPEC_TYPE_MATRIX_CALL == matrix(
  <<<<R, M, D, R>>,
    <<R, M, D, M>>,
    <<R, M, D, D>>,
    <<R, M, D, U>>>>)

\* Mutant: a second is carried only when there is more than one.
add_late_carry(a, b) ==
  LET nsec == a.nsec + b.nsec
      carry == IF nsec > Second THEN 1 ELSE 0
  IN Time(a.sec + b.sec + carry, nsec - carry * Second, TIMESPEC_TYPE_MATRIX_ADD[a.type][b.type])

impl_add(a, b) ==
  LET nsec == a.nsec + b.nsec
      carry == IF nsec > Second - 1 THEN 1 ELSE 0
  IN Time(a.sec + b.sec + carry, nsec - carry * Second, TIMESPEC_TYPE_MATRIX_ADD[a.type][b.type])

impl_sub(a, b) ==
  LET nsec == a.nsec - b.nsec
      borrow == IF nsec < 0 THEN 1 ELSE 0
  IN Time(a.sec - b.sec - borrow, nsec + borrow * Second, TIMESPEC_TYPE_MATRIX_SUB[a.type][b.type])

impl_eq(a, b) == a.sec = b.sec /\ a.nsec = b.nsec
impl_lt(a, b) == IF a.sec = b.sec THEN a.nsec < b.nsec ELSE a.sec < b.sec
impl_le(a, b) == IF a.sec = b.sec THEN a.nsec <= b.nsec ELSE a.sec <= b.sec
impl_call(a, type) == Time(a.sec, a.nsec, TIMESPEC_TYPE_MATRIX_CALL[a.type][type])

\* modf cuts towards zero and gives both parts the sign of the number.
Cut(n, d) == IF n < 0 THEN -(-n \div d) ELSE n \div d
FromNumber(units) ==
  LET sec == Cut(units, Second)
  IN [Time(sec, units - sec * Second, U) EXCEPT !.form = "number"]

\* The table form refuses what is not a number of nanoseconds.
check_nsec(a) == 0 <= a.nsec /\ a.nsec <= Second - 1

\* timer::elapsed, as a double
elapsed(start, stop) ==
  LET n == stop.nsec - start.nsec
      borrow == IF n < 0 THEN 1 ELSE 0
  IN (stop.sec - start.sec - borrow) * Second + n + borrow * Second

\* selector_epoll::select: into an int, which wraps
AsInt(n) == ((n + IntMax + 1) % (2 * (IntMax + 1))) - (IntMax + 1)
epoll_timeout(a) == AsInt(a.sec * PerSecond + Cut(a.nsec, Milli))

-----------------------------------------------------------------------------
Within(a) == a.sec \in -MaxSec .. MaxSec

StartTimes == x \in {Time(0, 0, t) : t \in TypesOfTime} /\ y = Time(0, 0, D) /\ out = NoOut

LoadNumber ==
  /\ \E units \in Numbers : x' = FromNumber(units)
  /\ out' = NoOut /\ UNCHANGED y

LoadTable ==
  /\ \E sec \in Seconds, nsec \in 0 .. Second - 1, t \in TypesOfTime : x' = Time(sec, nsec, t)
  /\ out' = NoOut /\ UNCHANGED y

Swap == x' = y /\ y' = x /\ out' = NoOut

Accepted(a) == a.form = "number" \/ check_nsec(a)
\* As the functions of unix.timespec take them; Lua calls the metamethods with
\* at least one table.
Operands == Accepted(x) /\ Accepted(y)
Gives(z) == Within(z) /\ x' = z /\ out' = NoOut /\ UNCHANGED y
Says(v) == out' = v /\ UNCHANGED <<x, y>>

Add == Operands /\ Gives(impl_add(x, y))
Sub == Operands /\ Gives(impl_sub(x, y))
SetType == \E t \in TypesOfTime : Accepted(x) /\ Gives(impl_call(x, t))
Compare == Operands /\ Says(<<impl_eq(x, y), impl_lt(x, y), impl_le(x, y)>>)
Elapsed == check_nsec(x) /\ check_nsec(y) /\ Says(<<"elapsed", elapsed(x, y)>>)
Wait == Accepted(x) /\ Says(<<"timeout", epoll_timeout(x)>>)

TimeNext == LoadNumber \/ LoadTable \/ Swap \/ Add \/ Sub \/ SetType \/ Compare \/ Elapsed \/ Wait

TimeSpec == StartTimes /\ [][TimeNext]_timeVars

-----------------------------------------------------------------------------
Units(a) == a.sec * Second + a.nsec
Normal(a) == check_nsec(a)

\* A point of either clock, or a length; an unknown is any of the three.
Possible(t) == IF t = U THEN {R, M, D} ELSE {t}
Sums(a, b) == IF b = D THEN {a} ELSE IF a = D THEN {b} ELSE {}
Differences(a, b) == IF a = b THEN {D} ELSE IF b = D THEN {a} ELSE {}
OneOrUnknown(S) == IF \E t \in S : S = {t} THEN CHOOSE t \in S : TRUE ELSE U
TypeOfSum(a, b) == OneOrUnknown(UNION {UNION {Sums(s, t) : t \in Possible(b)} : s \in Possible(a)})
TypeOfDifference(a, b) ==
  OneOrUnknown(UNION {UNION {Differences(s, t) : t \in Possible(b)} : s \in Possible(a)})

\* Sums and differences are exact, of normal values normal, and typed as
\* points and lengths of time are.
SumsPromise ==
  /\ Add => /\ Units(x') = Units(x) + Units(y)
            /\ Normal(x) /\ Normal(y) => Normal(x')
            /\ x'.type = TypeOfSum(x.type, y.type)
  /\ Sub => /\ Units(x') = Units(x) - Units(y)
            /\ Normal(x) /\ Normal(y) => Normal(x')
            /\ x'.type = TypeOfDifference(x.type, y.type)

\* Normal values compare as the times they are.
ComparePromise ==
  /\ Compare /\ Normal(x) /\ Normal(y) =>
       out' = <<Units(x) = Units(y), Units(x) < Units(y), Units(x) <= Units(y)>>
  /\ Elapsed => out'[2] = Units(y) - Units(x)

\* A wait that fits an int is not longer than asked, and is not shorter by a
\* millisecond; only no timeout at all waits for ever.
WaitPromise ==
  Wait /\ Normal(x) /\ x.sec >= 0 /\ x.sec * PerSecond + PerSecond <= IntMax =>
    out'[2] * Milli <= Units(x) /\ Units(x) < (out'[2] + 1) * Milli

(* Computing with times is exact: a long sequence of sums and differences   *)
(* neither loses a unit nor leaves the form that the functions accept, and  *)
(* a wait is as long as was asked to the millisecond.                       *)
TimesAreExact == [][SumsPromise /\ ComparePromise /\ WaitPromise]_timeVars
=============================================================================
