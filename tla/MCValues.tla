---- MODULE MCValues ----
(***************************************************************************)
(* Small instances of LuaX and Timespec for TLC: a function that works on  *)
(* tables, one that reads an argument, and a program that computes with    *)
(* times.                                                                  *)
(***************************************************************************)
EXTENDS LuaX, Timespec

VARIABLE part
vars == <<luaVars, timeVars, part>>

MCTypes == {[signed |-> TRUE, max |-> 3], [signed |-> TRUE, max |-> 7],
            [signed |-> FALSE, max |-> 7], [signed |-> FALSE, max |-> 15]}
MCNames == {"a", "b"}
MCNameLists == UNION {[1 .. n -> MCNames] : n \in 1 .. 3}
MCScalars == {Integer(1)}
MCArguments ==
  {Nil, Boolean(TRUE), Str("a")}
  \cup {Integer(n) : n \in Integers} \cup {Numeral(n) : n \in Integers}
  \cup {Float(h) : h \in -3 .. 4} \cup {Udata(n) : n \in MCNames \cup {"other"}}
MCNumbers == -4 .. 5
MCSeconds == 0 .. 1

Init ==
  \/ part = "lua" /\ LuaStart /\ x = FromNumber(0) /\ y = FromNumber(0) /\ out = NoOut
  \/ part = "times" /\ StartTimes /\ work = "none" /\ StartWith(<<>>, "5.3")

Next ==
  /\ UNCHANGED part
  /\ \/ part = "lua" /\ LuaNext /\ UNCHANGED timeVars
     \/ part = "times" /\ TimeNext /\ UNCHANGED luaVars

Spec == Init /\ [][Next]_vars
====
