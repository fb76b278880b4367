---- MODULE MCLuaCalls ----
(* A small instance of LuaCalls for TLC. *)
EXTENDS LuaCalls

Symmetry == Permutations(Obj)
====
