---- MODULE MCLuaTasks ----
(* A small instance of LuaTasks for TLC. *)
EXTENDS LuaTasks
====
