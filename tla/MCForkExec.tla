---- MODULE MCForkExec ----
(* Small instances of ForkExec for TLC. *)
EXTENDS ForkExec

\* Sources: no redirection, stdin, stdout, a file of the caller, a closed number.
MCSources == {None, 0, 1, 3, 9}
MCFlags == {{}, {1}, {3}}
====
