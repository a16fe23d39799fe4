---------------------------- MODULE MCStateStore ----------------------------
(* A small instance of StateStore for TLC: two threads of the server and a command *)
(* line process.                                                                   *)
EXTENDS StateStore, TLC

CONSTANTS form1, form2, cli, server, terminal

HomeOf == [a \in Actors |-> IF a = cli THEN terminal ELSE server]
Interchangeable == Permutations({form1, form2})
=============================================================================
