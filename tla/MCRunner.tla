-------------------------------- MODULE MCRunner --------------------------------
(* An instance of Runner for TLC: the root and two more pids. *)
EXTENDS Runner

CONSTANTS root, p1, p2

Pids3 == {root, p1, p2}
================================================================================
