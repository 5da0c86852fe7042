------------------------------ MODULE MCNetwork ------------------------------
(* Small instances of Network for TLC: the tasks of one process.            *)
EXTENDS Network

CONSTANTS c1, c2, p1

OneProcess(c) == p1
OwnPrefix(c) == c
=============================================================================
