------------------------------ MODULE MCCgroup ------------------------------
(* Small instance of Cgroup for TLC: two managers for two containers, or   *)
(* for the same identifier with different limits.                          *)
EXTENDS Cgroup, TLC

CONSTANTS m1, m2, p1, p2, low, high

(* One with every kind of limit, one with two of them.                     *)
All == [f \in Files |-> low]
Some == [f \in Files |-> IF f \in {"memory.high", "pids.max"} THEN high ELSE Unlimited]

Two(q1, q2) == m1 :> [path |-> q1, limits |-> All] @@ m2 :> [path |-> q2, limits |-> Some]

MCSettings == {Two(p1, p2), Two(p1, p1)}
=============================================================================
