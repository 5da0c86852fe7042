------------------------- MODULE MCContainerProcess -------------------------
(* Small instance of ContainerProcess for TLC: two containers that are     *)
(* alone on their roots or were given the same one.                        *)
EXTENDS ContainerProcess, TLC

CONSTANTS first, second, dirA, dirB

Pair(k1, r1, k2, r2) ==
  first :> [kind |-> k1, root |-> r1] @@ second :> [kind |-> k2, root |-> r2]

(* A temporary root beside a detached container; the same identifier       *)
(* twice; one `rootfs' for two containers.                                 *)
MCSettings ==
  {Pair("run", dirA, "spawn", dirB), Pair("run", dirA, "run", dirA),
   Pair("run_on", dirA, "spawn", dirA)}
=============================================================================
