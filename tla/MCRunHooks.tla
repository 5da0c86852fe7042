----------------------------- MODULE MCRunHooks -----------------------------
(* Small instance of RunHooks for TLC: lists of up to two hooks.           *)
EXTENDS RunHooks

(* A negative timeout counts as zero.                                      *)
MCTimeouts == {-1, 1}
=============================================================================
