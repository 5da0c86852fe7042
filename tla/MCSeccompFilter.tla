--------------------------- MODULE MCSeccompFilter ---------------------------
(* The instance of SeccompFilter that the code builds, for TLC.            *)
EXTENDS SeccompFilter

(* denied_syscalls of src/security/mod.rs with the numbers of syscall_nr.  *)
DeniedByDefault ==
  <<169, 246, 320, 165, 101, 248, 249, 250, 298, 321, 323, 175, 313, 176,
    163, 164, 227, 167, 168>>

AllSyscalls == 0..462
=============================================================================
