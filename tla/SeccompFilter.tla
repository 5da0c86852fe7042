---------------------------- MODULE SeccompFilter ----------------------------
(***************************************************************************)
(* The seccomp filter of a container (apply_seccomp_filter in              *)
(* src/security/mod.rs): the classic BPF program that is built from the    *)
(* list of denied system calls, its installation by two prctl calls, and   *)
(* the kernel's interpreter running it for one system call after another.  *)
(***************************************************************************)
EXTENDS Integers, Sequences

CONSTANTS
  Denied,     \* denied_syscalls, a list of numbers
  Syscalls    \* the system calls that the process makes

(* More than 255 entries do not fit the 8-bit jump offset.                 *)
ASSUME FilterAssumption ==
  /\ Denied \in Seq(Nat)
  /\ Len(Denied) <= 255
  /\ Syscalls \subseteq Nat

VARIABLES
  phase,     \* how far apply_seccomp_filter is
  noNewPrivs,\* the process has PR_SET_NO_NEW_PRIVS
  nr,        \* the system call that is being made
  at,        \* the interpreter's program counter
  acc,       \* the interpreter's accumulator
  verdict    \* what the filter returned for nr

vars == <<phase, noNewPrivs, nr, at, acc, verdict>>

RET_ALLOW == "allow"   \* SECCOMP_RET_ALLOW
RET_EPERM == "eperm"   \* SECCOMP_RET_ERRNO | EPERM
NoVerdict == "none"

deny_count == Len(Denied)
total_insns == 1 + deny_count + 2

-----------------------------------------------------------------------------
(* Mutant: the offset counted to the ALLOW instruction.                    *)
jt_short(i) == (deny_count - i - 1) % 256

(* The offset `(deny_count - i) as u8' of the list's entry i, from 0.      *)
jt(i) == (deny_count - i) % 256

Insn(c, t, k) == [code |-> c, jt |-> t, jf |-> 0, k |-> k]

(* Mutant: the DENY instruction returns an action without an error number. *)
filter_no_errno ==
  [n \in 0..(total_insns - 1) |->
     IF n = 0 THEN Insn("LD", 0, 0)
     ELSE IF n <= deny_count THEN Insn("JEQ", jt(n - 1), Denied[n])
     ELSE IF n = deny_count + 1 THEN Insn("RET", 0, RET_ALLOW)
     ELSE Insn("RET", 0, "errno 0")]

(* The vector `filter', numbered from 0.                                   *)
filter ==
  [n \in 0..(total_insns - 1) |->
     IF n = 0 THEN Insn("LD", 0, 0)
     ELSE IF n <= deny_count THEN Insn("JEQ", jt(n - 1), Denied[n])
     ELSE IF n = deny_count + 1 THEN Insn("RET", 0, RET_ALLOW)
     ELSE Insn("RET", 0, RET_EPERM)]

(* What the kernel checks of a program: its length, that no jump leaves it *)
(* and that it ends with a return.                                         *)
KernelAccepts ==
  /\ total_insns <= 4096
  /\ \A n \in 0..(total_insns - 1) :
       filter[n].code = "JEQ" =>
         /\ n + 1 + filter[n].jt < total_insns
         /\ n + 1 + filter[n].jf < total_insns
  /\ filter[total_insns - 1].code = "RET"

TypeOK ==
  /\ phase \in {"no_new_privs", "set_seccomp", "installed", "refused", "failed"}
  /\ noNewPrivs \in BOOLEAN
  /\ nr \in Syscalls
  /\ at \in 0..(total_insns - 1)
  /\ acc \in Nat
  /\ verdict \in {NoVerdict, RET_ALLOW, RET_EPERM}

Init ==
  /\ phase = "no_new_privs"
  /\ noNewPrivs = FALSE
  /\ nr \in Syscalls
  /\ at = 0
  /\ acc = 0
  /\ verdict = NoVerdict

-----------------------------------------------------------------------------
(* Mutant: the process attribute is not set before the filter.             *)
SkipNoNewPrivs ==
  /\ phase = "no_new_privs"
  /\ phase' = "set_seccomp"
  /\ UNCHANGED <<noNewPrivs, nr, at, acc, verdict>>

(* prctl(PR_SET_NO_NEW_PRIVS).                                             *)
SetNoNewPrivs ==
  /\ phase = "no_new_privs"
  /\ \/ phase' = "set_seccomp" /\ noNewPrivs' = TRUE
     \/ phase' = "failed" /\ UNCHANGED noNewPrivs
  /\ UNCHANGED <<nr, at, acc, verdict>>

(* prctl(PR_SET_SECCOMP): the kernel refuses a program it does not accept, *)
(* and a process that could gain privileges.  Either call may also fail    *)
(* for a reason of the kernel's own (seccomp is not built in, no memory).  *)
(* The code returns the same error for both.                               *)
SetSeccomp ==
  /\ phase = "set_seccomp"
  /\ \/ phase' = IF noNewPrivs /\ KernelAccepts THEN "installed" ELSE "refused"
     \/ phase' = "failed"
  /\ UNCHANGED <<noNewPrivs, nr, at, acc, verdict>>

Filtering == phase = "installed" /\ verdict = NoVerdict

Load ==
  /\ Filtering
  /\ filter[at].code = "LD"
  /\ acc' = nr
  /\ at' = at + 1
  /\ UNCHANGED <<phase, noNewPrivs, nr, verdict>>

JumpIfEqual ==
  /\ Filtering
  /\ filter[at].code = "JEQ"
  /\ at' = at + 1 + IF acc = filter[at].k THEN filter[at].jt ELSE filter[at].jf
  /\ UNCHANGED <<phase, noNewPrivs, nr, acc, verdict>>

Ret ==
  /\ Filtering
  /\ filter[at].code = "RET"
  /\ verdict' = filter[at].k
  /\ UNCHANGED <<phase, noNewPrivs, nr, at, acc>>

(* The command makes its next system call; the kernel starts the program   *)
(* from its beginning.                                                     *)
NextSyscall ==
  /\ phase = "installed"
  /\ verdict # NoVerdict
  /\ nr' \in Syscalls
  /\ at' = 0
  /\ acc' = 0
  /\ verdict' = NoVerdict
  /\ UNCHANGED <<phase, noNewPrivs>>

Install == SetNoNewPrivs \/ SetSeccomp
Run == Load \/ JumpIfEqual \/ Ret

Next == Install \/ Run \/ NextSyscall

Spec == Init /\ [][Next]_vars

-----------------------------------------------------------------------------
DeniedSet == {Denied[i] : i \in 1..deny_count}

(***************************************************************************)
(* The program denies exactly the system calls of the list: every jump,    *)
(* from the first entry to the last, gets to the DENY instruction, past    *)
(* ALLOW, and falling through all of them gets to ALLOW.                   *)
(***************************************************************************)
DeniesExactlyTheList ==
  /\ verdict = RET_EPERM => nr \in DeniedSet
  /\ verdict = RET_ALLOW => nr \notin DeniedSet

(***************************************************************************)
(* The kernel never refuses the filter for a fault of the code: the        *)
(* program is one that it accepts and the process attribute is set first.  *)
(***************************************************************************)
NeverRefused == phase # "refused"

(***************************************************************************)
(* The inductive invariant behind both: the interpreter has compared the   *)
(* number with all entries that it has passed, and is at DENY only because *)
(* one of them was equal.                                                  *)
(***************************************************************************)
FilterInv ==
  /\ phase \in {"set_seccomp", "installed"} => noNewPrivs
  /\ at > 0 => acc = nr
  /\ at <= deny_count + 1 => \A i \in 1..deny_count : i < at => Denied[i] # nr
  /\ at = deny_count + 2 => nr \in DeniedSet
  /\ verdict = RET_ALLOW => at = deny_count + 1
  /\ verdict = RET_EPERM => at = deny_count + 2
  /\ NeverRefused
=============================================================================
