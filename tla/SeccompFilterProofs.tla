------------------------- MODULE SeccompFilterProofs -------------------------
(***************************************************************************)
(* The seccomp program denies exactly the listed system calls, for every   *)
(* list of at most 255 numbers.                                            *)
(***************************************************************************)
EXTENDS SeccompFilter, TLAPS

USE FilterAssumption

(* Every jump of the program gets to the DENY instruction: the 8-bit       *)
(* offset (deny_count - i) as u8 of entry i loses nothing.                 *)
LEMMA JumpTarget ==
  ASSUME NEW n \in 1..deny_count
  PROVE  /\ jt(n - 1) = deny_count - n + 1
         /\ n + 1 + jt(n - 1) = deny_count + 2
<1>1. deny_count \in Nat /\ deny_count <= 255
  BY DEF deny_count
<1>2. deny_count - (n - 1) \in 0..255
  BY <1>1
<1> QED BY <1>1, <1>2 DEF jt

(* The fields of an instruction.                                           *)
LEMMA Fields ==
  ASSUME NEW c, NEW t, NEW k
  PROVE  /\ Insn(c, t, k).code = c
         /\ Insn(c, t, k).jt = t
         /\ Insn(c, t, k).jf = 0
         /\ Insn(c, t, k).k = k
BY DEF Insn

(* What is at each place of the program.                                   *)
LEMMA ProgramShape ==
  /\ deny_count \in Nat
  /\ total_insns = deny_count + 3
  /\ filter[0].code = "LD"
  /\ \A n \in 1..deny_count :
       /\ filter[n].code = "JEQ"
       /\ filter[n].jt = jt(n - 1)
       /\ filter[n].jf = 0
       /\ filter[n].k = Denied[n]
  /\ filter[deny_count + 1].code = "RET" /\ filter[deny_count + 1].k = RET_ALLOW
  /\ filter[deny_count + 2].code = "RET" /\ filter[deny_count + 2].k = RET_EPERM
<1>1. deny_count \in Nat /\ total_insns = deny_count + 3
  BY DEF deny_count, total_insns
<1>2. filter[0] = Insn("LD", 0, 0)
  BY <1>1 DEF filter
<1>3. ASSUME NEW n \in 1..deny_count
      PROVE  /\ filter[n].code = "JEQ" /\ filter[n].jt = jt(n - 1)
             /\ filter[n].jf = 0 /\ filter[n].k = Denied[n]
  <2>1. n \in 0..(total_insns - 1) /\ n # 0 /\ n <= deny_count
    BY <1>1
  <2>2. filter[n] = Insn("JEQ", jt(n - 1), Denied[n])
    BY <2>1 DEF filter
  <2> QED BY <2>2, Fields
<1>4. filter[deny_count + 1] = Insn("RET", 0, RET_ALLOW)
  <2>1. /\ deny_count + 1 \in 0..(total_insns - 1)
        /\ deny_count + 1 # 0 /\ ~(deny_count + 1 <= deny_count)
    BY <1>1
  <2> QED BY <2>1 DEF filter
<1>5. filter[deny_count + 2] = Insn("RET", 0, RET_EPERM)
  <2>1. /\ deny_count + 2 \in 0..(total_insns - 1) /\ deny_count + 2 # 0
        /\ ~(deny_count + 2 <= deny_count) /\ deny_count + 2 # deny_count + 1
    BY <1>1
  <2> QED BY <2>1 DEF filter
<1>6. filter[0].code = "LD"
  BY <1>2, Fields
<1>7. filter[deny_count + 1].code = "RET" /\ filter[deny_count + 1].k = RET_ALLOW
  BY <1>4, Fields
<1>8. filter[deny_count + 2].code = "RET" /\ filter[deny_count + 2].k = RET_EPERM
  BY <1>5, Fields
<1> QED BY <1>1, <1>3, <1>6, <1>7, <1>8

(* An instruction is the load, a jump or one of the two returns.           *)
LEMMA Places ==
  ASSUME NEW n \in 0..(total_insns - 1)
  PROVE  /\ n = 0 \/ n \in 1..deny_count \/ n = deny_count + 1 \/ n = deny_count + 2
         /\ filter[n].code = "LD" => n = 0
         /\ filter[n].code = "JEQ" => n \in 1..deny_count
         /\ filter[n].code = "RET" => n = deny_count + 1 \/ n = deny_count + 2
<1>1. n = 0 \/ n \in 1..deny_count \/ n = deny_count + 1 \/ n = deny_count + 2
  BY ProgramShape
<1> QED BY <1>1, ProgramShape

(* The kernel accepts the program that apply_seccomp_filter builds.        *)
THEOREM Accepted == KernelAccepts
<1>1. deny_count \in Nat /\ deny_count <= 255
  BY DEF deny_count
<1>2. ASSUME NEW n \in 0..(total_insns - 1), filter[n].code = "JEQ"
      PROVE  n + 1 + filter[n].jt < total_insns /\ n + 1 + filter[n].jf < total_insns
  <2>1. n \in 1..deny_count
    BY <1>2, Places
  <2>2. filter[n].jt = jt(n - 1) /\ filter[n].jf = 0
    BY <2>1, ProgramShape
  <2> QED BY <1>1, <2>1, <2>2, JumpTarget, ProgramShape
<1>3. filter[total_insns - 1].code = "RET"
  <2>1. total_insns - 1 = deny_count + 2
    BY <1>1, ProgramShape
  <2> QED BY <2>1, ProgramShape
<1> QED BY <1>1, <1>2, <1>3, ProgramShape DEF KernelAccepts

Inv == TypeOK /\ FilterInv

(* A step of the installation or of the interpreter keeps the invariant.   *)
LEMMA FilterStep == Inv /\ [Next]_vars => Inv'
<1> SUFFICES ASSUME Inv, [Next]_vars PROVE Inv'
  OBVIOUS
<1> USE DEF Inv
<1>0. deny_count \in Nat /\ total_insns = deny_count + 3
  BY ProgramShape
<1>c. RET_ALLOW # RET_EPERM /\ RET_ALLOW # NoVerdict /\ RET_EPERM # NoVerdict
  BY DEF RET_ALLOW, RET_EPERM, NoVerdict
<1>1. CASE SetNoNewPrivs
  BY <1>1 DEF SetNoNewPrivs, TypeOK, FilterInv, NeverRefused
<1>2. CASE SetSeccomp
  BY <1>2, Accepted DEF SetSeccomp, TypeOK, FilterInv, NeverRefused
<1>3. CASE Load
  <2>1. at = 0
    BY <1>3, Places DEF Load, TypeOK
  <2>2. TypeOK'
    <3>1. at' \in 0..(total_insns - 1)
      BY <1>0, <1>3, <2>1 DEF Load
    <3>2. acc' \in Nat
      BY <1>3 DEF Load, TypeOK
    <3> QED BY <1>3, <3>1, <3>2 DEF Load, TypeOK
  <2> QED BY <1>0, <1>c, <1>3, <2>1, <2>2 DEF Load, Filtering, TypeOK, FilterInv, NeverRefused
<1>4. CASE JumpIfEqual
  <2>1. at \in 1..deny_count
    BY <1>4, Places DEF JumpIfEqual, TypeOK
  <2>2. acc = nr /\ verdict = NoVerdict
    BY <1>4, <2>1 DEF JumpIfEqual, Filtering, TypeOK, FilterInv
  <2>3. at' = IF nr = Denied[at] THEN deny_count + 2 ELSE at + 1
    <3>1. filter[at].jt = jt(at - 1) /\ filter[at].jf = 0 /\ filter[at].k = Denied[at]
      BY <2>1, ProgramShape
    <3>2. at + 1 + jt(at - 1) = deny_count + 2
      BY <2>1, JumpTarget
    <3> QED BY <1>0, <1>4, <2>1, <2>2, <3>1, <3>2 DEF JumpIfEqual
  <2>4. CASE nr = Denied[at]
    <3>1. nr \in DeniedSet
      BY <2>1, <2>4 DEF DeniedSet
    <3>2. at' = deny_count + 2 /\ at' \in 0..(total_insns - 1)
      BY <1>0, <2>3, <2>4
    <3>3. TypeOK'
      BY <1>4, <3>2 DEF JumpIfEqual, TypeOK
    <3> QED BY <1>0, <1>c, <1>4, <2>2, <3>1, <3>2, <3>3
            DEF JumpIfEqual, FilterInv, NeverRefused, DeniedSet
  <2>5. CASE nr # Denied[at]
    <3>1. at' = at + 1 /\ at' <= deny_count + 1
      BY <1>0, <2>1, <2>3, <2>5
    <3>2. \A i \in 1..deny_count : i < at' => Denied[i] # nr
      BY <1>0, <2>1, <2>5, <3>1 DEF FilterInv, TypeOK
    <3> QED BY <1>0, <1>c, <1>4, <2>1, <2>2, <3>1, <3>2
            DEF JumpIfEqual, TypeOK, FilterInv, NeverRefused
  <2> QED BY <2>4, <2>5
<1>5. CASE Ret
  <2>1. \/ at = deny_count + 1 /\ filter[at].k = RET_ALLOW
        \/ at = deny_count + 2 /\ filter[at].k = RET_EPERM
    BY <1>5, Places, ProgramShape DEF Ret, TypeOK
  <2> QED BY <1>0, <1>c, <1>5, <2>1 DEF Ret, TypeOK, FilterInv, NeverRefused
<1>6. CASE NextSyscall
  BY <1>0, <1>c, <1>6 DEF NextSyscall, TypeOK, FilterInv, NeverRefused
<1>7. CASE UNCHANGED vars
  BY <1>7 DEF vars, TypeOK, FilterInv, NeverRefused, DeniedSet
<1> QED BY <1>1, <1>2, <1>3, <1>4, <1>5, <1>6, <1>7 DEF Next, Install, Run

(* The interpreter stays inside the program and knows what it compared.    *)
THEOREM FilterInvariant == Spec => [](TypeOK /\ FilterInv)
<1>1. Init => Inv
  <2> SUFFICES ASSUME Init PROVE Inv
    OBVIOUS
  <2>1. verdict # RET_ALLOW /\ verdict # RET_EPERM
    BY DEF Init, NoVerdict, RET_ALLOW, RET_EPERM
  <2>2. TypeOK
    <3>1. at \in 0..(total_insns - 1)
      BY ProgramShape DEF Init
    <3>2. acc \in Nat
      BY DEF Init
    <3> QED BY <3>1, <3>2 DEF Init, TypeOK
  <2> QED BY <2>1, <2>2, ProgramShape DEF Init, Inv, FilterInv, NeverRefused
<1> QED BY <1>1, FilterStep, PTL DEF Spec, Inv

(* The variables have their types, so `at' never leaves the program.       *)
THEOREM TypeCorrect == Spec => []TypeOK
<1> QED BY FilterInvariant, PTL

(* The verdict is EPERM exactly for the denied system calls.               *)
THEOREM DeniesList == Spec => []DeniesExactlyTheList
<1>1. TypeOK /\ FilterInv => DeniesExactlyTheList
  <2> SUFFICES ASSUME TypeOK, FilterInv PROVE DeniesExactlyTheList
    OBVIOUS
  <2>1. verdict = RET_EPERM => nr \in DeniedSet
    BY DEF FilterInv
  <2>2. ASSUME verdict = RET_ALLOW PROVE nr \notin DeniedSet
    <3>1. deny_count \in Nat /\ at = deny_count + 1
      BY <2>2, ProgramShape DEF FilterInv
    <3>2. \A i \in 1..deny_count : Denied[i] # nr
      BY <3>1 DEF FilterInv
    <3> QED BY <3>2 DEF DeniedSet
  <2> QED BY <2>1, <2>2 DEF DeniesExactlyTheList
<1> QED BY <1>1, FilterInvariant, PTL

(* The kernel never refuses the filter for a fault of the code.            *)
THEOREM AlwaysAccepted == Spec => []NeverRefused
<1>1. FilterInv => NeverRefused
  BY DEF FilterInv
<1> QED BY <1>1, FilterInvariant, PTL
=============================================================================
