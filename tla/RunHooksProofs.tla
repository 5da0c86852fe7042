---------------------------- MODULE RunHooksProofs ----------------------------
(***************************************************************************)
(* Proofs about RunHooks, for lists of any length, any timeouts and hooks  *)
(* of every kind: the order of the hooks, and that none is left running.   *)
(***************************************************************************)
EXTENDS RunHooks, SequenceTheorems, TLAPS

(* The runner is at a hook that it has spawned, and polls one.             *)
AtHook == {"write", "poll", "check", "sleep", "wait"}
Polling == {"poll", "check", "sleep"}

(***************************************************************************)
(* The hooks before the runner's one have succeeded and were reaped, the   *)
(* ones after it were not started; the one it is at has not been reaped    *)
(* yet, and when run_hooks has returned it does not run.                   *)
(***************************************************************************)
HookInv ==
  /\ \A k \in Numbers : k < at => child[k] = "gone" /\ exit[k] = "success"
  /\ \A k \in Numbers : k > at => child[k] = "none"
  /\ pc = "next" /\ at \in Numbers => child[at] = "none"
  /\ pc \in AtHook => at \in Numbers /\ child[at] \in Alive \cup {"zombie"}
  /\ pc \in Polling => HasTimeout(at)
  /\ pc # "returned" => result = "none"
  /\ result = "ok" => at = Len(hooks) + 1
  /\ pc = "returned" /\ ~lost /\ at \in Numbers => child[at] \notin Alive

HooksInv == TypeOK /\ HookInv
-----------------------------------------------------------------------------
(* A list of hooks is a function on its numbers.                           *)
LEMMA HookList ==
  ASSUME hooks \in BoundedSeq(Hooks, MaxHooks)
  PROVE  Len(hooks) \in Nat /\ hooks \in [Numbers -> Hooks]
<1>1. PICK n \in 0..MaxHooks : hooks \in [1..n -> Hooks]
  BY DEF BoundedSeq, SeqOf
<1>2. n \in Nat
  BY HooksAssumption
<1>3. hooks \in Seq(Hooks)
  BY <1>1, <1>2, SeqDef
<1>4. Len(hooks) = n
  BY <1>1, <1>2, <1>3, LenProperties
<1>5. QED BY <1>1, <1>2, <1>4 DEF Numbers

(* What is left of a poll that has not timed out ends within the horizon.  *)
LEMMA SleepEnds ==
  ASSUME TypeOK, NEW k \in Numbers, HasTimeout(k), elapsed <= dur(k)
  PROVE  elapsed + 1 \in 0..Horizon
<1>1. hooks[k].timeout \in Timeouts
  BY HookList DEF TypeOK, HasTimeout, Hooks
<1>2. hooks[k].timeout \in Int /\ hooks[k].timeout + 1 < Horizon
  BY <1>1, HooksAssumption
<1>3. QED BY <1>2, HooksAssumption DEF TypeOK, dur

LEMMA TypeStep == HooksInv /\ [Next]_vars => TypeOK'
<1> SUFFICES ASSUME HooksInv, [Next]_vars PROVE TypeOK'
  OBVIOUS
<1>t. TypeOK /\ HookInv /\ Len(hooks) \in Nat
  BY HookList DEF HooksInv, TypeOK
<1> USE DEF Constant, Numbers
<1>1. CASE AllDone /\ Constant
  BY <1>t, <1>1 DEF AllDone, Return, TypeOK, Steps
<1>2. CASE Spawn /\ Constant
  BY <1>t, <1>2 DEF Spawn, Return, TypeOK, Steps, Children, Alive
<1>3. CASE WriteState /\ Constant
  <2>1. 0 \in 0..Horizon
    BY HooksAssumption
  <2>2. QED BY <1>t, <1>3, <2>1 DEF WriteState, TypeOK, Steps
<1>4. ASSUME Reap, at \in Numbers
      PROVE  /\ child' \in [Numbers -> Children] /\ pc' \in Steps
             /\ at' \in 1..Len(hooks) + 1 /\ result' \in {"none", "ok", "error"}
             /\ lost' = lost
  BY <1>t, <1>4 DEF Reap, Return, TypeOK, Steps, Children
<1>5. CASE TryWait /\ Constant
  <2>1. at \in Numbers
    BY <1>t, <1>5 DEF TryWait, HookInv, AtHook
  <2>2. CASE child[at] = "zombie"
    BY <1>t, <1>4, <1>5, <2>1, <2>2 DEF TryWait, TypeOK
  <2>3. CASE child[at] # "zombie"
    BY <1>t, <1>5, <2>3 DEF TryWait, TypeOK, Steps
  <2>4. QED BY <2>2, <2>3
<1>6. CASE Wait /\ Constant
  <2>1. at \in Numbers
    BY <1>t, <1>6 DEF Wait, HookInv, AtHook
  <2>2. QED BY <1>t, <1>4, <1>6, <2>1 DEF Wait, TypeOK
<1>7. CASE WaitFails /\ Constant
  BY <1>t, <1>7 DEF WaitFails, Return, TypeOK, Steps
<1>8. CASE CheckTime /\ Constant
  <2>1. at \in Numbers /\ HasTimeout(at)
    BY <1>t, <1>8 DEF CheckTime, HookInv, AtHook, Polling
  <2>2. CASE elapsed > dur(at)
    BY <1>t, <1>8, <2>1, <2>2 DEF CheckTime, Return, TypeOK, Steps, Children
  <2>3. CASE ~(elapsed > dur(at))
    <3>1. elapsed <= dur(at)
      <4>1. hooks[at].timeout \in Int
        BY <1>t, <2>1, HookList, HooksAssumption DEF TypeOK, HasTimeout, Hooks
      <4>2. QED BY <1>t, <2>3, <4>1, HooksAssumption DEF TypeOK, dur
    <3>2. elapsed + 1 \in 0..Horizon
      BY <1>t, <2>1, <3>1, SleepEnds
    <3>3. QED BY <1>t, <1>8, <2>3, <3>2 DEF CheckTime, TypeOK, Steps
  <2>4. QED BY <2>2, <2>3
<1>9. CASE Wake /\ Constant
  BY <1>t, <1>9 DEF Wake, TypeOK, Steps
<1>10. CASE Clock
  <2>1. elapsed + 1 \in 0..Horizon
    BY <1>t, <1>10, HooksAssumption DEF Clock, Tick, TypeOK
  <2>2. QED BY <1>t, <1>10, <2>1 DEF Clock, Tick, TypeOK
<1>11. ASSUME NEW k \in Numbers, HookStep(k) PROVE TypeOK'
  <2>1. CASE ReadsInput(k)
    BY <1>t, <1>11, <2>1 DEF HookStep, ReadsInput, TypeOK
  <2>2. CASE \E what \in {"zombie", "blocked"}, how \in {"none", "success", "failure"} :
               Becomes(k, what, how)
    BY <1>t, <1>11, <2>2 DEF HookStep, Becomes, TypeOK, Children, Alive
  <2>3. QED
    BY <1>11, <2>1, <2>2 DEF HookStep, FillsOutput, OutputClosed, Ends, Dies
<1>12. CASE UNCHANGED vars
  BY <1>t, <1>12 DEF TypeOK, vars
<1>13. QED
  BY <1>1, <1>2, <1>3, <1>5, <1>6, <1>7, <1>8, <1>9, <1>10, <1>11, <1>12
     DEF Next, Runner, Fault
-----------------------------------------------------------------------------
(* Reaping a hook that has succeeded makes it one of those before the next.*)
LEMMA ReapStep ==
  ASSUME HooksInv, Constant, Reap, at \in Numbers, pc \in AtHook, exit' = exit
  PROVE  HookInv'
<1> USE DEF Constant, Numbers, HookInv, AtHook, Polling
<1>1. /\ Len(hooks) \in Nat /\ at \in 1..Len(hooks)
      /\ child' = [child EXCEPT ![at] = "gone"]
      /\ child \in [1..Len(hooks) -> Children] /\ HookInv
  BY HookList DEF HooksInv, TypeOK, Reap
<1>2. \A k \in 1..Len(hooks) : k # at => child'[k] = child[k]
  BY <1>1
<1>3. CASE exit[at] = "success"
  <2>1. pc' = "next" /\ at' = at + 1 /\ result' = result /\ result = "none"
    BY <1>1, <1>3 DEF Reap
  <2>2. \A k \in 1..Len(hooks) : k < at' => child'[k] = "gone" /\ exit[k] = "success"
    BY <1>1, <1>2, <1>3, <2>1
  <2>3. \A k \in 1..Len(hooks) : k >= at' => child'[k] = "none"
    BY <1>1, <1>2, <2>1
  <2>4. QED BY <2>1, <2>2, <2>3, <1>1
<1>4. CASE exit[at] # "success"
  <2>1. pc' = "returned" /\ result' = "error" /\ at' = at
    BY <1>4 DEF Reap, Return
  <2>2. child'[at] = "gone"
    BY <1>1
  <2>3. QED BY <1>1, <1>2, <2>1, <2>2 DEF Alive
<1>5. QED BY <1>3, <1>4

(* A hook that changes by itself goes on being at its place in the list.   *)
LEMMA HookChanges ==
  ASSUME HooksInv, Constant, NEW k \in Numbers, NEW what \in {"zombie", "blocked"},
         NEW how, Becomes(k, what, how), child[k] \in Alive \cup {"doomed"},
         pc = "returned" => what = "zombie",
         child[k] = "doomed" => what = "zombie"
  PROVE  HookInv'
<1> USE DEF Constant, Numbers, HookInv, AtHook, Polling, Alive
<1>1. /\ Len(hooks) \in Nat /\ at \in 1..Len(hooks) + 1
      /\ child' = [child EXCEPT ![k] = what] /\ exit' = [exit EXCEPT ![k] = how]
      /\ child \in [1..Len(hooks) -> Children] /\ HookInv
      /\ exit \in [1..Len(hooks) -> {"none", "success", "failure"}]
      /\ UNCHANGED <<pc, at, result, lost, hooks>>
  BY HookList DEF HooksInv, TypeOK, Becomes
<1>2. k = at
  BY <1>1
<1>3. \A j \in 1..Len(hooks) : j # at => child'[j] = child[j] /\ exit'[j] = exit[j]
  BY <1>1, <1>2
<1>4. child'[at] = what
  BY <1>1, <1>2
<1>5. QED BY <1>1, <1>2, <1>3, <1>4 DEF HasTimeout

LEMMA HookInvStep == HooksInv /\ [Next]_vars => HookInv'
<1> SUFFICES ASSUME HooksInv, [Next]_vars PROVE HookInv'
  OBVIOUS
<1>t. /\ Len(hooks) \in Nat /\ at \in 1..Len(hooks) + 1
      /\ child \in [1..Len(hooks) -> Children] /\ HookInv
  BY HookList DEF HooksInv, TypeOK, Numbers
<1> USE DEF Constant, Numbers, AtHook, Polling, Alive
<1>1. CASE AllDone /\ Constant
  BY <1>t, <1>1 DEF AllDone, Return, HookInv, HasTimeout
<1>2. CASE Spawn /\ Constant
  <2>1. pc = "next" /\ at \in 1..Len(hooks) /\ child[at] = "none" /\ result = "none"
    BY <1>t, <1>2 DEF Spawn, HookInv
  <2>2. CASE pc' = "write"
    <3>1. child' = [child EXCEPT ![at] = "running"]
      BY <1>2, <2>2 DEF Spawn, Return
    <3>2. child'[at] = "running" /\ \A k \in 1..Len(hooks) : k # at => child'[k] = child[k]
      BY <1>t, <2>1, <3>1
    <3>3. QED BY <1>t, <1>2, <2>1, <2>2, <3>2 DEF Spawn, Return, HookInv, HasTimeout
  <2>3. CASE pc' # "write"
    <3>1. pc' = "returned" /\ result' = "error" /\ child' = child
      BY <1>2, <2>3 DEF Spawn, Return
    <3>2. QED BY <1>t, <1>2, <2>1, <3>1 DEF Spawn, HookInv, HasTimeout
  <2>4. QED BY <2>2, <2>3
<1>3. CASE WriteState /\ Constant
  BY <1>t, <1>3 DEF WriteState, HookInv, HasTimeout
<1>4. CASE TryWait /\ Constant
  <2>1. CASE child[at] = "zombie"
    BY <1>t, <1>4, <2>1, ReapStep DEF TryWait, HookInv
  <2>2. CASE child[at] # "zombie"
    BY <1>t, <1>4, <2>2 DEF TryWait, HookInv, HasTimeout
  <2>3. QED BY <2>1, <2>2
<1>5. CASE Wait /\ Constant
  BY <1>t, <1>5, ReapStep DEF Wait, HookInv
<1>6. CASE WaitFails /\ Constant
  BY <1>t, <1>6 DEF WaitFails, Return, HookInv, HasTimeout
<1>7. CASE CheckTime /\ Constant
  <2>1. CASE elapsed > dur(at)
    <3>1. /\ at \in 1..Len(hooks) /\ pc' = "returned" /\ result' = "error" /\ at' = at
          /\ child' = [child EXCEPT ![at] = IF @ \in Alive THEN "doomed" ELSE @]
      BY <1>t, <1>7, <2>1 DEF CheckTime, Return, HookInv
    <3>2. child'[at] \notin Alive /\ \A k \in 1..Len(hooks) : k # at => child'[k] = child[k]
      BY <1>t, <3>1
    <3>3. QED BY <1>t, <1>7, <3>1, <3>2 DEF CheckTime, HookInv, HasTimeout
  <2>2. CASE ~(elapsed > dur(at))
    BY <1>t, <1>7, <2>2 DEF CheckTime, HookInv, HasTimeout
  <2>3. QED BY <2>1, <2>2
<1>8. CASE Wake /\ Constant
  BY <1>t, <1>8 DEF Wake, HookInv, HasTimeout
<1>9. CASE Clock
  BY <1>t, <1>9 DEF Clock, Tick, HookInv, HasTimeout
<1>10. ASSUME NEW k \in Numbers, HookStep(k) PROVE HookInv'
  <2>1. CASE ReadsInput(k)
    BY <1>t, <1>10, <2>1 DEF HookStep, ReadsInput, HookInv, HasTimeout
  <2>2. CASE FillsOutput(k)
    BY <1>10, <2>2, HookChanges DEF HookStep, FillsOutput
  <2>3. CASE OutputClosed(k)
    BY <1>10, <2>3, HookChanges DEF HookStep, OutputClosed
  <2>4. CASE Ends(k)
    BY <1>10, <2>4, HookChanges DEF HookStep, Ends
  <2>5. CASE Dies(k)
    BY <1>10, <2>5, HookChanges DEF HookStep, Dies
  <2>6. QED BY <1>10, <2>1, <2>2, <2>3, <2>4, <2>5 DEF HookStep
<1>11. CASE UNCHANGED vars
  BY <1>t, <1>11 DEF HookInv, HasTimeout, vars
<1>12. QED
  BY <1>1, <1>2, <1>3, <1>4, <1>5, <1>6, <1>7, <1>8, <1>9, <1>10, <1>11
     DEF Next, Runner, Fault

LEMMA HooksInvariant == Spec => []HooksInv
<1>1. Init => HooksInv
  <2> SUFFICES ASSUME Init PROVE HooksInv
    OBVIOUS
  <2>1. Len(hooks) \in Nat
    BY HookList DEF Init
  <2>2. 0 \in 0..Horizon /\ 1 \in 1..Len(hooks) + 1
    BY <2>1, HooksAssumption
  <2>3. TypeOK
    BY <2>2 DEF Init, TypeOK, Steps, Children
  <2>4. HookInv
    BY <2>1 DEF Init, HookInv, Numbers, AtHook, Polling
  <2>5. QED BY <2>3, <2>4 DEF HooksInv
<1>2. HooksInv /\ [Next]_vars => HooksInv'
  BY TypeStep, HookInvStep DEF HooksInv
<1>3. QED BY <1>1, <1>2, PTL DEF Spec

(***************************************************************************)
(* The runner's and the hooks' variables keep their types: the runner is   *)
(* never past the end of the list, and no sleep goes beyond the horizon.   *)
(***************************************************************************)
THEOREM TypeCorrect == Spec => []TypeOK
<1>1. HooksInv => TypeOK
  BY DEF HooksInv
<1>2. QED BY <1>1, HooksInvariant, PTL

(***************************************************************************)
(* A hook of a list is started only after all before it have succeeded,    *)
(* and run_hooks succeeds only when the whole list has, whatever the hooks *)
(* do in the meantime.                                                     *)
(***************************************************************************)
THEOREM InOrder == Spec => []InOrderAndAll
<1>1. ASSUME HooksInv PROVE InOrderAndAll
  <2> SUFFICES ASSUME NEW j \in Numbers,
                      result = "ok" \/ \E k \in Numbers : k > j /\ child[k] # "none"
               PROVE  child[j] = "gone" /\ exit[j] = "success"
    BY DEF InOrderAndAll
  <2>1. Len(hooks) \in Nat /\ at \in 1..Len(hooks) + 1 /\ HookInv
    BY <1>1, HookList DEF HooksInv, TypeOK
  <2>2. j < at
    BY <2>1 DEF HookInv, Numbers
  <2>3. QED BY <2>1, <2>2 DEF HookInv
<1>2. QED BY <1>1, HooksInvariant, PTL

(***************************************************************************)
(* Once run_hooks has returned and waitpid did not fail, each hook of the  *)
(* list has ended or was sent SIGKILL, whatever raced with the timeout.    *)
(***************************************************************************)
THEOREM NoneOutlives == Spec => []NoHookOutlives
<1>1. ASSUME HooksInv PROVE NoHookOutlives
  <2> SUFFICES ASSUME pc = "returned", ~lost, NEW k \in Numbers PROVE child[k] \notin Alive
    BY DEF NoHookOutlives
  <2>1. Len(hooks) \in Nat /\ at \in 1..Len(hooks) + 1 /\ HookInv
    BY <1>1, HookList DEF HooksInv, TypeOK
  <2>2. CASE k < at \/ k > at
    BY <2>1, <2>2 DEF HookInv, Alive
  <2>3. CASE k = at
    BY <2>1, <2>3 DEF HookInv
  <2>4. QED BY <2>1, <2>2, <2>3 DEF Numbers
<1>2. QED BY <1>1, HooksInvariant, PTL
===============================================================================
