------------------------------ MODULE RunHooks ------------------------------
(***************************************************************************)
(* run_hooks of src/runtime/mod.rs: the hooks of a list are executed one   *)
(* after the other as child processes that get the container's state on    *)
(* their standard input.  The runner writes it all before it looks at the  *)
(* time, polls a hook that has a timeout and blocks on one that has none,  *)
(* and never reads what the hook writes to its pipes.                      *)
(*                                                                         *)
(* Time is counted in ticks since the polling loop was entered.            *)
(***************************************************************************)
EXTENDS Integers, Sequences, SequencesExt

CONSTANTS
  MaxHooks,   \* bound: the length of a list of hooks
  Timeouts,   \* the timeouts that config.json may give, negative ones too
  NoTimeout,  \* a hook without one
  Horizon     \* bound: the ticks that are counted in one polling loop

ASSUME HooksAssumption ==
  /\ MaxHooks \in Nat
  /\ Horizon \in Nat
  /\ Timeouts \subseteq Int
  /\ \A t \in Timeouts : t + 1 < Horizon
  /\ 0 < Horizon
  /\ NoTimeout \notin Int

(* What a hook is like: whether it reads its input, whether it writes more *)
(* than a pipe holds, and whether it ends by itself when nothing blocks it.*)
Hooks == [timeout : Timeouts \cup {NoTimeout}, reads : BOOLEAN,
          floods : BOOLEAN, ends : BOOLEAN]

VARIABLES
  hooks,     \* the list
  fits,      \* the state, with the annotations of config.json, fits in a pipe
  pc, at,    \* the runner's step and the hook it is at
  result,    \* what run_hooks returned
  child,     \* child[k]: the process of hook k
  exit,      \* exit[k]: how it ended
  got,       \* got[k]: it has read its input
  elapsed,   \* the time since the polling loop was entered
  wakeAt,    \* when the runner's sleep ends
  lost       \* a call of waitpid failed: the runner lost sight of a hook

vars == <<hooks, fits, pc, at, result, child, exit, got, elapsed, wakeAt, lost>>

Numbers == 1..Len(hooks)
Steps == {"next", "write", "poll", "check", "sleep", "wait", "returned"}

(* "blocked" waits for room in its output pipe, "doomed" was sent SIGKILL, *)
(* "zombie" has ended and was not waited for, "gone" was.                  *)
Alive == {"running", "blocked"}
Children == {"none", "doomed", "zombie", "gone"} \cup Alive

TypeOK ==
  /\ hooks \in BoundedSeq(Hooks, MaxHooks)
  /\ fits \in BOOLEAN
  /\ pc \in Steps
  /\ at \in 1..Len(hooks) + 1
  /\ result \in {"none", "ok", "error"}
  /\ child \in [Numbers -> Children]
  /\ exit \in [Numbers -> {"none", "success", "failure"}]
  /\ got \in [Numbers -> BOOLEAN]
  /\ elapsed \in 0..Horizon
  /\ wakeAt \in 0..Horizon
  /\ lost \in BOOLEAN

Init ==
  /\ hooks \in BoundedSeq(Hooks, MaxHooks)
  /\ fits \in BOOLEAN
  /\ pc = "next"
  /\ at = 1
  /\ result = "none"
  /\ child = [k \in Numbers |-> "none"]
  /\ exit = [k \in Numbers |-> "none"]
  /\ got = [k \in Numbers |-> FALSE]
  /\ elapsed = 0
  /\ wakeAt = 0
  /\ lost = FALSE

-----------------------------------------------------------------------------
(* The runner.                                                             *)

Return(how) == pc' = "returned" /\ result' = how

HasTimeout(k) == hooks[k].timeout # NoTimeout

(* Duration::from_secs(t.max(0))                                           *)
dur(k) == IF hooks[k].timeout < 0 THEN 0 ELSE hooks[k].timeout

(* The loop is left when every hook succeeded.                             *)
AllDone ==
  /\ pc = "next"
  /\ at > Len(hooks)
  /\ Return("ok")
  /\ UNCHANGED <<at, child, exit, got, elapsed, wakeAt, lost>>

(* The program may be missing or not executable.                           *)
Spawn ==
  /\ pc = "next"
  /\ at <= Len(hooks)
  /\ \/ /\ child' = [child EXCEPT ![at] = "running"]
        /\ pc' = "write"
        /\ UNCHANGED result
     \/ Return("error") /\ UNCHANGED child
  /\ UNCHANGED <<at, exit, got, elapsed, wakeAt, lost>>

(* write_all returns when the pipe has taken everything, or with an error  *)
(* that is ignored when the hook is gone.  Only now the time is taken.     *)
WriteState ==
  /\ pc = "write"
  /\ fits \/ got[at] \/ child[at] = "zombie"
  /\ pc' = IF HasTimeout(at) THEN "poll" ELSE "wait"
  /\ elapsed' = 0
  /\ UNCHANGED <<at, result, child, exit, got, wakeAt, lost>>

(* Mutant: the hook after the one that succeeded is skipped.               *)
ReapSkipsOne ==
  /\ child' = [child EXCEPT ![at] = "gone"]
  /\ IF exit[at] = "success"
     THEN pc' = "next" /\ at' = at + 2 /\ UNCHANGED result
     ELSE Return("error") /\ UNCHANGED at
  /\ UNCHANGED lost

(* Mutant: a hook that failed is passed over.                              *)
ReapLeniently ==
  /\ child' = [child EXCEPT ![at] = "gone"]
  /\ pc' = "next" /\ at' = at + 1 /\ UNCHANGED result
  /\ UNCHANGED lost

(* The hook has ended and is reaped: the next one is due if it succeeded.  *)
Reap ==
  /\ child' = [child EXCEPT ![at] = "gone"]
  /\ IF exit[at] = "success"
     THEN pc' = "next" /\ at' = at + 1 /\ UNCHANGED result
     ELSE Return("error") /\ UNCHANGED at
  /\ UNCHANGED lost

(* try_wait, and wait for a hook without a timeout.                        *)
TryWait ==
  /\ pc = "poll"
  /\ IF child[at] = "zombie" THEN Reap
     ELSE pc' = "check" /\ UNCHANGED <<at, result, child, lost>>
  /\ UNCHANGED <<exit, got, elapsed, wakeAt>>

Wait ==
  /\ pc = "wait"
  /\ child[at] = "zombie"
  /\ Reap
  /\ UNCHANGED <<exit, got, elapsed, wakeAt>>

(* try_wait or wait fails, and the hook is left to itself.                 *)
WaitFails ==
  /\ pc \in {"poll", "wait"}
  /\ Return("error")
  /\ lost' = TRUE
  /\ UNCHANGED <<at, child, exit, got, elapsed, wakeAt>>

(* Mutant: a hook that timed out is left running.                          *)
CheckWithoutKill ==
  /\ pc = "check"
  /\ IF elapsed > dur(at)
     THEN Return("error") /\ UNCHANGED <<child, wakeAt>>
     ELSE pc' = "sleep" /\ wakeAt' = elapsed + 1 /\ UNCHANGED <<child, result>>
  /\ UNCHANGED <<at, exit, got, elapsed, lost>>

(* The hook had not ended when it was polled.  It may have by now: then    *)
(* the kill does nothing, and a timeout is reported all the same.  It is   *)
(* not waited for.                                                         *)
CheckTime ==
  /\ pc = "check"
  /\ IF elapsed > dur(at)
     THEN /\ child' = [child EXCEPT ![at] = IF @ \in Alive THEN "doomed" ELSE @]
          /\ Return("error")
          /\ UNCHANGED wakeAt
     ELSE pc' = "sleep" /\ wakeAt' = elapsed + 1 /\ UNCHANGED <<child, result>>
  /\ UNCHANGED <<at, exit, got, elapsed, lost>>

(* Mutant: the clock is started anew in every round of the loop.           *)
WakeAndRestart ==
  /\ pc = "sleep"
  /\ elapsed >= wakeAt
  /\ pc' = "poll"
  /\ elapsed' = 0
  /\ UNCHANGED <<at, result, child, exit, got, wakeAt, lost>>

Wake ==
  /\ pc = "sleep"
  /\ elapsed >= wakeAt
  /\ pc' = "poll"
  /\ UNCHANGED <<at, result, child, exit, got, elapsed, wakeAt, lost>>

-----------------------------------------------------------------------------
(* The clock, the hooks and the kernel.                                    *)

Tick ==
  /\ pc \in {"poll", "check", "sleep"}
  /\ elapsed < Horizon
  /\ elapsed' = elapsed + 1
  /\ UNCHANGED <<pc, at, result, child, exit, got, wakeAt, lost>>

Becomes(k, what, how) ==
  /\ child' = [child EXCEPT ![k] = what]
  /\ exit' = [exit EXCEPT ![k] = how]
  /\ UNCHANGED <<pc, at, result, got, elapsed, wakeAt, lost>>

(* The hook reads its input, or closes it.                                 *)
ReadsInput(k) ==
  /\ child[k] = "running" /\ hooks[k].reads /\ ~got[k]
  /\ got' = [got EXCEPT ![k] = TRUE]
  /\ UNCHANGED <<pc, at, result, child, exit, elapsed, wakeAt, lost>>

(* Nobody reads the output pipes; they are closed when run_hooks returns.  *)
FillsOutput(k) ==
  /\ child[k] = "running" /\ hooks[k].floods
  /\ IF pc = "returned" THEN Becomes(k, "zombie", "failure")
                        ELSE Becomes(k, "blocked", "none")

OutputClosed(k) ==
  /\ child[k] = "blocked" /\ pc = "returned"
  /\ Becomes(k, "zombie", "failure")

Ends(k) ==
  /\ child[k] = "running"
  /\ \E how \in {"success", "failure"} : Becomes(k, "zombie", how)

Dies(k) == child[k] = "doomed" /\ Becomes(k, "zombie", "failure")

Constant == UNCHANGED <<hooks, fits>>

Runner ==
  /\ AllDone \/ Spawn \/ WriteState \/ TryWait \/ Wait \/ CheckTime \/ Wake
  /\ Constant

Clock == Tick /\ Constant
Fault == WaitFails /\ Constant

HookStep(k) ==
  /\ \/ ReadsInput(k) \/ FillsOutput(k) \/ OutputClosed(k) \/ Ends(k) \/ Dies(k)
  /\ Constant

Next == Runner \/ Clock \/ Fault \/ \E k \in Numbers : HookStep(k)

(***************************************************************************)
(* The runner runs and time passes.  A hook that reads its input does so   *)
(* at last, and one that ends does so at last unless it is blocked; the    *)
(* others may do either or not.                                            *)
(***************************************************************************)
Fairness ==
  /\ WF_vars(Runner)
  /\ WF_vars(Clock)
  /\ \A k \in 1..MaxHooks :
       /\ WF_vars(k \in Numbers /\ ReadsInput(k) /\ Constant)
       /\ WF_vars(k \in Numbers /\ hooks[k].ends /\ Ends(k) /\ Constant)

Spec == Init /\ [][Next]_vars /\ Fairness

-----------------------------------------------------------------------------
(***************************************************************************)
(* A hook is started only when all those before it have ended with         *)
(* success and were waited for, and run_hooks succeeds only when all hooks *)
(* of the list have: what create relies on before it records "created".    *)
(***************************************************************************)
InOrderAndAll ==
  \A j \in Numbers :
    (result = "ok" \/ \E k \in Numbers : k > j /\ child[k] # "none") =>
      child[j] = "gone" /\ exit[j] = "success"

(***************************************************************************)
(* When run_hooks has returned, no hook runs on beside the container: each *)
(* has ended or was sent SIGKILL, whatever raced with the timeout, unless  *)
(* waitpid itself failed.                                                  *)
(***************************************************************************)
NoHookOutlives ==
  pc = "returned" /\ ~lost => \A k \in Numbers : child[k] \notin Alive

(* The runner and hook k cannot come to wait for each other: a timeout     *)
(* helps only once the state has been written.                             *)
Answers(k) ==
  /\ HasTimeout(k) \/ (hooks[k].ends /\ ~hooks[k].floods)
  /\ fits \/ ((hooks[k].reads \/ hooks[k].ends) /\ ~hooks[k].floods)

(***************************************************************************)
(* run_hooks returns: with a hook that never ends or fills its output pipe *)
(* because of the timeout, without a timeout if the hooks end.             *)
(***************************************************************************)
HooksReturn == (\A k \in Numbers : Answers(k)) => <>(pc = "returned")
=============================================================================
