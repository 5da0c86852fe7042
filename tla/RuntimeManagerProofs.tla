------------------------ MODULE RuntimeManagerProofs ------------------------
(***************************************************************************)
(* Proofs about RuntimeManager, for any sets of containers, callers and    *)
(* process identifiers: type correctness, then the lifecycle invariant for *)
(* callers that serialise their calls, then that they implement            *)
(* OCILifecycle.                                                           *)
(***************************************************************************)
EXTENDS RuntimeManager, TLAPS

USE DEF ContainerStates, Unreadable, NoPid, PidOption, Files, NoFile,
        EmptyFile, GarbledFile, Processes, FreeSlot, SaveSteps, Steps

(* A status keeps its type under a new state or process identifier, and a  *)
(* process under a new run state.                                          *)
LEMMA WithField ==
  /\ \A f \in Files, s \in ContainerStates : [f EXCEPT !.state = s] \in Files
  /\ \A f \in Files, p \in PidOption : [f EXCEPT !.pid = p] \in Files
  /\ \A q \in Processes, r \in {"free", "alive", "doomed", "zombie"} :
       [q EXCEPT !.run = r] \in Processes
<1>1. ASSUME NEW f \in Files, NEW s \in ContainerStates
      PROVE  [f EXCEPT !.state = s] \in Files
  OBVIOUS
<1>2. ASSUME NEW f \in Files, NEW p \in PidOption
      PROVE  [f EXCEPT !.pid = p] \in Files
  OBVIOUS
<1>3. ASSUME NEW q \in Processes, NEW r \in {"free", "alive", "doomed", "zombie"}
      PROVE  [q EXCEPT !.run = r] \in Processes
  OBVIOUS
<1>4. QED BY <1>1, <1>2, <1>3

(***************************************************************************)
(* The helpers that enter, leave and continue a call keep pc, cid and mem  *)
(* well typed.                                                             *)
(***************************************************************************)
LEMMA EnterType ==
  ASSUME TypeOK, NEW c \in Callers, NEW id \in Ids, NEW status \in Files,
         NEW step \in Steps, Enter(c, id, status, step)
  PROVE  /\ pc' \in [Callers -> Steps]
         /\ cid' \in [Callers -> Ids \cup {NoId}]
         /\ mem' \in [Callers -> Files]
BY DEF TypeOK, Enter

LEMMA ReturnType ==
  ASSUME TypeOK, NEW c \in Callers, Return(c)
  PROVE  /\ pc' \in [Callers -> Steps]
         /\ cid' \in [Callers -> Ids \cup {NoId}]
         /\ mem' \in [Callers -> Files]
BY DEF TypeOK, Return

LEMMA ContinueType ==
  ASSUME TypeOK, NEW c \in Callers, NEW status \in Files, NEW step \in Steps,
         Continue(c, status, step)
  PROVE  /\ pc' \in [Callers -> Steps]
         /\ cid' \in [Callers -> Ids \cup {NoId}]
         /\ mem' \in [Callers -> Files]
BY DEF TypeOK, Continue

(* The orphans of a process that ends are still processes.                 *)
LEMMA ReparentType ==
  ASSUME TypeOK, NEW c \in Callers, Reparent(c)
  PROVE  proc' \in [Pids -> Processes]
BY DEF TypeOK, Reparent

(***************************************************************************)
(* Every step keeps the variables well typed.                              *)
(***************************************************************************)
LEMMA TypeStep == TypeOK /\ [Next]_vars => TypeOK'
<1> SUFFICES ASSUME TypeOK, [Next]_vars PROVE TypeOK'
  OBVIOUS
<1>1. ASSUME NEW c \in Callers, OpenFile(c) PROVE TypeOK'
  BY <1>1 DEF OpenFile, TypeOK
<1>2. ASSUME NEW c \in Callers, WriteFile(c) PROVE TypeOK'
  <2>1. /\ mem[c] \in Files
        /\ HeldAfterSave(c) \in Files
    BY DEF TypeOK, HeldAfterSave
  <2>2. disk' \in [Ids -> Files]
    <3>1. Written(c) \subseteq Files
      BY <2>1 DEF Written
    <3>2. QED BY <1>2, <3>1 DEF WriteFile, TypeOK
  <2>3. /\ pc' \in [Callers -> Steps]
        /\ cid' \in [Callers -> Ids \cup {NoId}]
        /\ mem' \in [Callers -> Files]
    <3>1. CASE pc[c] = "save_created"
      BY <1>2, <3>1, ReturnType DEF WriteFile
    <3>2. CASE pc[c] # "save_created"
      <4>1. AfterSave(pc[c]) \in Steps
        BY <1>2, <3>2 DEF WriteFile, AfterSave
      <4>2. QED BY <1>2, <3>2, <4>1, <2>1, ContinueType DEF WriteFile
    <3>3. QED BY <3>1, <3>2
  <2>4. QED BY <1>2, <2>2, <2>3 DEF WriteFile, TypeOK
<1>3. ASSUME NEW c \in Callers, SaveFails(c) PROVE TypeOK'
  BY <1>3, ReturnType DEF SaveFails, TypeOK
<1>4. ASSUME NEW c \in Callers, PrestartHooks(c) PROVE TypeOK'
  <2>1. [mem[c] EXCEPT !.state = "created"] \in Files
    <3> HIDE DEF Files, Processes
    <3> QED BY WithField DEF TypeOK
  <2>2. QED BY <1>4, <2>1, ReturnType, ContinueType DEF PrestartHooks, TypeOK
<1>5. ASSUME NEW c \in Callers, Spawn(c) PROVE TypeOK'
  <2>1. PICK p \in Pids :
          /\ proc' = [proc EXCEPT ![p] =
                        [run |-> "alive", owner |-> cid[c], parent |-> c]]
          /\ Continue(c, [mem[c] EXCEPT !.pid = p], "save_pid")
    BY <1>5 DEF Spawn
  <2>2. [mem[c] EXCEPT !.pid = p] \in Files
    <3> HIDE DEF Files, Processes
    <3> QED BY WithField DEF TypeOK
  <2>3. /\ pc' \in [Callers -> Steps]
        /\ cid' \in [Callers -> Ids \cup {NoId}]
        /\ mem' \in [Callers -> Files]
    BY <2>1, <2>2, ContinueType
  <2>4. proc' \in [Pids -> Processes]
    BY <2>1 DEF TypeOK
  <2>5. spawns' \in [Ids -> Nat]
    <3>1. spawns' = [spawns EXCEPT ![cid[c]] = spawns[cid[c]] + 1]
      BY <1>5 DEF Spawn
    <3>2. \A id \in Ids : spawns[id] + 1 \in Nat
      BY DEF TypeOK
    <3>3. QED BY <3>1, <3>2 DEF TypeOK
  <2>6. QED BY <1>5, <2>3, <2>4, <2>5 DEF Spawn, TypeOK
<1>6. ASSUME NEW c \in Callers, SpawnFails(c) PROVE TypeOK'
  BY <1>6, ReturnType DEF SpawnFails, TypeOK
<1>7. ASSUME NEW c \in Callers, PoststartHooks(c) PROVE TypeOK'
  BY <1>7, ReturnType DEF PoststartHooks, TypeOK
<1>8. ASSUME NEW c \in Callers, Signal(c) PROVE TypeOK'
  <2>1. mem[c] \in Files
    BY DEF TypeOK
  <2>2. proc' \in [Pids -> Processes]
    <3>1. \A q \in Pids : [proc[q] EXCEPT !.run = "doomed"] \in Processes
      <4> HIDE DEF Files, Processes
      <4> QED BY WithField DEF TypeOK
    <3>2. \/ proc' = proc
          \/ proc' = [proc EXCEPT ![mem[c].pid] = [proc[mem[c].pid] EXCEPT !.run = "doomed"]]
      BY <1>8 DEF Signal
    <3>3. QED BY <3>1, <3>2 DEF TypeOK
  <2>3. QED BY <1>8, <2>1, <2>2, ReturnType, ContinueType DEF Signal, TypeOK
<1>9. ASSUME NEW c \in Callers, Wait(c) PROVE TypeOK'
  <2>1. mem[c] \in Files
    BY DEF TypeOK
  <2>2. proc' \in [Pids -> Processes]
    BY <1>9 DEF Wait, TypeOK
  <2>3. QED BY <1>9, <2>1, <2>2, ContinueType DEF Wait, TypeOK
<1>10. ASSUME NEW c \in Callers, Mark(c) PROVE TypeOK'
  <2>1. [mem[c] EXCEPT !.state = "stopped"] \in Files
    <3> HIDE DEF Files, Processes
    <3> QED BY WithField DEF TypeOK
  <2>2. QED BY <1>10, <2>1, ReturnType, ContinueType DEF Mark, TypeOK
<1>11. ASSUME NEW c \in Callers, PoststopHooks(c) PROVE TypeOK'
  BY <1>11, ReturnType DEF PoststopHooks, TypeOK
<1>12. ASSUME NEW c \in Callers, Remove(c) PROVE TypeOK'
  BY <1>12, ReturnType DEF Remove, TypeOK
<1>13. ASSUME NEW c \in Callers, RemoveFails(c) PROVE TypeOK'
  BY <1>13, ReturnType DEF RemoveFails, TypeOK
<1>14. ASSUME NEW c \in Callers, Exit(c) PROVE TypeOK'
  BY <1>14, ReparentType DEF Exit, TypeOK
<1>15. ASSUME NEW c \in Callers, Crash(c) PROVE TypeOK'
  BY <1>15, ReparentType, ReturnType DEF Crash, TypeOK
<1>16. ASSUME NEW c \in Callers, NEW id \in Ids, Call(c, id) PROVE TypeOK'
  <2>1. CASE Create(c, id)
    BY <2>1, EnterType DEF Create, TypeOK
  <2>2. CASE Start(c, id)
    <3>1. [disk[id] EXCEPT !.state = "running"] \in Files
      <4> HIDE DEF Files, Processes
      <4> QED BY WithField DEF TypeOK
    <3>2. QED BY <2>2, <3>1, EnterType DEF Start, TypeOK
  <2>3. CASE Stop(c, id)
    <3>1. disk[id] \in Files
      BY DEF TypeOK
    <3>2. QED BY <2>3, <3>1, EnterType DEF Stop, TypeOK
  <2>4. CASE Delete(c, id)
    <3>1. disk[id] \in Files
      BY DEF TypeOK
    <3>2. QED BY <2>4, <3>1, EnterType DEF Delete, TypeOK
  <2>5. QED BY <1>16, <2>1, <2>2, <2>3, <2>4 DEF Call
<1>17. ASSUME NEW p \in Pids, ProcessExit(p) \/ ForeignSpawn(p) PROVE TypeOK'
  <2>1. CASE ProcessExit(p)
    <3>1. proc' \in [Pids -> Processes]
      BY <2>1 DEF ProcessExit, TypeOK
    <3>2. QED BY <2>1, <3>1 DEF ProcessExit, TypeOK
  <2>2. CASE ForeignSpawn(p)
    BY <2>2 DEF ForeignSpawn, TypeOK
  <2>3. QED BY <1>17, <2>1, <2>2
<1>18. CASE UNCHANGED vars
  BY <1>18 DEF vars, TypeOK
<1>19. QED
  BY <1>1, <1>2, <1>3, <1>4, <1>5, <1>6, <1>7, <1>8, <1>9, <1>10, <1>11,
     <1>12, <1>13, <1>14, <1>15, <1>16, <1>17, <1>18 DEF Next, Step

(***************************************************************************)
(* Type correctness, for every value of the constants.                     *)
(***************************************************************************)
THEOREM TypeCorrect == Spec => []TypeOK
<1>1. Init => TypeOK
  BY DEF Init, TypeOK
<1>2. QED BY <1>1, TypeStep, PTL DEF Spec

-----------------------------------------------------------------------------
(***************************************************************************)
(* A step of caller c on container id touches no other caller, no other    *)
(* container and no other caller's container, so it preserves the          *)
(* invariant when it does so for c and for id.                             *)
(***************************************************************************)
OnlyTouches(c, id) ==
  /\ cid'[c] \in {id, NoId}
  /\ \A d \in Callers \ {c} :
       /\ cid[d] # id
       /\ pc'[d] = pc[d] /\ cid'[d] = cid[d] /\ mem'[d] = mem[d] /\ fd'[d] = fd[d]
  /\ \A i \in Ids \ {id} : disk'[i] = disk[i] /\ spawns'[i] = spawns[i]

(* A step that touches only c and id preserves the lifecycle invariant if  *)
(* it preserves the parts that speak of c and of id.                       *)
LEMMA LocalStep ==
  ASSUME TypeOK, LifecycleInv, NEW c \in Callers, NEW id \in Ids,
         OnlyTouches(c, id), CallInv(c)', ContainerInv(id)'
  PROVE  LifecycleInv'
<1>1. MutualExclusion'
  <2> SUFFICES ASSUME NEW d \in Callers, NEW e \in Callers,
                      cid'[d] = cid'[e], cid'[d] # NoId
               PROVE  d = e
    BY DEF MutualExclusion
  <2>1. CASE d # c /\ e # c
    BY <2>1 DEF OnlyTouches, LifecycleInv, MutualExclusion
  <2>2. CASE d = c \/ e = c
    BY <2>2 DEF OnlyTouches
  <2>3. QED BY <2>1, <2>2
<1>2. ASSUME NEW d \in Callers, d # c PROVE CallInv(d)'
  <2>1. /\ pc'[d] = pc[d] /\ cid'[d] = cid[d] /\ mem'[d] = mem[d] /\ fd'[d] = fd[d]
        /\ cid[d] # id
    BY <1>2 DEF OnlyTouches
  <2>2. CallInv(d)
    BY DEF LifecycleInv
  <2>3. CASE pc[d] = "idle"
    BY <2>1, <2>2, <2>3 DEF CallInv
  <2>4. CASE pc[d] # "idle"
    <3>1. cid[d] \in Ids \ {id}
      BY <2>1, <2>2, <2>4 DEF CallInv, TypeOK
    <3>2. disk'[cid[d]] = disk[cid[d]] /\ spawns'[cid[d]] = spawns[cid[d]]
      BY <3>1 DEF OnlyTouches
    <3>3. QED BY <2>1, <2>2, <2>4, <3>2 DEF CallInv, FileState
  <2>5. QED BY <2>3, <2>4
<1>3. ASSUME NEW i \in Ids, i # id PROVE ContainerInv(i)'
  BY <1>3 DEF OnlyTouches, LifecycleInv, ContainerInv
<1>4. QED BY <1>1, <1>2, <1>3 DEF LifecycleInv

(* The container of a caller that is not idle, and who else works on it.   *)
LEMMA Busy ==
  ASSUME TypeOK, LifecycleInv, NEW c \in Callers, pc[c] # "idle"
  PROVE  /\ cid[c] \in Ids
         /\ \A d \in Callers \ {c} : cid[d] # cid[c]
BY DEF TypeOK, LifecycleInv, CallInv, MutualExclusion

(* A call that returns with its file closed leaves nothing to check of it. *)
LEMMA ReturnInv ==
  ASSUME TypeOK, NEW c \in Callers, Return(c), fd'[c] = "closed"
  PROVE  CallInv(c)'
BY DEF TypeOK, Return, CallInv

(* An idle caller that works on id, alone when calls are serialised.       *)
LEMMA Admitted ==
  ASSUME TypeOK, LifecycleInv, Serialized, NEW c \in Callers, NEW id \in Ids,
         Admit(c, id)
  PROVE  /\ fd[c] = "closed"
         /\ \A d \in Callers : cid[d] # id
BY DEF TypeOK, LifecycleInv, CallInv, Admit

(* A step of a call, and its crash, touch only the caller and its          *)
(* container.                                                              *)
LEMMA StepTouches ==
  ASSUME TypeOK, LifecycleInv, NEW c \in Callers, Step(c) \/ Crash(c)
  PROVE  /\ pc[c] # "idle"
         /\ cid[c] \in Ids
         /\ OnlyTouches(c, cid[c])
<1>1. pc[c] # "idle"
  BY DEF Step, OpenFile, WriteFile, SaveFails, PrestartHooks, Spawn, SpawnFails,
     PoststartHooks, Signal, Wait, Mark, PoststopHooks, Remove, RemoveFails, Crash
<1>2. PICK id \in Ids : /\ id = cid[c]
                        /\ \A d \in Callers \ {c} : cid[d] # id
  BY <1>1, Busy
<1>3. /\ cid'[c] \in {id, NoId}
      /\ \A d \in Callers \ {c} : pc'[d] = pc[d] /\ cid'[d] = cid[d] /\ mem'[d] = mem[d]
  BY <1>2 DEF Step, OpenFile, WriteFile, SaveFails, PrestartHooks, Spawn, SpawnFails,
     PoststartHooks, Signal, Wait, Mark, PoststopHooks, Remove, RemoveFails, Crash,
     Return, Continue, TypeOK
<1>4. \A d \in Callers \ {c} : fd'[d] = fd[d]
  BY <1>2 DEF Step, OpenFile, WriteFile, SaveFails, PrestartHooks, Spawn, SpawnFails,
     PoststartHooks, Signal, Wait, Mark, PoststopHooks, Remove, RemoveFails, Crash, TypeOK
<1>5. \A i \in Ids \ {id} : disk'[i] = disk[i] /\ spawns'[i] = spawns[i]
  BY <1>2 DEF Step, OpenFile, WriteFile, SaveFails, PrestartHooks, Spawn, SpawnFails,
     PoststartHooks, Signal, Wait, Mark, PoststopHooks, Remove, RemoveFails, Crash, TypeOK
<1>6. QED BY <1>1, <1>2, <1>3, <1>4, <1>5 DEF OnlyTouches

(* So does a call that begins.                                             *)
LEMMA CallTouches ==
  ASSUME TypeOK, LifecycleInv, Serialized, NEW c \in Callers, NEW id \in Ids,
         Call(c, id)
  PROVE  /\ fd[c] = "closed"
         /\ \A d \in Callers : cid[d] # id
         /\ OnlyTouches(c, id)
<1>1. /\ fd[c] = "closed"
      /\ \A d \in Callers : cid[d] # id
  BY Admitted DEF Call, Create, Start, Stop, Delete
<1>2. OnlyTouches(c, id)
  BY <1>1 DEF Call, Create, Start, Stop, Delete, Enter, OnlyTouches, TypeOK
<1>3. QED BY <1>1, <1>2

(***************************************************************************)
(* Every step of serialised callers preserves the lifecycle invariant.     *)
(***************************************************************************)
LEMMA LifecycleStep ==
  ASSUME Serialized, TypeOK, LifecycleInv, [Next]_vars
  PROVE  LifecycleInv'
<1>1. ASSUME NEW c \in Callers, Step(c) \/ Crash(c) PROVE LifecycleInv'
  <2>1. pc[c] # "idle"
    BY <1>1, StepTouches
  <2>2. PICK id \in Ids : /\ id = cid[c]
                          /\ \A d \in Callers \ {c} : cid[d] # id
                          /\ OnlyTouches(c, id)
    BY <1>1, <2>1, StepTouches, Busy
  <2>3. CallInv(c) /\ ContainerInv(id)
    BY <2>2 DEF LifecycleInv
  <2>4. CASE OpenFile(c)
    <3>1. CallInv(c)'
      BY <2>2, <2>3, <2>4 DEF OpenFile, CallInv, FileState, TypeOK
    <3>2. ContainerInv(id)'
      BY <2>2, <2>3, <2>4 DEF OpenFile, ContainerInv, TypeOK
    <3>3. QED BY <2>2, <3>1, <3>2, LocalStep
  <2>5. CASE WriteFile(c)
    <3>1. /\ disk' = [disk EXCEPT ![id] = mem[c]]
          /\ fd' = [fd EXCEPT ![c] = "closed"]
          /\ spawns' = spawns
          /\ pc[c] \in SaveSteps
          /\ mem[c].state \in HeldState(pc[c])
      BY <2>1, <2>2, <2>3, <2>5 DEF WriteFile, CallInv, Written
    <3>2. CASE pc[c] = "save_created"
      <4>1. Return(c)
        BY <2>5, <3>2 DEF WriteFile
      <4>2. CallInv(c)'
        BY <3>1, <4>1, ReturnInv DEF TypeOK
      <4>3. ContainerInv(id)'
        BY <2>1, <2>2, <2>3, <3>1, <3>2 DEF HeldState, CallInv, ContainerInv, TypeOK
      <4>4. QED BY <2>2, <4>2, <4>3, LocalStep
    <3>3. CASE pc[c] # "save_created"
      <4>1. Continue(c, HeldAfterSave(c), AfterSave(pc[c]))
        BY <2>5, <3>3 DEF WriteFile
      <4>2. /\ cid'[c] = id /\ pc'[c] = AfterSave(pc[c]) /\ fd'[c] = "closed"
            /\ mem'[c].state = mem[c].state
            /\ disk'[id].state = mem[c].state
            /\ spawns'[id] = spawns[id]
        BY <2>2, <3>1, <4>1 DEF Continue, HeldAfterSave, TypeOK
      <4>3. CallInv(c)'
        BY <2>1, <2>2, <2>3, <3>1, <3>3, <4>2, ConstantsAssumption
           DEF CallInv, FileState, StateBefore, HeldState, AfterSave
      <4>4. ContainerInv(id)'
        BY <2>1, <2>2, <2>3, <3>1, <3>3, <4>2 DEF CallInv, ContainerInv, HeldState
      <4>5. QED BY <2>2, <4>3, <4>4, LocalStep
    <3>4. QED BY <3>2, <3>3
  <2>6. CASE SaveFails(c) \/ Crash(c)
    <3>1. CallInv(c)'
      BY <2>6, ReturnInv DEF SaveFails, Crash, TypeOK
    <3>2. ContainerInv(id)'
      BY <2>3, <2>6 DEF SaveFails, Crash, ContainerInv
    <3>3. QED BY <2>2, <3>1, <3>2, LocalStep
  <2>7. CASE /\ Return(c) /\ pc[c] \notin SaveSteps
             /\ UNCHANGED <<disk, fd, spawns>>
    <3>1. CallInv(c)'
      BY <2>3, <2>7, ReturnInv DEF CallInv, TypeOK
    <3>2. ContainerInv(id)'
      BY <2>3, <2>7 DEF ContainerInv
    <3>3. QED BY <2>2, <3>1, <3>2, LocalStep
  <2>8. CASE PrestartHooks(c) /\ ~Return(c)
    <3>1. CallInv(c)'
      BY <2>2, <2>3, <2>8, ConstantsAssumption
         DEF PrestartHooks, Continue, CallInv, FileState, StateBefore, HeldState, TypeOK
    <3>2. ContainerInv(id)'
      BY <2>3, <2>8 DEF PrestartHooks, ContainerInv
    <3>3. QED BY <2>2, <3>1, <3>2, LocalStep
  <2>9. CASE Spawn(c)
    <3>1. PICK p \in Pids : Continue(c, [mem[c] EXCEPT !.pid = p], "save_pid")
      BY <2>9 DEF Spawn
    <3>2. /\ spawns'[id] = 1
          /\ disk[id].state = "running"
          /\ mem'[c].state = "running"
          /\ \A i \in Ids \ {id} : spawns'[i] = spawns[i]
      BY <2>2, <2>3, <2>9, <3>1
         DEF Spawn, Continue, CallInv, FileState, HeldState, TypeOK
    <3>3. CallInv(c)'
      BY <2>2, <2>3, <2>9, <3>1, <3>2, ConstantsAssumption
         DEF Spawn, Continue, CallInv, FileState, StateBefore, HeldState, TypeOK
    <3>4. ContainerInv(id)'
      BY <2>3, <2>9, <3>2 DEF Spawn, ContainerInv
    <3>5. QED BY <2>2, <3>3, <3>4, LocalStep
  <2>10. CASE (Signal(c) \/ Wait(c)) /\ ~Return(c)
    <3>1. /\ Continue(c, mem[c], IF pc[c] = "signal" THEN "wait" ELSE "mark")
          /\ pc[c] \in {"signal", "wait"}
          /\ UNCHANGED <<disk, fd, spawns>>
      BY <2>10 DEF Signal, Wait
    <3>2. CallInv(c)'
      BY <2>2, <2>3, <3>1, ConstantsAssumption
         DEF Continue, CallInv, FileState, HeldState, TypeOK
    <3>3. ContainerInv(id)'
      BY <2>3, <3>1 DEF ContainerInv
    <3>4. QED BY <2>2, <3>2, <3>3, LocalStep
  <2>11. CASE Mark(c) /\ ~Return(c)
    <3>1. /\ Continue(c, [mem[c] EXCEPT !.state = "stopped"], "save_stopped")
          /\ mem[c].state = "running"
          /\ pc[c] = "mark"
          /\ UNCHANGED <<disk, fd, spawns>>
      BY <2>11 DEF Mark, CanTransitionTo
    <3>2. CallInv(c)'
      BY <2>2, <2>3, <3>1, ConstantsAssumption
         DEF Continue, CallInv, FileState, StateBefore, HeldState, TypeOK
    <3>3. ContainerInv(id)'
      BY <2>3, <3>1 DEF ContainerInv
    <3>4. QED BY <2>2, <3>2, <3>3, LocalStep
  <2>12. CASE Remove(c)
    <3>1. fd[c] = "closed"
      BY <2>3, <2>12 DEF Remove, CallInv, TypeOK
    <3>2. fd' = fd
      <4>1. \A d \in Callers : fd'[d] = fd[d]
        BY <2>2, <2>12, <3>1 DEF Remove
      <4>2. QED BY <2>12, <4>1 DEF Remove, TypeOK
    <3>3. CallInv(c)'
      BY <2>12, <3>1, <3>2, ReturnInv DEF Remove
    <3>4. ContainerInv(id)'
      BY <2>2, <2>3, <2>12 DEF Remove, ContainerInv, TypeOK
    <3>5. QED BY <2>2, <3>3, <3>4, LocalStep
  <2>13. QED
    BY <1>1, <2>4, <2>5, <2>6, <2>7, <2>8, <2>9, <2>10, <2>11, <2>12
       DEF Step, PrestartHooks, SpawnFails, PoststartHooks, Signal, Wait, Mark,
           PoststopHooks, RemoveFails
<1>2. ASSUME NEW c \in Callers, NEW id \in Ids, Call(c, id) PROVE LifecycleInv'
  <2>1. /\ fd[c] = "closed"
        /\ \A d \in Callers : cid[d] # id
        /\ OnlyTouches(c, id)
    BY <1>2, CallTouches
  <2>2. ContainerInv(id)
    BY DEF LifecycleInv
  <2>3. ContainerInv(id)'
    BY <1>2, <2>2 DEF Call, Create, Start, Stop, Delete, Exists, ContainerInv, TypeOK
  <2>4. CallInv(c)'
    <3>1. CASE Create(c, id)
      BY <2>1, <3>1, ConstantsAssumption
         DEF Create, Exists, Enter, CallInv, FileState, StateBefore, HeldState, TypeOK
    <3>2. CASE Start(c, id)
      BY <2>1, <2>2, <3>2, ConstantsAssumption
         DEF Start, CanTransitionTo, Enter, CallInv, ContainerInv, FileState,
             StateBefore, HeldState, TypeOK
    <3>3. CASE Stop(c, id)
      BY <2>1, <3>3, ConstantsAssumption
         DEF Stop, Loads, Enter, CallInv, FileState, HeldState, TypeOK
    <3>4. CASE Delete(c, id)
      BY <2>1, <3>4, ConstantsAssumption
         DEF Delete, Enter, CallInv, FileState, HeldState, TypeOK
    <3>5. QED BY <1>2, <3>1, <3>2, <3>3, <3>4 DEF Call
  <2>5. QED BY <2>1, <2>3, <2>4, LocalStep
<1>3. CASE UNCHANGED <<disk, pc, cid, mem, fd, spawns>>
  BY <1>3 DEF LifecycleInv, MutualExclusion, CallInv, FileState, ContainerInv
<1>4. QED
  BY <1>1, <1>2, <1>3 DEF Next, Exit, ProcessExit, ForeignSpawn, vars

(***************************************************************************)
(* The lifecycle invariant holds of serialised callers whatever crashes,   *)
(* failed saves and exits happen, for any number of callers, containers    *)
(* and process identifiers.                                                *)
(***************************************************************************)
THEOREM LifecycleInvariant == ASSUME Serialized PROVE Spec => []LifecycleInv
<1>1. Init => LifecycleInv
  BY DEF Init, LifecycleInv, MutualExclusion, CallInv, ContainerInv
<1>2. TypeOK /\ LifecycleInv /\ [Next]_vars => LifecycleInv'
  BY LifecycleStep
<1>3. QED BY <1>1, <1>2, TypeCorrect, PTL DEF Spec

(***************************************************************************)
(* Retrying `start' after a crash or an error never runs a container's     *)
(* process twice: two clones need two calls that overlap.                  *)
(***************************************************************************)
THEOREM SpawnsOnce == ASSUME Serialized PROVE Spec => []SpawnOnce
<1>1. LifecycleInv => SpawnOnce
  BY DEF LifecycleInv, ContainerInv, SpawnOnce
<1>2. QED BY <1>1, LifecycleInvariant, PTL

-----------------------------------------------------------------------------
(***************************************************************************)
(* The refinement: what LifecycleStatus is, without CHOOSE.  On a          *)
(* container that a call works on it is the state that step of the call    *)
(* expects in the file; on a container at rest it is the file's.           *)
(***************************************************************************)
AtRest(id) == IF disk[id].state \in Unreadable THEN "lost" ELSE disk[id].state

StatusFacts ==
  /\ \A c \in Callers :
       pc[c] # "idle" => LifecycleStatus(cid[c]) = FileState(c)
  /\ \A id \in Ids :
       (\A c \in Callers : cid[c] # id) => LifecycleStatus(id) = AtRest(id)

(* The lifecycle invariant gives the two cases of LifecycleStatus.         *)
LEMMA StatusIs == TypeOK /\ LifecycleInv => StatusFacts
<1> SUFFICES ASSUME TypeOK, LifecycleInv PROVE StatusFacts
  OBVIOUS
<1>1. ASSUME NEW c \in Callers, pc[c] # "idle"
      PROVE  LifecycleStatus(cid[c]) = FileState(c)
  <2>1. CallInv(c)
    BY DEF LifecycleInv
  <2>2. \A d \in Callers : Saves(d, cid[c]) => d = c
    BY <1>1, Busy DEF Saves
  <2>3. CASE fd[c] = "open"
    <3>1. Saves(c, cid[c])
      BY <2>3 DEF Saves
    <3>2. (CHOOSE d \in Callers : Saves(d, cid[c])) = c
      BY <2>2, <3>1
    <3>3. QED BY <2>1, <2>3, <3>1, <3>2 DEF LifecycleStatus, CallInv, FileState
  <2>4. CASE fd[c] # "open"
    <3>1. ~ \E d \in Callers : Saves(d, cid[c])
      BY <2>2, <2>4 DEF Saves
    <3>2. disk[cid[c]].state = FileState(c) /\ FileState(c) \notin Unreadable
      BY <1>1, <2>1, <2>4 DEF CallInv, FileState, StateBefore, HeldState
    <3>3. QED BY <3>1, <3>2 DEF LifecycleStatus
  <2>5. QED BY <2>3, <2>4
<1>2. ASSUME NEW id \in Ids, \A c \in Callers : cid[c] # id
      PROVE  LifecycleStatus(id) = AtRest(id)
  BY <1>2 DEF LifecycleStatus, AtRest, Saves
<1>3. QED BY <1>1, <1>2 DEF StatusFacts

(***************************************************************************)
(* Of the containers that a step does not touch, the status stays.         *)
(***************************************************************************)
LEMMA OthersStay ==
  ASSUME TypeOK, TypeOK', LifecycleInv, LifecycleInv', StatusFacts, StatusFacts',
         NEW c \in Callers, NEW id \in Ids, OnlyTouches(c, id),
         cid[c] \in {id, NoId}, NEW i \in Ids, i # id
  PROVE  LifecycleStatus(i)' = LifecycleStatus(i)
<1>1. CASE \E d \in Callers : cid[d] = i
  <2>1. PICK d \in Callers : cid[d] = i
    BY <1>1
  <2>2. d # c /\ cid'[d] = i /\ pc'[d] = pc[d] /\ mem'[d] = mem[d]
    BY <2>1, ConstantsAssumption DEF OnlyTouches
  <2>3. pc[d] # "idle" /\ pc'[d] # "idle"
    BY <2>1, <2>2, ConstantsAssumption DEF LifecycleInv, CallInv
  <2>4. LifecycleStatus(i) = FileState(d)
    BY <2>1, <2>3 DEF StatusFacts
  <2>5. LifecycleStatus(i)' = FileState(d)'
    BY <2>2, <2>3 DEF StatusFacts
  <2>6. QED BY <2>2, <2>4, <2>5 DEF FileState
<1>2. CASE \A d \in Callers : cid[d] # i
  <2>1. \A d \in Callers : cid'[d] # i
    BY <1>2, ConstantsAssumption DEF OnlyTouches
  <2>2. LifecycleStatus(i) = AtRest(i) /\ LifecycleStatus(i)' = AtRest(i)'
    BY <1>2, <2>1 DEF StatusFacts
  <2>3. QED BY <2>2 DEF OnlyTouches, AtRest
<1>3. QED BY <1>1, <1>2

(***************************************************************************)
(* A step that touches id alone and moves its status along an edge of the  *)
(* lifecycle, or not at all, is a step of OCILifecycle or a stutter.       *)
(***************************************************************************)
Edges == {<<"absent", "creating">>, <<"creating", "created">>,
          <<"created", "running">>, <<"running", "stopped">>,
          <<"stopped", "absent">>}

AllowedMove(id) ==
  \/ LifecycleStatus(id)' = LifecycleStatus(id)
  \/ LifecycleStatus(id)' = "lost"
  \/ <<LifecycleStatus(id), LifecycleStatus(id)'>> \in Edges

(* An allowed move of one container is a step of the abstract system.      *)
LEMMA MoveIsStep ==
  ASSUME NEW id \in Ids, AllowedMove(id),
         \A i \in Ids \ {id} : LifecycleStatus(i)' = LifecycleStatus(i)
  PROVE  [OCI!Next]_([i \in Ids |-> LifecycleStatus(i)])
<1> DEFINE st == [i \in Ids |-> LifecycleStatus(i)]
<1>1. st' = [st EXCEPT ![id] = LifecycleStatus(id)']
  OBVIOUS
<1>2. st[id] = LifecycleStatus(id)
  OBVIOUS
<1>3. CASE LifecycleStatus(id)' = LifecycleStatus(id)
  BY <1>1, <1>2, <1>3
<1>4. CASE LifecycleStatus(id)' = "lost"
  BY <1>1, <1>4 DEF OCI!Next, OCI!Lose
<1>5. CASE <<LifecycleStatus(id), LifecycleStatus(id)'>> \in Edges
  BY <1>1, <1>2, <1>5 DEF Edges, OCI!Next, OCI!BeginCreate, OCI!FinishCreate,
     OCI!Start, OCI!Stop, OCI!Delete, OCI!Becomes
<1>6. QED BY <1>3, <1>4, <1>5 DEF AllowedMove

(***************************************************************************)
(* Every step of a call moves the status of its container along the        *)
(* lifecycle.                                                              *)
(***************************************************************************)
LEMMA StepMoves ==
  ASSUME TypeOK, TypeOK', LifecycleInv, LifecycleInv', StatusFacts, StatusFacts',
         NEW c \in Callers, Step(c) \/ Crash(c),
         NEW id \in Ids, id = cid[c], OnlyTouches(c, id), pc[c] # "idle",
         \A d \in Callers \ {c} : cid[d] # id
  PROVE  AllowedMove(id)
<1>1. /\ CallInv(c)
      /\ LifecycleStatus(id) = FileState(c)
  BY DEF LifecycleInv, StatusFacts
<1>2. ASSUME Return(c) PROVE LifecycleStatus(id)' = AtRest(id)'
  <2>1. \A d \in Callers : cid'[d] # id
    BY <1>2, ConstantsAssumption DEF Return, OnlyTouches, TypeOK
  <2>2. QED BY <2>1 DEF StatusFacts
<1>3. ASSUME NEW status, NEW step, step # "idle", Continue(c, status, step)
      PROVE  /\ pc'[c] = step /\ mem'[c] = status
             /\ LifecycleStatus(id)' = FileState(c)'
  <2>1. pc'[c] = step /\ mem'[c] = status /\ cid'[c] = id
    BY <1>3 DEF Continue, TypeOK
  <2>2. QED BY <1>3, <2>1 DEF StatusFacts
<1>4. CASE OpenFile(c)
  <2>1. pc'[c] = pc[c] /\ cid'[c] = id /\ mem'[c] = mem[c]
    BY <1>4 DEF OpenFile
  <2>2. LifecycleStatus(id)' = FileState(c)'
    BY <2>1 DEF StatusFacts
  <2>3. QED BY <1>1, <2>1, <2>2 DEF FileState, AllowedMove
<1>5. CASE WriteFile(c)
  <2>1. /\ disk' = [disk EXCEPT ![id] = mem[c]]
        /\ pc[c] \in SaveSteps
        /\ mem[c].state \in HeldState(pc[c])
    BY <1>1, <1>5 DEF WriteFile, CallInv, Written
  <2>2. CASE pc[c] = "save_created"
    <3>1. LifecycleStatus(id)' = AtRest(id)'
      BY <1>2, <1>5, <2>2 DEF WriteFile
    <3>2. AtRest(id)' = "created"
      BY <2>1, <2>2 DEF AtRest, HeldState, TypeOK
    <3>3. FileState(c) = "creating"
      BY <2>2 DEF FileState, StateBefore
    <3>4. QED BY <1>1, <3>1, <3>2, <3>3 DEF AllowedMove, Edges
  <2>3. CASE pc[c] # "save_created"
    <3>1. AfterSave(pc[c]) # "idle"
      BY <2>1, <2>3 DEF AfterSave
    <3>2. Continue(c, HeldAfterSave(c), AfterSave(pc[c]))
      BY <1>5, <2>3 DEF WriteFile
    <3>3. /\ pc'[c] = AfterSave(pc[c]) /\ mem'[c] = HeldAfterSave(c)
          /\ LifecycleStatus(id)' = FileState(c)'
      BY <1>3, <3>1, <3>2
    <3>4. HeldAfterSave(c).state = mem[c].state
      BY DEF HeldAfterSave, TypeOK
    <3>5. \/ FileState(c)' = FileState(c)
          \/ <<FileState(c), FileState(c)'>> \in Edges
      BY <2>1, <2>3, <3>3, <3>4 DEF FileState, StateBefore, AfterSave, HeldState, Edges
    <3>6. QED BY <1>1, <3>3, <3>5 DEF AllowedMove
  <2>4. QED BY <2>2, <2>3
<1>6. CASE Return(c) /\ UNCHANGED disk
  <2>1. LifecycleStatus(id)' = AtRest(id)
    BY <1>2, <1>6 DEF AtRest
  <2>2. AtRest(id) \in {FileState(c), "lost"}
    BY <1>1 DEF AtRest, CallInv
  <2>3. QED BY <1>1, <2>1, <2>2 DEF AllowedMove
<1>7. CASE PrestartHooks(c) /\ ~Return(c)
  <2>1. Continue(c, [mem[c] EXCEPT !.state = "created"], "save_created")
    BY <1>7 DEF PrestartHooks
  <2>2. pc'[c] = "save_created" /\ LifecycleStatus(id)' = FileState(c)'
    BY <1>3, <2>1
  <2>3. FileState(c) = "creating" /\ FileState(c)' = "creating"
    BY <1>1, <1>7, <2>2 DEF PrestartHooks, CallInv, FileState, StateBefore, HeldState
  <2>4. QED BY <1>1, <2>2, <2>3 DEF AllowedMove
<1>8. CASE Spawn(c)
  <2>1. PICK p \in Pids : Continue(c, [mem[c] EXCEPT !.pid = p], "save_pid")
    BY <1>8 DEF Spawn
  <2>2. pc'[c] = "save_pid" /\ LifecycleStatus(id)' = FileState(c)'
    BY <1>3, <2>1
  <2>3. FileState(c) = "running" /\ FileState(c)' = "running"
    BY <1>1, <1>8, <2>2 DEF Spawn, CallInv, FileState, StateBefore, HeldState
  <2>4. QED BY <1>1, <2>2, <2>3 DEF AllowedMove
<1>9. CASE (Signal(c) \/ Wait(c)) /\ ~Return(c)
  <2>1. /\ Continue(c, mem[c], "wait") \/ Continue(c, mem[c], "mark")
        /\ pc[c] \in {"signal", "wait"}
    BY <1>9 DEF Signal, Wait
  <2>2. /\ pc'[c] \in {"wait", "mark"} /\ mem'[c] = mem[c]
        /\ LifecycleStatus(id)' = FileState(c)'
    BY <1>3, <2>1
  <2>3. QED BY <1>1, <2>1, <2>2 DEF FileState, AllowedMove
<1>10. CASE Mark(c) /\ ~Return(c)
  <2>1. /\ Continue(c, [mem[c] EXCEPT !.state = "stopped"], "save_stopped")
        /\ mem[c].state = "running"
        /\ pc[c] = "mark"
    BY <1>10 DEF Mark, CanTransitionTo
  <2>2. pc'[c] = "save_stopped" /\ LifecycleStatus(id)' = FileState(c)'
    BY <1>3, <2>1
  <2>3. QED BY <1>1, <2>1, <2>2 DEF FileState, StateBefore, AllowedMove
<1>11. CASE Remove(c)
  <2>1. LifecycleStatus(id)' = AtRest(id)'
    BY <1>2, <1>11 DEF Remove
  <2>2. AtRest(id)' = "absent"
    BY <1>11 DEF Remove, AtRest, TypeOK
  <2>3. FileState(c) = "stopped"
    BY <1>1, <1>11 DEF Remove, CallInv, FileState, HeldState
  <2>4. QED BY <1>1, <2>1, <2>2, <2>3 DEF AllowedMove, Edges
<1>12. QED
  BY <1>4, <1>5, <1>6, <1>7, <1>8, <1>9, <1>10, <1>11
     DEF Step, SaveFails, PrestartHooks, SpawnFails, PoststartHooks, Signal, Wait,
         Mark, PoststopHooks, RemoveFails, Crash

(* A call that begins leaves the status of its container as it is.         *)
LEMMA CallStays ==
  ASSUME TypeOK, TypeOK', StatusFacts, StatusFacts',
         NEW c \in Callers, NEW id \in Ids, Call(c, id),
         \A d \in Callers : cid[d] # id
  PROVE  LifecycleStatus(id)' = LifecycleStatus(id)
<1>1. LifecycleStatus(id) = AtRest(id)
  BY DEF StatusFacts
<1>2. pc'[c] # "idle" /\ cid'[c] = id
  BY DEF Call, Create, Start, Stop, Delete, Enter, TypeOK
<1>3. LifecycleStatus(id)' = FileState(c)'
  BY <1>2 DEF StatusFacts
<1>4. FileState(c)' = AtRest(id)
  <2>1. CASE Create(c, id)
    BY <2>1 DEF Create, Exists, Enter, FileState, StateBefore, AtRest, TypeOK
  <2>2. CASE Start(c, id)
    BY <2>2 DEF Start, CanTransitionTo, Enter, FileState, StateBefore, AtRest, TypeOK
  <2>3. CASE Stop(c, id)
    BY <2>3 DEF Stop, Loads, Enter, FileState, AtRest, TypeOK
  <2>4. CASE Delete(c, id)
    BY <2>4 DEF Delete, Enter, FileState, AtRest, TypeOK
  <2>5. QED BY <2>1, <2>2, <2>3, <2>4 DEF Call
<1>5. QED BY <1>1, <1>3, <1>4

(***************************************************************************)
(* Serialised callers implement the lifecycle of the documentation, for    *)
(* any number of callers and containers and with every fault of the        *)
(* environment: the detailed specification refines OCILifecycle.           *)
(***************************************************************************)
THEOREM Refinement == ASSUME Serialized PROVE Spec => LifecycleOrder
<1>1. Init => OCI!Init
  BY DEF Init, OCI!Init, LifecycleStatus, Saves
<1>2. ASSUME TypeOK, TypeOK', LifecycleInv, LifecycleInv', StatusFacts, StatusFacts',
             [Next]_vars
      PROVE  [OCI!Next]_([id \in Ids |-> LifecycleStatus(id)])
  <2>1. ASSUME NEW c \in Callers, Step(c) \/ Crash(c)
        PROVE  [OCI!Next]_([id \in Ids |-> LifecycleStatus(id)])
    <3>1. PICK id \in Ids : /\ id = cid[c]
                            /\ pc[c] # "idle"
                            /\ OnlyTouches(c, id)
                            /\ \A d \in Callers \ {c} : cid[d] # id
      BY <1>2, <2>1, StepTouches, Busy
    <3>2. AllowedMove(id)
      BY <1>2, <2>1, <3>1, StepMoves
    <3>3. \A i \in Ids \ {id} : LifecycleStatus(i)' = LifecycleStatus(i)
      BY <1>2, <3>1, OthersStay
    <3>4. QED BY <3>2, <3>3, MoveIsStep
  <2>2. ASSUME NEW c \in Callers, NEW id \in Ids, Call(c, id)
        PROVE  [OCI!Next]_([i \in Ids |-> LifecycleStatus(i)])
    <3>1. (\A d \in Callers : cid[d] # id) /\ OnlyTouches(c, id)
      BY <1>2, <2>2, CallTouches
    <3>2. cid[c] = NoId
      BY <1>2, <2>2 DEF Call, Create, Start, Stop, Delete, Admit, LifecycleInv, CallInv
    <3>3. AllowedMove(id)
      BY <1>2, <2>2, <3>1, CallStays DEF AllowedMove
    <3>4. \A i \in Ids \ {id} : LifecycleStatus(i)' = LifecycleStatus(i)
      BY <1>2, <3>1, <3>2, OthersStay
    <3>5. QED BY <3>3, <3>4, MoveIsStep
  <2>3. CASE UNCHANGED <<disk, pc, cid, mem, fd, spawns>>
    BY <2>3 DEF LifecycleStatus, Saves
  <2>4. QED
    BY <1>2, <2>1, <2>2, <2>3 DEF Next, Exit, ProcessExit, ForeignSpawn, vars
<1>3. QED
  BY <1>1, <1>2, StatusIs, TypeCorrect, LifecycleInvariant, PTL
     DEF Spec, LifecycleOrder, OCI!Spec
-----------------------------------------------------------------------------
(***************************************************************************)
(* A program that embeds the runtime: its calls are serialised, it neither *)
(* exits nor crashes between two of them, and its saves succeed.           *)
(***************************************************************************)
Embedded == Serialized /\ Env \cap {"exit", "crash", "io"} = {}

OneCaller == \A c, d \in Callers : c = d

(* A container's process has not been reaped: its parent is a caller.      *)
OwnedInv ==
  \A p \in Pids : proc[p].owner # NoId =>
    proc[p].run # "free" /\ proc[p].parent \in Callers

(* The file of a container at rest names a process of the container, and   *)
(* only in "running".                                                      *)
RestInv(id) ==
  (\A c \in Callers : cid[c] # id) /\ disk[id].pid # NoPid =>
    disk[id].state = "running" /\ proc[disk[id].pid].owner = id

(* The status that a call holds: what the file says, but while it is being *)
(* saved, and with a process of the container until that has been waited   *)
(* for.                                                                    *)
NameInv(c) ==
  pc[c] # "idle" =>
    /\ pc[c] \notin SaveSteps => disk[cid[c]] = mem[c]
    /\ pc[c] \in {"signal", "wait"} => mem[c].pid # NoPid
    /\ mem[c].pid # NoPid =>
         /\ pc[c] \in {"save_pid", "poststart", "signal", "wait", "mark", "save_stopped"}
         /\ pc[c] \in {"save_pid", "poststart", "signal", "wait"} =>
              proc[mem[c].pid].owner = cid[c]
         /\ pc[c] \in {"signal", "wait", "mark"} => mem[c].state = "running"

NamesInv ==
  /\ OwnedInv
  /\ \A id \in Ids : RestInv(id)
  /\ \A c \in Callers : NameInv(c)

(* Whoever works on the container of a process that is alive holds its     *)
(* identifier; when nobody does, the file has it.                          *)
ReachInv(p) ==
  proc[p].run = "alive" /\ proc[p].owner # NoId =>
    /\ ~InFlight(proc[p].owner) => disk[proc[p].owner] = [state |-> "running", pid |-> p]
    /\ \A c \in Callers : cid[c] = proc[p].owner =>
         pc[c] \in {"save_pid", "poststart", "signal", "wait"} /\ mem[c].pid = p

ReachesInv == \A p \in Pids : ReachInv(p)

(* What a step of a call on container id may do to the processes.          *)
OnlyOwn(id) ==
  \A p \in Pids : proc'[p] # proc[p] =>
    proc[p].owner \in {NoId, id} /\ proc'[p].owner \in {NoId, id}

(* Such a step preserves the invariants if it preserves the parts that     *)
(* speak of the caller, of the container and of its processes.             *)
LEMMA LocalNames ==
  ASSUME TypeOK, LifecycleInv, NamesInv, NEW c \in Callers, NEW id \in Ids,
         OnlyTouches(c, id), cid[c] \in {id, NoId}, OnlyOwn(id),
         OwnedInv', RestInv(id)', NameInv(c)'
  PROVE  NamesInv'
<1>1. ASSUME NEW i \in Ids, i # id PROVE RestInv(i)'
  <2>1. disk'[i] = disk[i] /\ ((\A d \in Callers : cid'[d] # i) => \A d \in Callers : cid[d] # i)
    BY <1>1, ConstantsAssumption DEF OnlyTouches
  <2>2. disk[i].pid # NoPid => disk[i].pid \in Pids
    BY DEF TypeOK
  <2>3. RestInv(i)
    BY DEF NamesInv
  <2>4. i # NoId
    BY ConstantsAssumption
  <2>5. QED BY <1>1, <2>1, <2>2, <2>3, <2>4 DEF RestInv, OnlyOwn
<1>2. ASSUME NEW d \in Callers, d # c PROVE NameInv(d)'
  <2>1. /\ pc'[d] = pc[d] /\ cid'[d] = cid[d] /\ mem'[d] = mem[d] /\ cid[d] # id
    BY <1>2 DEF OnlyTouches
  <2>2. CASE pc[d] = "idle"
    BY <2>1, <2>2 DEF NameInv
  <2>3. CASE pc[d] # "idle"
    <3>1. cid[d] \in Ids \ {id, NoId} /\ disk'[cid[d]] = disk[cid[d]]
      BY <2>1, <2>3, Busy, ConstantsAssumption DEF OnlyTouches
    <3>2. mem[d].pid # NoPid => mem[d].pid \in Pids
      BY DEF TypeOK
    <3>3. NameInv(d)
      BY DEF NamesInv
    <3>4. QED BY <2>1, <3>1, <3>2, <3>3 DEF NameInv, OnlyOwn
  <2>4. QED BY <2>2, <2>3
<1>3. QED BY <1>1, <1>2 DEF NamesInv

LEMMA LocalReaches ==
  ASSUME TypeOK, ReachesInv, NEW c \in Callers, NEW id \in Ids,
         OnlyTouches(c, id), cid[c] \in {id, NoId}, OnlyOwn(id),
         \A p \in Pids : proc'[p].owner = id => ReachInv(p)'
  PROVE  ReachesInv'
<1>1. ASSUME NEW p \in Pids, proc'[p].owner \notin {id, NoId} PROVE ReachInv(p)'
  <2>1. proc'[p] = proc[p] /\ ReachInv(p) /\ proc[p].owner \in Ids \ {id}
    BY <1>1 DEF OnlyOwn, ReachesInv, TypeOK
  <2>2. disk'[proc[p].owner] = disk[proc[p].owner]
    BY <2>1 DEF OnlyTouches
  <2>3. \A d \in Callers : cid'[d] = proc[p].owner <=> cid[d] = proc[p].owner
    BY <1>1, <2>1 DEF OnlyTouches
  <2>4. \A d \in Callers : cid[d] = proc[p].owner => pc'[d] = pc[d] /\ mem'[d] = mem[d]
    BY <1>1, <2>1, ConstantsAssumption DEF OnlyTouches
  <2>5. QED BY <2>1, <2>2, <2>3, <2>4 DEF ReachInv, InFlight
<1>2. ASSUME NEW p \in Pids, proc'[p].owner = NoId PROVE ReachInv(p)'
  BY <1>2 DEF ReachInv
<1>3. QED BY <1>1, <1>2 DEF ReachesInv

-----------------------------------------------------------------------------
(* A call that returns from a step at which the file holds what the caller *)
(* has in memory leaves the file so.                                       *)
LEMMA ReturnNames ==
  ASSUME TypeOK, NEW c \in Callers, NEW id \in Ids, Return(c),
         disk'[id].pid # NoPid =>
           disk'[id].state = "running" /\ proc'[disk'[id].pid].owner = id
  PROVE  RestInv(id)' /\ NameInv(c)'
BY DEF Return, RestInv, NameInv, TypeOK

(* A container that a call goes on working on is not at rest.              *)
LEMMA BusyRest ==
  ASSUME NEW c \in Callers, NEW id \in Ids, id = cid[c], cid' = cid
  PROVE  RestInv(id)'
BY DEF RestInv

(* Processes stay owned when a step changes none, but for one of them.     *)
LEMMA OwnedStep ==
  ASSUME TypeOK, OwnedInv, NEW p \in Pids, NEW q \in Processes,
         proc' = [proc EXCEPT ![p] = q],
         q.owner # NoId => q.run # "free" /\ q.parent \in Callers
  PROVE  OwnedInv'
BY DEF OwnedInv, TypeOK

(***************************************************************************)
(* The steps of a call in a program that embeds the runtime.               *)
(***************************************************************************)
LEMMA StepNames ==
  ASSUME Embedded, TypeOK, LifecycleInv, NamesInv, NEW c \in Callers, Step(c),
         NEW id \in Ids, id = cid[c]
  PROVE  OnlyOwn(id) /\ OwnedInv' /\ RestInv(id)' /\ NameInv(c)'
<1>1. pc[c] # "idle"
  BY StepTouches
<1>2. id = cid[c]
  OBVIOUS
<1>3. id # NoId
  BY ConstantsAssumption
<1>4. CallInv(c) /\ NameInv(c) /\ OwnedInv
  BY DEF LifecycleInv, NamesInv
<1>5. "io" \notin Env
  BY DEF Embedded
<1>6. proc' = proc => OnlyOwn(id) /\ OwnedInv'
  BY <1>4 DEF OnlyOwn, OwnedInv
<1>7. CASE OpenFile(c)
  <2>1. NameInv(c)'
    BY <1>4, <1>7 DEF OpenFile, NameInv
  <2>2. QED BY <1>2, <1>6, <1>7, <2>1, BusyRest DEF OpenFile
<1>8. CASE WriteFile(c)
  <2>1. proc' = proc /\ pc[c] \in SaveSteps /\ disk' = [disk EXCEPT ![id] = mem[c]]
    BY <1>1, <1>2, <1>4, <1>8 DEF WriteFile, CallInv, Written
  <2>2. CASE pc[c] = "save_created"
    <3>1. Return(c) /\ disk'[id].pid = NoPid
      BY <1>4, <1>8, <2>1, <2>2 DEF WriteFile, NameInv, TypeOK
    <3>2. QED BY <1>2, <1>6, <2>1, <3>1, ReturnNames
  <2>3. CASE pc[c] # "save_created"
    <3>1. Continue(c, HeldAfterSave(c), AfterSave(pc[c]))
      BY <1>8, <2>3 DEF WriteFile
    <3>2. /\ cid' = cid /\ pc'[c] = AfterSave(pc[c]) /\ mem'[c] = HeldAfterSave(c)
          /\ disk'[id] = mem[c]
      BY <2>1, <3>1 DEF Continue, TypeOK
    <3>3. NameInv(c)'
      BY <1>1, <1>2, <1>4, <2>1, <2>3, <3>2 DEF NameInv, AfterSave, HeldAfterSave, TypeOK
    <3>4. QED BY <1>2, <1>6, <2>1, <3>2, <3>3, BusyRest
  <2>4. QED BY <2>2, <2>3
<1>9. CASE PrestartHooks(c)
  <2>1. proc' = proc /\ disk' = disk /\ disk[id] = mem[c] /\ mem[c].pid = NoPid
    BY <1>1, <1>2, <1>4, <1>9 DEF PrestartHooks, NameInv
  <2>2. CASE Return(c)
    BY <1>2, <1>6, <2>1, <2>2, ReturnNames
  <2>3. CASE Continue(c, [mem[c] EXCEPT !.state = "created"], "save_created")
    <3>1. NameInv(c)' /\ cid' = cid
      BY <2>1, <2>3 DEF Continue, NameInv, TypeOK
    <3>2. QED BY <1>2, <1>6, <2>1, <3>1, BusyRest
  <2>4. QED BY <1>9, <2>2, <2>3 DEF PrestartHooks
<1>10. CASE Spawn(c)
  <2>1. PICK p \in Pids :
          /\ proc[p].run = "free"
          /\ proc' = [proc EXCEPT ![p] = [run |-> "alive", owner |-> id, parent |-> c]]
          /\ Continue(c, [mem[c] EXCEPT !.pid = p], "save_pid")
    BY <1>2, <1>10 DEF Spawn
  <2>2. OwnedInv'
    BY <1>4, <2>1, OwnedStep
  <2>3. OnlyOwn(id)
    BY <1>4, <2>1 DEF OnlyOwn, OwnedInv, TypeOK
  <2>4. NameInv(c)' /\ cid' = cid
    BY <1>2, <2>1 DEF Continue, NameInv, TypeOK
  <2>5. QED BY <1>2, <2>2, <2>3, <2>4, BusyRest
<1>11. CASE SpawnFails(c) \/ PoststopHooks(c)
  <2>1. proc' = proc /\ disk' = disk /\ disk[id] = mem[c] /\ mem[c].pid = NoPid /\ Return(c)
    BY <1>1, <1>2, <1>4, <1>11 DEF SpawnFails, PoststopHooks, NameInv
  <2>2. QED BY <1>2, <1>6, <2>1, ReturnNames
<1>12. CASE PoststartHooks(c)
  <2>1. proc' = proc /\ disk' = disk /\ disk[id] = mem[c] /\ Return(c)
    BY <1>1, <1>2, <1>4, <1>12 DEF PoststartHooks, NameInv
  <2>2. /\ mem[c].state = "running"
        /\ mem[c].pid # NoPid => proc[mem[c].pid].owner = id
    BY <1>2, <1>4, <1>12 DEF PoststartHooks, NameInv, CallInv, HeldState
  <2>3. QED BY <1>2, <1>6, <2>1, <2>2, ReturnNames
<1>13. CASE Signal(c)
  <2> DEFINE p == mem[c].pid
  <2>1. p # NoPid /\ p \in Pids /\ proc[p].owner = id /\ proc[p].run # "free" /\ proc[p].parent \in Callers
        /\ disk[id] = mem[c] /\ mem[c].state = "running"
    BY <1>1, <1>2, <1>3, <1>4, <1>13 DEF Signal, NameInv, OwnedInv, TypeOK
  <2>2. /\ Continue(c, mem[c], "wait") /\ disk' = disk
        /\ \/ proc' = proc
           \/ proc' = [proc EXCEPT ![p].run = "doomed"]
    BY <1>13, <2>1 DEF Signal
  <2>3. proc'[p].owner = id /\ OnlyOwn(id) /\ OwnedInv'
    <3>1. CASE proc' = proc
      BY <1>6, <2>1, <3>1
    <3>2. CASE proc' = [proc EXCEPT ![p].run = "doomed"]
      BY <1>4, <2>1, <3>2 DEF OnlyOwn, OwnedInv, TypeOK
    <3>3. QED BY <2>2, <3>1, <3>2
  <2>4. cid' = cid /\ pc'[c] = "wait" /\ mem'[c] = mem[c]
    BY <2>2 DEF Continue, TypeOK
  <2>5. NameInv(c)'
    BY <1>2, <2>1, <2>2, <2>3, <2>4 DEF NameInv
  <2>6. QED BY <1>2, <2>3, <2>4, <2>5, BusyRest
<1>14. CASE Wait(c)
  <2> DEFINE p == mem[c].pid
  <2>1. p \in Pids /\ proc[p].owner = id /\ proc[p].run # "free" /\ proc[p].parent \in Callers
        /\ disk[id] = mem[c] /\ mem[c].state = "running"
    BY <1>1, <1>2, <1>3, <1>4, <1>14 DEF Wait, NameInv, OwnedInv, TypeOK
  <2>2. /\ Continue(c, mem[c], "mark") /\ disk' = disk
        /\ \/ proc' = proc
           \/ proc' = [proc EXCEPT ![p] = FreeSlot]
           \/ proc' = [proc EXCEPT ![p].run = "doomed"]
    BY <1>14 DEF Wait
  <2>3. OnlyOwn(id) /\ OwnedInv'
    <3>1. CASE proc' = [proc EXCEPT ![p] = FreeSlot]
      BY <1>4, <2>1, <3>1 DEF OnlyOwn, OwnedInv, TypeOK
    <3>2. CASE proc' = [proc EXCEPT ![p].run = "doomed"]
      BY <1>4, <2>1, <3>2 DEF OnlyOwn, OwnedInv, TypeOK
    <3>3. QED BY <1>6, <2>2, <3>1, <3>2
  <2>4. NameInv(c)' /\ cid' = cid
    BY <1>2, <2>1, <2>2, <2>3 DEF Continue, NameInv, TypeOK
  <2>5. QED BY <1>2, <2>3, <2>4, BusyRest
<1>15. CASE Mark(c)
  <2>1. proc' = proc /\ disk' = disk /\ disk[id] = mem[c] /\ (mem[c].pid # NoPid => mem[c].state = "running")
    BY <1>1, <1>2, <1>4, <1>15 DEF Mark, NameInv
  <2>2. CASE mem[c].state = "running"
    <3>1. Continue(c, [mem[c] EXCEPT !.state = "stopped"], "save_stopped")
      BY <1>15, <2>2 DEF Mark, CanTransitionTo
    <3>2. NameInv(c)' /\ cid' = cid
      BY <3>1 DEF Continue, NameInv, TypeOK
    <3>3. QED BY <1>2, <1>6, <2>1, <3>2, BusyRest
  <2>3. CASE mem[c].state # "running"
    <3>1. Return(c)
      BY <1>15, <2>3 DEF Mark, CanTransitionTo
    <3>2. QED BY <1>2, <1>6, <2>1, <2>3, <3>1, ReturnNames
  <2>4. QED BY <2>2, <2>3
<1>16. CASE Remove(c)
  <2>1. proc' = proc /\ disk'[id].pid = NoPid /\ Return(c)
    BY <1>2, <1>16 DEF Remove, TypeOK
  <2>2. QED BY <1>2, <1>6, <2>1, ReturnNames
<1>17. QED
  BY <1>5, <1>7, <1>8, <1>9, <1>10, <1>11, <1>12, <1>13, <1>14, <1>15, <1>16
     DEF Step, SaveFails, RemoveFails

(* The calls that begin.                                                   *)
LEMMA CallNames ==
  ASSUME Embedded, TypeOK, LifecycleInv, NamesInv, NEW c \in Callers, NEW id \in Ids,
         Call(c, id)
  PROVE  OnlyOwn(id) /\ OwnedInv' /\ RestInv(id)' /\ NameInv(c)'
<1>1. (\A d \in Callers : cid[d] # id) /\ RestInv(id) /\ OwnedInv
  BY CallTouches DEF Embedded, NamesInv
<1>2. proc' = proc /\ disk' = disk
  BY DEF Call, Create, Start, Stop, Delete
<1>3. cid'[c] = id
  BY DEF Call, Create, Start, Stop, Delete, Enter, TypeOK
<1>4. NameInv(c)'
  <2>1. CASE Create(c, id)
    BY <2>1 DEF Create, Enter, NameInv, TypeOK
  <2>2. CASE Start(c, id)
    BY <1>1, <2>2 DEF Start, CanTransitionTo, Enter, NameInv, RestInv, TypeOK
  <2>3. CASE Stop(c, id)
    BY <1>1, <2>3 DEF Stop, Enter, NameInv, RestInv, TypeOK
  <2>4. CASE Delete(c, id)
    BY <1>1, <2>4 DEF Delete, Enter, NameInv, RestInv, TypeOK
  <2>5. QED BY <2>1, <2>2, <2>3, <2>4 DEF Call
<1>5. QED BY <1>1, <1>2, <1>3, <1>4 DEF OnlyOwn, OwnedInv, RestInv

(* Processes that exit of themselves, and those of other programs.         *)
LEMMA ProcessNames ==
  ASSUME TypeOK, NamesInv, NEW p \in Pids, ProcessExit(p) \/ ForeignSpawn(p)
  PROVE  NamesInv' /\ (ReachesInv => ReachesInv')
<1>1. UNCHANGED <<disk, pc, cid, mem, fd>>
  BY DEF ProcessExit, ForeignSpawn
<1>2. OwnedInv
  BY DEF NamesInv
<1>3. /\ \A q \in Pids \ {p} : proc'[q] = proc[q]
      /\ proc'[p].owner = proc[p].owner
      /\ proc[p].owner # NoId =>
           /\ proc'[p].run # "free" /\ proc'[p].parent = proc[p].parent
           /\ proc'[p].run = "alive" => proc[p].run = "alive"
  <2>1. proc[p] \in Processes /\ (proc[p].owner # NoId => proc[p].run # "free" /\ proc[p].parent # HostInit)
    BY <1>2, ConstantsAssumption DEF OwnedInv, TypeOK
  <2>2. CASE ProcessExit(p)
    <3>1. CASE proc[p].parent = HostInit
      BY <2>1, <2>2, <3>1 DEF ProcessExit, TypeOK
    <3>2. CASE proc[p].parent # HostInit
      BY <2>1, <2>2, <3>2 DEF ProcessExit, TypeOK
    <3>3. QED BY <3>1, <3>2
  <2>3. CASE ForeignSpawn(p)
    BY <2>1, <2>3 DEF ForeignSpawn, TypeOK
  <2>4. QED BY <2>2, <2>3
<1>4. OwnedInv'
  BY <1>2, <1>3 DEF OwnedInv
<1>5. \A q \in Pids : /\ proc'[q].owner = proc[q].owner
                      /\ proc'[q].owner # NoId /\ proc'[q].run = "alive" => proc[q].run = "alive"
  BY <1>3
<1>6. \A id \in Ids : RestInv(id)'
  BY <1>1, <1>5 DEF NamesInv, RestInv, TypeOK
<1>7. \A c \in Callers : NameInv(c)'
  BY <1>1, <1>5 DEF NamesInv, NameInv, TypeOK
<1>8. ReachesInv => ReachesInv'
  BY <1>1, <1>5 DEF ReachesInv, ReachInv, InFlight
<1>9. QED BY <1>4, <1>6, <1>7, <1>8 DEF NamesInv

LEMMA NamesStep ==
  ASSUME Embedded, TypeOK, LifecycleInv, NamesInv, [Next]_vars
  PROVE  NamesInv'
<1>1. ASSUME NEW c \in Callers, Step(c) PROVE NamesInv'
  <2>1. PICK id \in Ids : id = cid[c]
    BY <1>1, StepTouches
  <2>2. OnlyTouches(c, id)
    BY <1>1, <2>1, StepTouches
  <2>3. QED BY <1>1, <2>1, <2>2, StepNames, LocalNames
<1>2. ASSUME NEW c \in Callers, NEW id \in Ids, Call(c, id) PROVE NamesInv'
  <2>1. OnlyTouches(c, id)
    BY <1>2, CallTouches DEF Embedded
  <2>2. cid[c] = NoId
    BY <1>2 DEF Call, Create, Start, Stop, Delete, Admit, LifecycleInv, CallInv
  <2>3. QED BY <1>2, <2>1, <2>2, CallNames, LocalNames
<1>3. ASSUME NEW p \in Pids, ProcessExit(p) \/ ForeignSpawn(p) PROVE NamesInv'
  BY <1>3, ProcessNames
<1>4. CASE UNCHANGED vars
  BY <1>4 DEF vars, NamesInv, OwnedInv, RestInv, NameInv
<1>5. QED
  BY <1>1, <1>2, <1>3, <1>4 DEF Next, Embedded, Exit, Crash

(* The inductive invariant of the two theorems about processes.            *)
LEMMA NamesAlways == ASSUME Embedded PROVE Spec => []NamesInv
<1>1. Init => NamesInv
  BY DEF Init, NamesInv, OwnedInv, RestInv, NameInv
<1>2. TypeOK /\ LifecycleInv /\ NamesInv /\ [Next]_vars => NamesInv'
  BY NamesStep
<1>3. Serialized
  BY DEF Embedded
<1>4. QED BY <1>1, <1>2, <1>3, TypeCorrect, LifecycleInvariant, PTL DEF Spec

(***************************************************************************)
(* `stop' of programs that embed the runtime, however many callers they    *)
(* are, never signals a process that was given the identifier later:       *)
(* until the status is cleared the process of the container is at least a  *)
(* zombie of its parent, and its identifier is taken.                      *)
(***************************************************************************)
THEOREM RightProcess == ASSUME Embedded PROVE Spec => []SignalsOnlyItsContainer
<1>1. NamesInv => SignalsOnlyItsContainer
  BY DEF NamesInv, NameInv, SignalsOnlyItsContainer
<1>2. QED BY <1>1, NamesAlways, PTL

-----------------------------------------------------------------------------
(***************************************************************************)
(* With one caller, which is the parent of every container process, the    *)
(* wait of `stop' ends with the process reaped or killed.                  *)
(***************************************************************************)
LEMMA StepReaches ==
  ASSUME Embedded, OneCaller, TypeOK, LifecycleInv, NamesInv, ReachesInv,
         NEW c \in Callers, Step(c), NEW id \in Ids, id = cid[c],
         NEW p \in Pids, proc'[p].owner = id, proc'[p].run = "alive"
  PROVE  ReachInv(p)'
<1>1. id # NoId /\ "io" \notin Env
  BY ConstantsAssumption DEF Embedded
<1>2. CallInv(c) /\ NameInv(c) /\ OwnedInv /\ ReachInv(p) /\ \A d \in Callers : d = c
  BY DEF LifecycleInv, NamesInv, ReachesInv, OneCaller
<1>3. proc[p].owner = id /\ proc[p].run = "alive"
        => pc[c] \in {"save_pid", "poststart", "signal", "wait"} /\ mem[c].pid = p
  BY <1>1, <1>2 DEF ReachInv
<1>4. CASE Spawn(c)
  <2>1. PICK q \in Pids :
          /\ proc' = [proc EXCEPT ![q] = [run |-> "alive", owner |-> id, parent |-> c]]
          /\ Continue(c, [mem[c] EXCEPT !.pid = q], "save_pid")
    BY <1>4 DEF Spawn
  <2>2. p = q
    BY <1>3, <1>4, <2>1 DEF Spawn, TypeOK
  <2>3. pc'[c] = "save_pid" /\ mem'[c].pid = p /\ cid'[c] = id
    BY <2>1, <2>2 DEF Continue, TypeOK
  <2>4. QED BY <1>2, <2>3 DEF ReachInv, InFlight
<1>5. CASE ~Spawn(c)
  <2>1. proc[p].owner = id /\ proc[p].run = "alive"
    <3>1. CASE proc' = proc
      BY <3>1
    <3>2. CASE proc' # proc
      <4>1. Signal(c) \/ Wait(c)
        BY <1>5, <3>2 DEF Step, OpenFile, WriteFile, SaveFails, PrestartHooks, SpawnFails,
           PoststartHooks, Mark, PoststopHooks, Remove, RemoveFails
      <4>2. /\ mem[c].pid \in Pids
            /\ \/ proc' = [proc EXCEPT ![mem[c].pid] = FreeSlot]
               \/ proc' = [proc EXCEPT ![mem[c].pid].run = "doomed"]
        BY <1>2, <3>2, <4>1 DEF Signal, Wait, NameInv, TypeOK
      <4>3. p # mem[c].pid
        BY <4>2 DEF TypeOK
      <4>4. proc'[p] = proc[p]
        BY <4>2, <4>3 DEF TypeOK
      <4>5. QED BY <4>4
    <3>3. QED BY <3>1, <3>2
  <2>2. pc[c] \in {"save_pid", "poststart", "signal", "wait"} /\ mem[c].pid = p
    BY <1>3, <2>1
  <2>3. CASE pc[c] = "save_pid"
    <3>1. cid' = cid /\ mem' = mem /\ pc'[c] \in {"save_pid", "poststart"}
      BY <1>1, <1>5, <2>3 DEF Step, OpenFile, WriteFile, SaveFails, PrestartHooks, SpawnFails,
         PoststartHooks, Signal, Wait, Mark, PoststopHooks, Remove, RemoveFails,
         Continue, AfterSave, HeldAfterSave, TypeOK
    <3>2. QED BY <1>2, <2>2, <3>1 DEF ReachInv, InFlight
  <2>4. CASE pc[c] = "poststart"
    <3>1. Return(c) /\ disk' = disk /\ proc' = proc
      BY <1>5, <2>4 DEF Step, OpenFile, WriteFile, SaveFails, PrestartHooks, SpawnFails,
         PoststartHooks, Signal, Wait, Mark, PoststopHooks, Remove, RemoveFails
    <3>2. disk[id] = mem[c] /\ mem[c].state = "running"
      BY <1>2, <2>4 DEF NameInv, CallInv, HeldState
    <3>3. disk[id] = [state |-> "running", pid |-> p]
      BY <2>2, <3>2 DEF TypeOK
    <3>4. cid'[c] = NoId
      BY <3>1 DEF Return, TypeOK
    <3>5. QED BY <1>1, <1>2, <3>1, <3>3, <3>4 DEF ReachInv
  <2>5. CASE pc[c] = "signal"
    <3>1. Signal(c)
      BY <1>5, <2>5 DEF Step, OpenFile, WriteFile, SaveFails, PrestartHooks, SpawnFails,
         PoststartHooks, Wait, Mark, PoststopHooks, Remove, RemoveFails
    <3>2. Continue(c, mem[c], "wait")
      BY <2>1, <2>2, <3>1 DEF Signal
    <3>3. pc'[c] = "wait" /\ mem'[c] = mem[c] /\ cid'[c] = id
      BY <3>2 DEF Continue, TypeOK
    <3>4. QED BY <1>2, <2>2, <3>3 DEF ReachInv, InFlight
  <2>6. CASE pc[c] = "wait"
    <3>1. Wait(c)
      BY <1>5, <2>6 DEF Step, OpenFile, WriteFile, SaveFails, PrestartHooks, SpawnFails,
         PoststartHooks, Signal, Mark, PoststopHooks, Remove, RemoveFails
    <3>2. proc[p].parent = c
      BY <1>1, <1>2, <2>1 DEF OwnedInv
    <3>3. proc'[p].run # "alive"
      BY <2>1, <2>2, <3>1, <3>2 DEF Wait, TypeOK
    <3>4. QED BY <3>3
  <2>7. QED BY <2>2, <2>3, <2>4, <2>5, <2>6
<1>6. QED BY <1>4, <1>5

LEMMA ReachesStep ==
  ASSUME Embedded, OneCaller, TypeOK, LifecycleInv, NamesInv, ReachesInv, [Next]_vars
  PROVE  ReachesInv'
<1>1. ASSUME NEW c \in Callers, Step(c) PROVE ReachesInv'
  <2>1. PICK id \in Ids : id = cid[c]
    BY <1>1, StepTouches
  <2>2. OnlyTouches(c, id) /\ OnlyOwn(id)
    BY <1>1, <2>1, StepTouches, StepNames
  <2>3. ASSUME NEW p \in Pids, proc'[p].owner = id PROVE ReachInv(p)'
    <3>1. CASE proc'[p].run = "alive"
      BY <1>1, <2>1, <2>3, <3>1, StepReaches
    <3>2. CASE proc'[p].run # "alive"
      BY <3>2 DEF ReachInv
    <3>3. QED BY <3>1, <3>2
  <2>4. QED BY <2>1, <2>2, <2>3, LocalReaches
<1>2. ASSUME NEW c \in Callers, NEW id \in Ids, Call(c, id) PROVE ReachesInv'
  <2>1. OnlyTouches(c, id) /\ OnlyOwn(id) /\ (\A d \in Callers : cid[d] # id)
    BY <1>2, CallTouches, CallNames DEF Embedded
  <2>2. cid[c] = NoId
    BY <1>2 DEF Call, Create, Start, Stop, Delete, Admit, LifecycleInv, CallInv
  <2>3. ASSUME NEW p \in Pids, proc'[p].owner = id PROVE ReachInv(p)'
    <3>1. proc' = proc /\ ReachInv(p) /\ id # NoId
      BY <1>2, ConstantsAssumption DEF Call, Create, Start, Stop, Delete, ReachesInv
    <3>2. CASE proc[p].run # "alive"
      BY <3>1, <3>2 DEF ReachInv
    <3>3. CASE proc[p].run = "alive"
      <4>1. disk[id] = [state |-> "running", pid |-> p]
        BY <2>1, <2>3, <3>1, <3>3 DEF ReachInv, InFlight
      <4>2. /\ cid'[c] = id /\ pc'[c] = "signal" /\ mem'[c].pid = p
            /\ \A d \in Callers : d = c
        BY <1>2, <4>1, ConstantsAssumption DEF Call, Create, Exists, Start, CanTransitionTo, Stop, Delete,
           Enter, OneCaller, TypeOK
      <4>3. QED BY <2>3, <4>2 DEF ReachInv, InFlight
    <3>4. QED BY <3>2, <3>3
  <2>4. QED BY <2>1, <2>2, <2>3, LocalReaches
<1>3. ASSUME NEW p \in Pids, ProcessExit(p) \/ ForeignSpawn(p) PROVE ReachesInv'
  BY <1>3, ProcessNames
<1>4. CASE UNCHANGED vars
  BY <1>4 DEF vars, ReachesInv, ReachInv, InFlight
<1>5. QED
  BY <1>1, <1>2, <1>3, <1>4 DEF Next, Embedded, Exit, Crash

(***************************************************************************)
(* A single-threaded program that embeds the runtime and whose saves       *)
(* succeed leaks no container, however many it runs and whichever of their *)
(* hooks, clones and signals fail.                                         *)
(***************************************************************************)
THEOREM NothingLeaks == ASSUME Embedded, OneCaller PROVE Spec => []NoLeakedContainer
<1>1. Init => ReachesInv
  BY DEF Init, ReachesInv, ReachInv
<1>2. TypeOK /\ LifecycleInv /\ NamesInv /\ ReachesInv /\ [Next]_vars => ReachesInv'
  BY ReachesStep
<1>3. ReachesInv => NoLeakedContainer
  BY DEF ReachesInv, ReachInv, NoLeakedContainer
<1>4. Serialized
  BY DEF Embedded
<1>5. QED
  BY <1>1, <1>2, <1>3, <1>4, TypeCorrect, LifecycleInvariant, NamesAlways, PTL DEF Spec
=============================================================================
