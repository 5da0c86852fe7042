----------------------------- MODULE CgroupProofs -----------------------------
(***************************************************************************)
(* Proofs about Cgroup, for any managers, directories, values and number   *)
(* of processes: the limits that a process of a container is held to.      *)
(***************************************************************************)
EXTENDS Cgroup, TLAPS

(* The control files that apply has behind it when it is at f.             *)
Before(f) ==
  CASE f = "memory.max"  -> {}
    [] f = "memory.high" -> {"memory.max"}
    [] f = "cpu.max"     -> {"memory.max", "memory.high"}
    [] f = "pids.max"    -> {"memory.max", "memory.high", "cpu.max"}

(***************************************************************************)
(* The directory of a manager that shares it with nobody: a control file   *)
(* has no limit or the manager's, the ones that apply has passed have the  *)
(* manager's, and so have all when apply has succeeded.                    *)
(***************************************************************************)
DirectoryInv(m) ==
  Alone(m) =>
    /\ \A f \in Files : file[Path(m)][f] \in {Unlimited, Limit(m, f)}
    /\ pc[m] \in Files =>
         dir[Path(m)] /\ \A f \in Before(pc[m]) : file[Path(m)][f] = Limit(m, f)
    /\ ready[m] => dir[Path(m)] /\ file[Path(m)] = config[m].limits

CgroupInv == TypeOK /\ (\A m \in Managers : DirectoryInv(m)) /\ LimitsHold
-----------------------------------------------------------------------------
Call(m) ==
  \/ Apply(m) \/ ApplyFails(m) \/ MakeDirectory(m) \/ WriteLimit(m) \/ GiveUp(m)
  \/ Cleanup(m) \/ RemoveDirectory(m)
  \/ \E q \in Procs : add_process(m, q)

LEMMA Steps ==
  [Next]_vars =>
    \/ (\E m \in Managers : Call(m)) /\ UNCHANGED config
    \/ \E q \in Procs : Exit(q)
    \/ UNCHANGED vars
BY DEF Next, Teardown, Call

(* A manager's directory and limits.                                       *)
LEMMA ConfigType ==
  ASSUME TypeOK, NEW m \in Managers
  PROVE  /\ Path(m) \in Paths
         /\ config[m].limits \in [Files -> Values \cup {Unlimited}]
         /\ \A f \in Files : Limit(m, f) \in Values \cup {Unlimited}
<1>1. config[m] \in [path : Paths, limits : [Files -> Values \cup {Unlimited}]]
  BY CgroupAssumption DEF TypeOK
<1>2. QED BY <1>1 DEF Path, Limit

LEMMA TypeStep == TypeOK /\ [Next]_vars => TypeOK'
<1> SUFFICES ASSUME TypeOK, [Next]_vars PROVE TypeOK'
  OBVIOUS
<1>1. ASSUME NEW m \in Managers, Call(m), UNCHANGED config PROVE TypeOK'
  <2>1. Path(m) \in Paths /\ \A f \in Files : Limit(m, f) \in Values \cup {Unlimited}
    BY ConfigType
  <2>2. NewFiles \in [Files -> Values \cup {Unlimited}]
    BY DEF NewFiles
  <2>3. file' \in [Paths -> [Files -> Values \cup {Unlimited}]]
    <3>1. CASE MakeDirectory(m)
      BY <2>1, <2>2, <3>1 DEF MakeDirectory, TypeOK
    <3>2. CASE WriteLimit(m)
      <4>1. file \in [Paths -> [Files -> Values \cup {Unlimited}]] /\ pc[m] \in Files
        BY <3>2 DEF WriteLimit, TypeOK
      <4>2. [file[Path(m)] EXCEPT ![pc[m]] = Limit(m, pc[m])] \in [Files -> Values \cup {Unlimited}]
        BY <2>1, <4>1
      <4>3. file' = file \/ file' = [file EXCEPT ![Path(m)][pc[m]] = Limit(m, pc[m])]
        BY <3>2 DEF WriteLimit
      <4>4. QED BY <4>1, <4>2, <4>3
    <3>3. CASE RemoveDirectory(m)
      BY <2>1, <2>2, <3>3 DEF RemoveDirectory, TypeOK
    <3>4. QED
      BY <1>1, <3>1, <3>2, <3>3 DEF Call, Apply, ApplyFails, GiveUp, Cleanup, add_process, TypeOK
  <2>4. pc' \in [Managers -> Files \cup {"idle", "mkdir", "remove"}]
    BY <1>1 DEF Call, Apply, ApplyFails, MakeDirectory, WriteLimit, FileDone, AfterFile, GiveUp,
       Cleanup, RemoveDirectory, add_process, Files, TypeOK
  <2>5. /\ ready' \in [Managers -> BOOLEAN] /\ giveUp' \in [Managers -> BOOLEAN]
        /\ dir' \in [Paths -> BOOLEAN] /\ alive' \subseteq Procs
    BY <1>1, <2>1 DEF Call, Apply, ApplyFails, MakeDirectory, WriteLimit, FileDone, GiveUp,
       Cleanup, RemoveDirectory, add_process, TypeOK
  <2>6. applies' \in 0..MaxApplies
    BY <1>1, CgroupAssumption DEF Call, Apply, ApplyFails, MakeDirectory, WriteLimit, GiveUp,
       Cleanup, RemoveDirectory, add_process, TypeOK
  <2>7. /\ member' \in [Procs -> Paths \cup {NoPath}]
        /\ by' \in [Procs -> Managers \cup {NoManager}]
    BY <1>1, <2>1 DEF Call, Apply, ApplyFails, MakeDirectory, WriteLimit, GiveUp,
       Cleanup, RemoveDirectory, add_process, TypeOK
  <2>8. QED BY <1>1, <2>3, <2>4, <2>5, <2>6, <2>7 DEF TypeOK
<1>2. ASSUME NEW q \in Procs, Exit(q) PROVE TypeOK'
  BY <1>2 DEF Exit, ProcessExits, TypeOK
<1>3. CASE UNCHANGED vars
  BY <1>3 DEF vars, TypeOK
<1>4. QED BY <1>1, <1>2, <1>3, Steps

LEMMA TypeStart == Init => TypeOK
BY CgroupAssumption DEF Init, TypeOK, NewFiles

(***************************************************************************)
(* The variables of the managers and of the kernel keep their types: apply *)
(* goes from one control file that there is to the next.                   *)
(***************************************************************************)
THEOREM TypeCorrect == Spec => []TypeOK
BY TypeStart, TypeStep, PTL DEF Spec

-----------------------------------------------------------------------------
(* A manager's calls do nothing to another manager and to a directory that *)
(* is not its own.                                                         *)
LEMMA OthersUntouched ==
  ASSUME TypeOK, NEW n \in Managers, Call(n), NEW m \in Managers, m # n, Path(m) # Path(n)
  PROVE  /\ pc'[m] = pc[m] /\ ready'[m] = ready[m]
         /\ dir'[Path(m)] = dir[Path(m)] /\ file'[Path(m)] = file[Path(m)]
<1>1. pc'[m] = pc[m] /\ ready'[m] = ready[m]
  BY DEF TypeOK, Call, Apply, ApplyFails, MakeDirectory, WriteLimit, FileDone, GiveUp, Cleanup,
     RemoveDirectory, add_process
<1>2. Path(m) \in Paths /\ Path(n) \in Paths
  BY ConfigType
<1>3. dir'[Path(m)] = dir[Path(m)]
  BY <1>2 DEF TypeOK, Call, Apply, ApplyFails, MakeDirectory, WriteLimit, GiveUp, Cleanup,
     RemoveDirectory, add_process
<1>4. file'[Path(m)] = file[Path(m)]
  <2>1. \/ file' = file
        \/ \E value : file' = [file EXCEPT ![Path(n)] = value]
    BY DEF Call, Apply, ApplyFails, MakeDirectory, WriteLimit, GiveUp, Cleanup,
       RemoveDirectory, add_process
  <2>2. QED BY <1>2, <2>1 DEF TypeOK
<1>5. QED BY <1>1, <1>3, <1>4

(* Writing a control file brings apply from one file to the next, and past *)
(* the last all have the manager's values.                                 *)
LEMMA WriteStep ==
  ASSUME TypeOK, NEW m \in Managers, DirectoryInv(m), Alone(m), WriteLimit(m),
         UNCHANGED config
  PROVE  /\ dir'[Path(m)]
         /\ \A f \in Files : file'[Path(m)][f] \in {Unlimited, Limit(m, f)}
         /\ \A f \in Before(pc[m]) \cup {pc[m]} : file'[Path(m)][f] = Limit(m, f)
         /\ \A f \in Files : file[Path(m)][f] = Limit(m, f) => file'[Path(m)][f] = Limit(m, f)
<1>1. /\ Path(m) \in Paths /\ pc[m] \in Files
      /\ file[Path(m)] \in [Files -> Values \cup {Unlimited}]
      /\ file \in [Paths -> [Files -> Values \cup {Unlimited}]]
      /\ dir[Path(m)] /\ dir' = dir
      /\ \A f \in Files : file[Path(m)][f] \in {Unlimited, Limit(m, f)}
      /\ \A f \in Before(pc[m]) : file[Path(m)][f] = Limit(m, f)
  BY ConfigType DEF TypeOK, DirectoryInv, WriteLimit
<1>2. Before(pc[m]) \subseteq Files \ {pc[m]}
  BY <1>1 DEF Before, Files
<1>3. CASE Limit(m, pc[m]) = Unlimited
  <2>1. file' = file
    BY <1>3 DEF WriteLimit
  <2>2. file[Path(m)][pc[m]] = Limit(m, pc[m])
    BY <1>1, <1>3
  <2>3. QED BY <1>1, <2>1, <2>2
<1>4. CASE Limit(m, pc[m]) # Unlimited
  <2>1. file' = [file EXCEPT ![Path(m)][pc[m]] = Limit(m, pc[m])]
    BY <1>4 DEF WriteLimit
  <2>2. \A f \in Files : file'[Path(m)][f] = IF f = pc[m] THEN Limit(m, f) ELSE file[Path(m)][f]
    BY <1>1, <2>1
  <2>3. QED BY <1>1, <1>2, <2>2
<1>5. QED BY <1>3, <1>4

LEMMA SameDirectory ==
  ASSUME UNCHANGED config, NEW m \in Managers
  PROVE  /\ Path(m)' = Path(m) /\ (Alone(m)' <=> Alone(m))
         /\ config'[m].limits = config[m].limits /\ \A f \in Files : Limit(m, f)' = Limit(m, f)
BY DEF Path, Alone, Limit
(* The control files of a manager that is alone follow its own calls only. *)
LEMMA DirectoryStep ==
  ASSUME CgroupInv, NEW n \in Managers, Call(n), UNCHANGED config, NEW m \in Managers
  PROVE  DirectoryInv(m)'
<1>t. /\ TypeOK /\ DirectoryInv(m) /\ pc \in [Managers -> Files \cup {"idle", "mkdir", "remove"}]
      /\ ready \in [Managers -> BOOLEAN] /\ Path(m) \in Paths
      /\ dir \in [Paths -> BOOLEAN] /\ file \in [Paths -> [Files -> Values \cup {Unlimited}]]
      /\ config[m].limits \in [Files -> Values \cup {Unlimited}]
  BY ConfigType DEF CgroupInv, TypeOK
<1>s. /\ Path(m)' = Path(m) /\ (Alone(m)' <=> Alone(m))
      /\ config'[m].limits = config[m].limits /\ \A f \in Files : Limit(m, f)' = Limit(m, f)
  BY SameDirectory
<1> SUFFICES ASSUME Alone(m)
             PROVE  /\ \A f \in Files : file'[Path(m)][f] \in {Unlimited, Limit(m, f)}
                    /\ pc'[m] \in Files =>
                         /\ dir'[Path(m)]
                         /\ \A f \in Before(pc'[m]) : file'[Path(m)][f] = Limit(m, f)
                    /\ ready'[m] => dir'[Path(m)] /\ file'[Path(m)] = config[m].limits
  <2>1. \A f \in Before(pc'[m]) : pc'[m] \in Files => f \in Files
    BY DEF Before, Files
  <2>2. QED BY <1>s, <2>1 DEF DirectoryInv
<1>i. /\ \A f \in Files : file[Path(m)][f] \in {Unlimited, Limit(m, f)}
      /\ pc[m] \in Files =>
           dir[Path(m)] /\ \A f \in Before(pc[m]) : file[Path(m)][f] = Limit(m, f)
      /\ ready[m] => dir[Path(m)] /\ file[Path(m)] = config[m].limits
  BY <1>t DEF DirectoryInv
<1>1. CASE n # m
  <2>1. Path(m) # Path(n)
    BY <1>1 DEF Alone
  <2>2. QED BY <1>t, <1>i, <1>1, <2>1, OthersUntouched
<1>2. CASE n = m /\ WriteLimit(m)
  <2>1. /\ dir'[Path(m)]
        /\ \A f \in Files : file'[Path(m)][f] \in {Unlimited, Limit(m, f)}
        /\ \A f \in Before(pc[m]) \cup {pc[m]} : file'[Path(m)][f] = Limit(m, f)
    BY <1>t, <1>2, WriteStep
  <2>2. pc[m] \in Files /\ pc'[m] = AfterFile(pc[m]) /\ ready'[m] = (pc[m] = "pids.max")
    BY <1>t, <1>2 DEF WriteLimit, FileDone
  <2>3. pc'[m] \in Files => Before(pc'[m]) = Before(pc[m]) \cup {pc[m]}
    BY <2>2 DEF Before, AfterFile, Files
  <2>4. ASSUME pc[m] = "pids.max" PROVE file'[Path(m)] = config[m].limits
    <3>1. Before(pc[m]) \cup {pc[m]} = Files
      BY <2>4 DEF Before, Files
    <3>2. file'[Path(m)] \in [Files -> Values \cup {Unlimited}]
      <4>1. TypeOK'
        BY <1>t, <1>2, TypeStep DEF Next
      <4>2. QED BY <1>t, <4>1 DEF TypeOK
    <3>3. QED BY <1>t, <2>1, <3>1, <3>2 DEF Limit
  <2>5. QED BY <2>1, <2>2, <2>3, <2>4
<1>3. CASE n = m /\ MakeDirectory(m)
  <2>1. /\ dir'[Path(m)] /\ pc'[m] = "memory.max" /\ ready'[m] = ready[m]
        /\ file'[Path(m)] = IF dir[Path(m)] THEN file[Path(m)] ELSE NewFiles
    BY <1>t, <1>3 DEF MakeDirectory
  <2>2. Before("memory.max") = {}
    BY DEF Before
  <2>3. \A f \in Files : file'[Path(m)][f] \in {Unlimited, Limit(m, f)}
    BY <1>i, <2>1 DEF NewFiles
  <2>4. QED BY <1>i, <2>1, <2>2, <2>3
<1>4. CASE n = m /\ RemoveDirectory(m)
  <2>1. pc'[m] = "idle"
    BY <1>t, <1>4 DEF RemoveDirectory
  <2>2. CASE dir[Path(m)] /\ Members(Path(m)) = {}
    <3>1. ~ready'[m] /\ file'[Path(m)] = NewFiles
      BY <1>t, <1>4, <2>2 DEF RemoveDirectory
    <3>2. QED BY <2>1, <3>1 DEF NewFiles, Files
  <2>3. CASE ~(dir[Path(m)] /\ Members(Path(m)) = {})
    BY <1>i, <1>4, <2>1, <2>3 DEF RemoveDirectory, Files
  <2>4. QED BY <2>2, <2>3
<1>5. CASE n = m /\ ~WriteLimit(m) /\ ~MakeDirectory(m) /\ ~RemoveDirectory(m)
  <2>1. /\ dir' = dir /\ file' = file
        /\ pc'[m] \in {"idle", "mkdir", "remove"} \cup {pc[m]}
        /\ ready'[m] => ready[m]
    BY <1>t, <1>5 DEF Call, Apply, ApplyFails, GiveUp, Cleanup, add_process
  <2>2. pc'[m] \in Files => pc'[m] = pc[m]
    BY <2>1 DEF Files
  <2>3. QED BY <1>i, <2>1, <2>2
<1>6. QED BY <1>1, <1>2, <1>3, <1>4, <1>5

(***************************************************************************)
(* No call takes the limits away under a process: what a repeated apply    *)
(* writes is what is there, and a directory with a process is not removed. *)
(***************************************************************************)
LEMMA LimitsStep ==
  ASSUME CgroupInv, NEW n \in Managers, Call(n), UNCHANGED config
  PROVE  LimitsHold'
<1>t. /\ TypeOK /\ by \in [Procs -> Managers \cup {NoManager}] /\ alive \subseteq Procs
      /\ member \in [Procs -> Paths \cup {NoPath}]
  BY DEF CgroupInv, TypeOK
<1>a. alive' = alive
  BY DEF Call, Apply, ApplyFails, MakeDirectory, WriteLimit, GiveUp, Cleanup, RemoveDirectory,
     add_process
<1> SUFFICES ASSUME NEW q \in alive, NEW m, m = by'[q], m # NoManager, Alone(m)'
             PROVE  /\ dir'[Path(m)']
                    /\ member'[q] = Path(m)'
                    /\ file'[Path(m)'] = config'[m].limits
  BY <1>a DEF LimitsHold, Alone, Path
<1>1. CASE add_process(n, q)
  <2>1. m = n /\ ready[n] /\ member'[q] = Path(n) /\ UNCHANGED <<dir, file>>
    BY <1>t, <1>1 DEF add_process
  <2>2. Path(n)' = Path(n) /\ (Alone(n)' <=> Alone(n)) /\ config'[n].limits = config[n].limits
    BY SameDirectory
  <2>3. DirectoryInv(n)
    BY DEF CgroupInv
  <2>4. QED BY <2>1, <2>2, <2>3 DEF DirectoryInv
<1>2. CASE ~add_process(n, q)
  <2>1. by'[q] = by[q] /\ member'[q] = member[q]
    BY <1>t, <1>2 DEF Call, Apply, ApplyFails, MakeDirectory, WriteLimit, GiveUp, Cleanup,
       RemoveDirectory, add_process
  <2>2. m \in Managers
    BY <1>t, <2>1
  <2>3. Path(m)' = Path(m) /\ (Alone(m)' <=> Alone(m)) /\ config'[m].limits = config[m].limits
    BY <2>2, SameDirectory
  <2>4. Alone(m)
    BY <2>3
  <2>5. dir[Path(m)] /\ member[q] = Path(m) /\ file[Path(m)] = config[m].limits
    BY <2>1, <2>4 DEF CgroupInv, LimitsHold
  <2>6. dir'[Path(m)] /\ file'[Path(m)] = config[m].limits
    <3>1. CASE m # n
      <4>1. Path(m) # Path(n)
        BY <2>4, <3>1 DEF Alone
      <4>2. QED BY <1>t, <2>2, <2>5, <3>1, <4>1, OthersUntouched
    <3>2. CASE m = n /\ WriteLimit(n)
      <4>1. dir'[Path(m)] /\ DirectoryInv(m)
        BY <1>t, <2>2, <2>4, <3>2, WriteStep DEF CgroupInv
      <4>2. \A f \in Files : file'[Path(m)][f] = Limit(m, f)
        BY <1>t, <2>2, <2>4, <2>5, <3>2, <4>1, WriteStep DEF Limit
      <4>3. /\ file'[Path(m)] \in [Files -> Values \cup {Unlimited}]
            /\ config[m].limits \in [Files -> Values \cup {Unlimited}]
        <5>1. TypeOK' /\ Path(m) \in Paths
          BY <1>t, <2>2, <3>2, TypeStep, ConfigType DEF Next
        <5>2. QED BY <1>t, <2>2, <5>1, ConfigType DEF TypeOK
      <4>4. QED BY <4>1, <4>2, <4>3 DEF Limit
    <3>3. CASE m = n /\ MakeDirectory(n)
      BY <1>t, <2>2, <2>5, <3>3, ConfigType DEF MakeDirectory, TypeOK
    <3>4. CASE m = n /\ RemoveDirectory(n)
      <4>1. q \in Members(Path(m))
        BY <2>5 DEF Members
      <4>2. QED BY <2>5, <3>4, <4>1 DEF RemoveDirectory
    <3>5. CASE ~WriteLimit(n) /\ ~MakeDirectory(n) /\ ~RemoveDirectory(n)
      BY <2>5, <3>5 DEF Call, Apply, ApplyFails, GiveUp, Cleanup, add_process
    <3>6. QED BY <3>1, <3>2, <3>3, <3>4, <3>5
  <2>7. QED BY <2>1, <2>3, <2>5, <2>6
<1>3. QED BY <1>1, <1>2

LEMMA CgroupInvariant == Spec => []CgroupInv
<1>1. Init => CgroupInv
  <2> SUFFICES ASSUME Init PROVE CgroupInv
    OBVIOUS
  <2>1. ASSUME NEW m \in Managers PROVE DirectoryInv(m)
    <3>1. file[Path(m)] = NewFiles /\ pc[m] = "idle" /\ ~ready[m]
      BY TypeStart, ConfigType DEF Init
    <3>2. QED BY <3>1 DEF DirectoryInv, NewFiles, Files
  <2>2. LimitsHold
    BY DEF Init, LimitsHold
  <2>3. QED BY <2>1, <2>2, TypeStart DEF CgroupInv
<1>2. CgroupInv /\ [Next]_vars => CgroupInv'
  <2> SUFFICES ASSUME CgroupInv, [Next]_vars PROVE CgroupInv'
    OBVIOUS
  <2>1. TypeOK'
    BY TypeStep DEF CgroupInv
  <2>2. ASSUME NEW n \in Managers, Call(n), UNCHANGED config PROVE CgroupInv'
    BY <2>1, <2>2, DirectoryStep, LimitsStep DEF CgroupInv
  <2>3. ASSUME NEW q \in Procs, Exit(q) PROVE CgroupInv'
    <3>1. UNCHANGED <<config, pc, ready, dir, file>>
      BY <2>3 DEF Exit, ProcessExits
    <3>2. \A m \in Managers : DirectoryInv(m)'
      BY <3>1 DEF CgroupInv, DirectoryInv, Alone, Path, Limit
    <3>3. LimitsHold'
      BY <2>3, <3>1 DEF Exit, ProcessExits, CgroupInv, TypeOK, LimitsHold, Alone, Path
    <3>4. QED BY <2>1, <3>2, <3>3 DEF CgroupInv
  <2>4. CASE UNCHANGED vars
    BY <2>1, <2>4 DEF vars, CgroupInv, DirectoryInv, LimitsHold, Alone, Path, Limit
  <2>5. QED BY <2>2, <2>3, <2>4, Steps
<1>3. QED BY <1>1, <1>2, PTL DEF Spec

(***************************************************************************)
(* A process that a manager with a directory of its own added after its    *)
(* apply had succeeded is held to all limits of that manager for as long   *)
(* as it lives, whatever apply and cleanup are called again.               *)
(***************************************************************************)
THEOREM LimitsAlwaysHold == Spec => []LimitsHold
<1>1. CgroupInv => LimitsHold
  BY DEF CgroupInv
<1>2. QED BY <1>1, CgroupInvariant, PTL
===============================================================================
