------------------------------- MODULE Cgroup -------------------------------
(***************************************************************************)
(* The CgroupManager of src/cgroup/mod.rs over the kernel's cgroup file    *)
(* system.  A manager is made for a container identifier; its program      *)
(* calls apply, add_process and cleanup, and gives it up by repeating      *)
(* cleanup.  Managers with the same identifier (a second start, or a       *)
(* container of an earlier program that was not cleaned up) have the same  *)
(* directory, and their calls interleave.                                  *)
(***************************************************************************)
EXTENDS Naturals, FiniteSets

CONSTANTS
  Managers,
  Paths,      \* cgroup directories, one for each container identifier
  Values,     \* values of a control file other than "max"
  Unlimited,  \* the value "max", which a new cgroup has in every file
  Settings,   \* what the managers may be made for: see config
  Procs,      \* the processes of the containers
  NoPath, NoManager,
  MaxApplies  \* bound: how often apply is called

(* The control files in the order in which apply writes them; "cpu.max"    *)
(* holds quota and period in one value.                                    *)
Files == {"memory.max", "memory.high", "cpu.max", "pids.max"}

AfterFile(f) ==
  CASE f = "memory.max"  -> "memory.high"
    [] f = "memory.high" -> "cpu.max"
    [] f = "cpu.max"     -> "pids.max"
    [] f = "pids.max"    -> "idle"

(* limits[f] is Unlimited when the manager was given none.                 *)
ASSUME CgroupAssumption ==
  /\ Settings \subseteq [Managers -> [path : Paths, limits : [Files -> Values \cup {Unlimited}]]]
  /\ Unlimited \notin Values
  /\ NoPath \notin Paths
  /\ NoManager \notin Managers
  /\ MaxApplies \in Nat

VARIABLES
  config,   \* config[m]: the identifier's directory and the limits of m
  pc,       \* pc[m]: the step of m's call, or the file it writes next
  ready,    \* ready[m]: m's last apply succeeded, and no cleanup since
  giveUp,   \* giveUp[m]: the container has ended, only cleanup is called
  applies,  \* how often apply was called
  dir,      \* dir[p]: the directory exists
  file,     \* file[p][f]: the value in its control file
  member,   \* member[q]: the cgroup that process q is in
  by,       \* by[q]: the manager that put it there while ready
  alive     \* the processes that have not ended

vars == <<config, pc, ready, giveUp, applies, dir, file, member, by, alive>>

Path(m) == config[m].path
Limit(m, f) == config[m].limits[f]
Members(p) == {q \in alive : member[q] = p}

NewFiles == [f \in Files |-> Unlimited]

TypeOK ==
  /\ config \in Settings
  /\ pc \in [Managers -> Files \cup {"idle", "mkdir", "remove"}]
  /\ ready \in [Managers -> BOOLEAN]
  /\ giveUp \in [Managers -> BOOLEAN]
  /\ applies \in 0..MaxApplies
  /\ dir \in [Paths -> BOOLEAN]
  /\ file \in [Paths -> [Files -> Values \cup {Unlimited}]]
  /\ member \in [Procs -> Paths \cup {NoPath}]
  /\ by \in [Procs -> Managers \cup {NoManager}]
  /\ alive \subseteq Procs

Init ==
  /\ config \in Settings
  /\ pc = [m \in Managers |-> "idle"]
  /\ ready = [m \in Managers |-> FALSE]
  /\ giveUp = [m \in Managers |-> FALSE]
  /\ applies = 0
  /\ dir = [p \in Paths |-> FALSE]
  /\ file = [p \in Paths |-> NewFiles]
  /\ member = [q \in Procs |-> NoPath]
  /\ by = [q \in Procs |-> NoManager]
  /\ alive = Procs

-----------------------------------------------------------------------------
(* apply                                                                   *)

(* apply is called; verify_cgroup_v2 finds the hierarchy mounted (if not,  *)
(* apply fails with nothing changed).                                      *)
Apply(m) ==
  /\ pc[m] = "idle" /\ ~giveUp[m]
  /\ applies < MaxApplies
  /\ applies' = applies + 1
  /\ pc' = [pc EXCEPT ![m] = "mkdir"]
  /\ ready' = [ready EXCEPT ![m] = FALSE]
  /\ UNCHANGED <<giveUp, dir, file, member, by, alive>>

ApplyFails(m) ==
  /\ pc[m] \in Files \cup {"mkdir"}
  /\ pc' = [pc EXCEPT ![m] = "idle"]
  /\ UNCHANGED <<ready, giveUp, applies, dir, file, member, by, alive>>

(* create_dir_all of the prefix and of the directory, which may be there.  *)
MakeDirectory(m) ==
  /\ pc[m] = "mkdir"
  /\ dir' = [dir EXCEPT ![Path(m)] = TRUE]
  /\ file' = [file EXCEPT ![Path(m)] = IF dir[Path(m)] THEN @ ELSE NewFiles]
  /\ pc' = [pc EXCEPT ![m] = "memory.max"]
  /\ UNCHANGED <<ready, giveUp, applies, member, by, alive>>

(* Mutant: apply goes on to a control file that there is not.              *)
FileDoneRunsOn(m) ==
  /\ pc' = [pc EXCEPT ![m] = IF @ = "pids.max" THEN "io.max" ELSE AfterFile(@)]
  /\ ready' = [ready EXCEPT ![m] = pc[m] = "pids.max"]

(* Past the last file apply has succeeded.                                 *)
FileDone(m) ==
  /\ pc' = [pc EXCEPT ![m] = AfterFile(@)]
  /\ ready' = [ready EXCEPT ![m] = pc[m] = "pids.max"]

(* Mutant: a file that cannot be written is passed over.                   *)
WriteIfPossible(m) ==
  /\ pc[m] \in Files
  /\ file' \in {file, IF Limit(m, pc[m]) = Unlimited THEN file
                      ELSE [file EXCEPT ![Path(m)][pc[m]] = Limit(m, pc[m])]}
  /\ FileDone(m)
  /\ UNCHANGED <<giveUp, applies, dir, member, by, alive>>

(* Only a limit that was set is written, if the directory is still there;  *)
(* the kernel may refuse the value (ApplyFails).                           *)
WriteLimit(m) ==
  /\ pc[m] \in Files
  /\ \/ Limit(m, pc[m]) = Unlimited /\ UNCHANGED file
     \/ /\ Limit(m, pc[m]) # Unlimited
        /\ dir[Path(m)]
        /\ file' = [file EXCEPT ![Path(m)][pc[m]] = Limit(m, pc[m])]
  /\ FileDone(m)
  /\ UNCHANGED <<giveUp, applies, dir, member, by, alive>>

-----------------------------------------------------------------------------
(* add_process: nothing requires that apply was called or succeeded, only  *)
(* the directory must be there and the process alive.  The process leaves  *)
(* the cgroup it was in.                                                   *)
add_process(m, q) ==
  /\ pc[m] = "idle" /\ ~giveUp[m]
  /\ dir[Path(m)] /\ q \in alive
  /\ member' = [member EXCEPT ![q] = Path(m)]
  /\ by' = [by EXCEPT ![q] = IF ready[m] THEN m ELSE NoManager]
  /\ UNCHANGED <<pc, ready, giveUp, applies, dir, file, alive>>

(* Mutant: cleanup is skipped unless apply has completed.                  *)
CleanupIfReady(m) ==
  /\ pc[m] = "idle"
  /\ dir[Path(m)] /\ ready[m]
  /\ pc' = [pc EXCEPT ![m] = "remove"]
  /\ UNCHANGED <<ready, giveUp, applies, dir, file, member, by, alive>>

(* cleanup: a directory that does not exist is skipped.                    *)
Cleanup(m) ==
  /\ pc[m] = "idle"
  /\ dir[Path(m)]
  /\ pc' = [pc EXCEPT ![m] = "remove"]
  /\ UNCHANGED <<ready, giveUp, applies, dir, file, member, by, alive>>

(* remove_dir: the kernel refuses to remove a cgroup that has processes,   *)
(* and one that another cleanup has removed since.  Either way cleanup     *)
(* returns, with an error then.                                            *)
RemoveDirectory(m) ==
  /\ pc[m] = "remove"
  /\ IF dir[Path(m)] /\ Members(Path(m)) = {}
     THEN /\ dir' = [dir EXCEPT ![Path(m)] = FALSE]
          /\ file' = [file EXCEPT ![Path(m)] = NewFiles]
          /\ ready' = [ready EXCEPT ![m] = FALSE]
     ELSE UNCHANGED <<dir, file, ready>>
  /\ pc' = [pc EXCEPT ![m] = "idle"]
  /\ UNCHANGED <<giveUp, applies, member, by, alive>>

(* The container's program has ended: from now on only cleanup is called,  *)
(* until it succeeds.                                                      *)
GiveUp(m) ==
  /\ ~giveUp[m]
  /\ pc[m] = "idle"
  /\ giveUp' = [giveUp EXCEPT ![m] = TRUE]
  /\ UNCHANGED <<pc, ready, applies, dir, file, member, by, alive>>

ProcessExits(q) ==
  /\ q \in alive
  /\ alive' = alive \ {q}
  /\ member' = [member EXCEPT ![q] = NoPath]
  /\ by' = [by EXCEPT ![q] = NoManager]
  /\ UNCHANGED <<pc, ready, giveUp, applies, dir, file>>

Teardown(m) == (Cleanup(m) \/ RemoveDirectory(m)) /\ UNCHANGED config
Exit(q) == ProcessExits(q) /\ UNCHANGED config

Next ==
  \/ \E m \in Managers :
       \/ Teardown(m)
       \/ /\ \/ Apply(m) \/ ApplyFails(m) \/ MakeDirectory(m) \/ WriteLimit(m)
             \/ GiveUp(m) \/ \E q \in Procs : add_process(m, q)
          /\ UNCHANGED config
  \/ \E q \in Procs : Exit(q)

(* A program that has given its container up repeats cleanup, and the      *)
(* container's processes end.                                              *)
Fairness ==
  /\ \A m \in Managers : WF_vars(giveUp[m] /\ Teardown(m))
  /\ \A q \in Procs : WF_vars(Exit(q))

Spec == Init /\ [][Next]_vars /\ Fairness

-----------------------------------------------------------------------------
(* No other manager was made for the identifier of m.                      *)
Alone(m) == \A n \in Managers \ {m} : Path(n) # Path(m)

(***************************************************************************)
(* A process that was added after apply had succeeded is held to exactly   *)
(* the limits of its manager as long as it lives: none is missing because  *)
(* a write failed, none is left from before, and no failed or repeated     *)
(* apply, and no early cleanup, takes them away under it.  (With a second  *)
(* manager on the directory that is not so: its values win.)               *)
(***************************************************************************)
LimitsHold ==
  \A q \in alive : by[q] # NoManager /\ Alone(by[q]) =>
    /\ dir[Path(by[q])]
    /\ member[q] = Path(by[q])
    /\ file[Path(by[q])] = config[by[q]].limits

(***************************************************************************)
(* A cgroup does not outlive its container: when all programs that used it *)
(* have given it up it is removed, also if apply stopped half way, if a    *)
(* process was still there at the first cleanup, or if two cleanups race.  *)
(***************************************************************************)
CgroupRemoved ==
  \A p \in Paths :
    (\A m \in Managers : Path(m) = p => giveUp[m]) ~> ~dir[p]
=============================================================================
