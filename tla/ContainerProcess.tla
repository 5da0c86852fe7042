-------------------------- MODULE ContainerProcess --------------------------
(***************************************************************************)
(* A container's two processes (src/container/process.rs and               *)
(* src/namespace/mount.rs): the parent that prepares a root directory,     *)
(* clones, waits and cleans up (Container::run; spawn_container_process    *)
(* only clones), and the child that sets up its namespaces and executes    *)
(* the command (container_init).  Containers may have the same root        *)
(* directory: the user gave it twice, or the same identifier.              *)
(***************************************************************************)
EXTENDS Naturals

CONSTANTS
  Containers,
  Roots,       \* the root directories
  Settings,    \* how the containers may be configured: see config
  Caps,        \* the capabilities, in the order in which they are dropped
  Allowed,     \* those of DEFAULT_CAPABILITIES
  Env          \* which faults may happen

(* "run" without `rootfs' makes a temporary root directory, "run_on" is    *)
(* given the user's, and spawn_container_process always is.                *)
Kinds == {"run", "run_on", "spawn"}

ASSUME ProcessAssumption ==
  /\ Settings \subseteq [Containers -> [kind : Kinds, root : Roots]]
  /\ \A s \in Settings : \A c, d \in Containers :
       s[c].root = s[d].root => (s[c].kind = "run" <=> s[d].kind = "run")
  /\ Caps \subseteq Nat
  /\ Allowed \subseteq Caps
  /\ Env \subseteq {"fail", "kill"}

VARIABLES
  config,     \* config[c]: how c was started and its root directory
  parent,     \* parent[c]: the step of the runtime's process
  result,     \* result[c]: what run returned
  child,      \* child[c]: the step of the container's process
  ns,         \* ns[c]: the child's namespaces and what it has set up there
  caps,       \* caps[c]: the capabilities of the child
  filtered,   \* filtered[c]: the child's seccomp filter is installed
  dir,        \* dir[r]: a root directory: "absent", "partial" or "ready"
  putOld,     \* putOld[r]: it has the directory .pivot_root
  hostMounts  \* mounts of containers that reached the host's mount table

vars == <<config, parent, result, child, ns, caps, filtered, dir, putOld, hostMounts>>

RootOf(c) == config[c].root
Owned == {c \in Containers : config[c].kind = "run"}
Detached == {c \in Containers : config[c].kind = "spawn"}

(* No other container was given the root directory of c.                   *)
Alone(c) == \A d \in Containers \ {c} : RootOf(d) # RootOf(c)

(* No run but that of c, after its wait, removes the root directory of c.  *)
Undisturbed(c) == Alone(c) \/ c \notin Owned

-----------------------------------------------------------------------------
(* CLONE_NEWPID, CLONE_NEWNS, CLONE_NEWUTS and CLONE_NEWIPC.               *)
CloneFlags == {"pid", "mount", "uts", "ipc"}

(* Mutant: the child keeps the IPC namespace of the host.                  *)
FreshWithoutIpc == [flags |-> CloneFlags \ {"ipc"}, private |-> FALSE, root |-> "host",
                    old |-> "none", mounts |-> {}]

(* The view of a child that was just cloned: everything is the host's.     *)
Fresh == [flags |-> CloneFlags, private |-> FALSE, root |-> "host",
          old |-> "none", mounts |-> {}]
Gone == [Fresh EXCEPT !.flags = {}]

(* A root directory and the directories in it that a child mounts on.      *)
Entries == {"root", "proc", "sys", "dev", "put_old"}

(* The kernel detaches what is mounted, in whatever namespace, on a        *)
(* directory that is removed.  A child that has made the root directory    *)
(* its root stays in a directory that is no more.                          *)
Detach(n, gone) ==
  [n EXCEPT !.mounts = @ \ (gone \cup IF "dev" \in gone THEN {"dev_extra"} ELSE {}),
            !.old = IF "put_old" \in gone /\ @ = "attached" THEN "detached" ELSE @,
            !.root = IF "root" \in gone /\ @ = "new" THEN "removed" ELSE @]

(* The steps of container_init in their order: the ones whose failure ends *)
(* it, and the ones whose failure is only logged.                          *)
Mandatory == {"hostname", "private", "bind", "put_old", "pivot",
              "proc", "sys", "dev", "umount", "exec"}
Lenient == {"dev_extra", "rm_put_old", "caps", "seccomp"}

Then(step) ==
  CASE step = "hostname"   -> "private"
    [] step = "private"    -> "bind"
    [] step = "bind"       -> "put_old"
    [] step = "put_old"    -> "pivot"
    [] step = "pivot"      -> "proc"
    [] step = "proc"       -> "sys"
    [] step = "sys"        -> "dev"
    [] step = "dev"        -> "dev_extra"
    [] step = "dev_extra"  -> "umount"
    [] step = "umount"     -> "rm_put_old"
    [] step = "rm_put_old" -> "caps"
    [] step = "caps"       -> "seccomp"
    [] step = "seccomp"    -> "exec"
    [] step = "exec"       -> "command"

Ended == {"exited", "failed", "refused", "killed"}
Alive(c) == child[c] \notin Ended \cup {"none"}
ChildSteps == {"none", "command"} \cup Mandatory \cup Lenient \cup Ended
ParentSteps == {"new", "clone", "wait", "cleanup", "returned"}

TypeOK ==
  /\ config \in Settings
  /\ parent \in [Containers -> ParentSteps]
  /\ result \in [Containers -> {"none", "ok", "error"}]
  /\ child \in [Containers -> ChildSteps]
  /\ ns \in [Containers -> [flags : {{}, CloneFlags}, private : BOOLEAN,
                            root : {"host", "new", "removed"},
                            old : {"none", "attached", "detached"},
                            mounts : SUBSET {"root", "proc", "sys", "dev", "dev_extra"}]]
  /\ caps \in [Containers -> SUBSET Caps]
  /\ filtered \in [Containers -> BOOLEAN]
  /\ dir \in [Roots -> {"absent", "partial", "ready"}]
  /\ putOld \in [Roots -> BOOLEAN]
  /\ hostMounts \subseteq Roots

(* A root directory that some container does not own is the user's and is  *)
(* there from the start.                                                   *)
UserRoots == {RootOf(c) : c \in Containers \ Owned}

Init ==
  /\ config \in Settings
  /\ parent = [c \in Containers |-> "new"]
  /\ result = [c \in Containers |-> "none"]
  /\ child = [c \in Containers |-> "none"]
  /\ ns = [c \in Containers |-> Gone]
  /\ caps = [c \in Containers |-> {}]
  /\ filtered = [c \in Containers |-> FALSE]
  /\ dir = [r \in Roots |-> IF r \in UserRoots THEN "ready" ELSE "absent"]
  /\ putOld = [r \in Roots |-> FALSE]
  /\ hostMounts = {}

(* The namespaces when directories of r are gone: those of the containers  *)
(* that live on it.                                                        *)
NsWithout(r, gone) ==
  [d \in Containers |-> IF RootOf(d) = r /\ Alive(d) THEN Detach(ns[d], gone) ELSE ns[d]]

-----------------------------------------------------------------------------
(* The parent.                                                             *)

Return(c, how) ==
  /\ parent' = [parent EXCEPT ![c] = "returned"]
  /\ result' = [result EXCEPT ![c] = how]

(* prepare_rootfs: create_minimal_rootfs makes the directories and copies  *)
(* what is not there yet; an error leaves what was made.                   *)
PrepareRootfs(c) ==
  LET r == RootOf(c) IN
  /\ parent[c] = "new"
  /\ \/ /\ c \in Owned
        /\ dir' = [dir EXCEPT ![r] = "ready"]
        /\ parent' = [parent EXCEPT ![c] = "clone"]
        /\ UNCHANGED result
     \/ /\ c \in Owned /\ "fail" \in Env
        /\ dir' = [dir EXCEPT ![r] = IF @ = "ready" THEN @ ELSE "partial"]
        /\ Return(c, "error")
     \/ /\ c \notin Owned
        /\ parent' = [parent EXCEPT ![c] = "clone"]
        /\ UNCHANGED <<dir, result>>
  /\ UNCHANGED <<child, ns, caps, filtered, putOld, hostMounts>>

(* Mutant: run does not wait for the child.                                *)
CloneAndCleanUp(c) ==
  /\ parent[c] = "clone"
  /\ child' = [child EXCEPT ![c] = "hostname"]
  /\ ns' = [ns EXCEPT ![c] = Fresh]
  /\ caps' = [caps EXCEPT ![c] = Caps]
  /\ parent' = [parent EXCEPT ![c] = IF c \in Detached THEN "returned" ELSE "cleanup"]
  /\ UNCHANGED <<result, filtered, dir, putOld, hostMounts>>

(* clone(2): the child starts with every capability of the parent.  An     *)
(* error is returned at once.  A detached parent is done.                  *)
Clone(c) ==
  /\ parent[c] = "clone"
  /\ \/ /\ child' = [child EXCEPT ![c] = "hostname"]
        /\ ns' = [ns EXCEPT ![c] = Fresh]
        /\ caps' = [caps EXCEPT ![c] = Caps]
        /\ IF c \in Detached THEN Return(c, "ok")
           ELSE parent' = [parent EXCEPT ![c] = "wait"] /\ UNCHANGED result
     \/ "fail" \in Env /\ Return(c, "error") /\ UNCHANGED <<child, ns, caps>>
  /\ UNCHANGED <<filtered, dir, putOld, hostMounts>>

(* Mutant: only a normal exit ends the loop.                               *)
WaitForExitOnly(c) ==
  /\ parent[c] = "wait"
  /\ child[c] \in {"exited", "failed", "refused"}
  /\ IF c \in Owned THEN parent' = [parent EXCEPT ![c] = "cleanup"] /\ UNCHANGED result
     ELSE Return(c, "ok")
  /\ UNCHANGED <<child, ns, caps, filtered, dir, putOld, hostMounts>>

(* wait_for_child: the loop ends when the child exited or was killed, or   *)
(* with an error of waitpid, which run returns.                            *)
WaitForChild(c) ==
  /\ parent[c] = "wait"
  /\ \/ /\ child[c] \in Ended
        /\ IF c \in Owned THEN parent' = [parent EXCEPT ![c] = "cleanup"] /\ UNCHANGED result
           ELSE Return(c, "ok")
     \/ "fail" \in Env /\ Return(c, "error")
  /\ UNCHANGED <<child, ns, caps, filtered, dir, putOld, hostMounts>>

(* Mutant: the directory is left behind.                                   *)
NoCleanup(c) ==
  /\ parent[c] = "cleanup"
  /\ Return(c, "ok")
  /\ UNCHANGED <<child, ns, caps, filtered, dir, putOld, hostMounts>>

(* cleanup_rootfs: umount2, whose failure is logged, and remove_dir_all,   *)
(* which may fail half way, also because another container with the same   *)
(* identifier works in the directory; what was removed is gone for it too. *)
CleanupRootfs(c) ==
  LET r == RootOf(c) IN
  /\ parent[c] = "cleanup"
  /\ \/ /\ dir' = [dir EXCEPT ![r] = "absent"]
        /\ putOld' = [putOld EXCEPT ![r] = FALSE]
        /\ hostMounts' = hostMounts \ {r}
        /\ ns' = NsWithout(r, Entries)
        /\ Return(c, "ok")
     \/ /\ "fail" \in Env \/ ~Alone(c)
        /\ dir[r] # "absent"
        /\ \E gone \in SUBSET (Entries \ {"root"}) :
             /\ putOld' = [putOld EXCEPT ![r] = @ /\ "put_old" \notin gone]
             /\ ns' = NsWithout(r, gone)
        /\ dir' = [dir EXCEPT ![r] = "partial"]
        /\ hostMounts' \in {hostMounts, hostMounts \ {r}}
        /\ Return(c, "error")
  /\ UNCHANGED <<child, caps, filtered>>

-----------------------------------------------------------------------------
(* The child: container_init and setup_mount_namespace.                    *)

Advance(c) == child' = [child EXCEPT ![c] = Then(child[c])]

(* container_init returns an error and the process exits with 1: a system  *)
(* call of it is refused because of what it, or another container, did to  *)
(* the root directory before.  (StepFails is a failure for other reasons.) *)
Refuse(c) == child' = [child EXCEPT ![c] = "refused"]

SetHostname(c) ==
  /\ child[c] = "hostname"
  /\ Advance(c)
  /\ UNCHANGED <<parent, result, ns, caps, filtered, dir, putOld, hostMounts>>

(* Mutant: the mounts are left shared with the host.                       *)
SkipPrivate(c) ==
  /\ child[c] = "private"
  /\ Advance(c)
  /\ UNCHANGED <<parent, result, ns, caps, filtered, dir, putOld, hostMounts>>

MakePrivate(c) ==
  /\ child[c] = "private"
  /\ ns' = [ns EXCEPT ![c].private = TRUE]
  /\ Advance(c)
  /\ UNCHANGED <<parent, result, caps, filtered, dir, putOld, hostMounts>>

(* The root directory is bound to itself.  In a namespace that still       *)
(* shares its mounts the host gets the mount too.                          *)
BindRoot(c) ==
  LET r == RootOf(c) IN
  /\ child[c] = "bind"
  /\ IF dir[r] = "absent"
     THEN Refuse(c) /\ UNCHANGED <<ns, hostMounts>>
     ELSE /\ ns' = [ns EXCEPT ![c].mounts = @ \cup {"root"}]
          /\ hostMounts' = IF ns[c].private THEN hostMounts ELSE hostMounts \cup {r}
          /\ Advance(c)
  /\ UNCHANGED <<parent, result, caps, filtered, dir, putOld>>

(* Mutant: the directory for the old root is not made.                     *)
SkipPutOld(c) ==
  /\ child[c] = "put_old"
  /\ Advance(c)
  /\ UNCHANGED <<parent, result, ns, caps, filtered, dir, putOld, hostMounts>>

(* create_dir_all of .pivot_root, which another container on the same root *)
(* may have made.  A root directory that was removed is made again.        *)
CreatePutOld(c) ==
  LET r == RootOf(c) IN
  /\ child[c] = "put_old"
  /\ dir' = [dir EXCEPT ![r] = IF @ = "absent" THEN "partial" ELSE @]
  /\ putOld' = [putOld EXCEPT ![r] = TRUE]
  /\ Advance(c)
  /\ UNCHANGED <<parent, result, ns, caps, filtered, hostMounts>>

(* pivot_root, which wants a mount point, and chdir: the host's root is    *)
(* now below .pivot_root.                                                  *)
PivotRoot(c) ==
  /\ child[c] = "pivot"
  /\ IF putOld[RootOf(c)] /\ "root" \in ns[c].mounts
     THEN ns' = [ns EXCEPT ![c].root = "new", ![c].old = "attached"] /\ Advance(c)
     ELSE Refuse(c) /\ UNCHANGED ns
  /\ UNCHANGED <<parent, result, caps, filtered, dir, putOld, hostMounts>>

(* mount_proc, mount_sysfs and setup_dev with its device nodes, each on a  *)
(* directory that is made if need be, but not below a root that is gone.   *)
MountEssential(c) ==
  /\ child[c] \in {"proc", "sys", "dev"}
  /\ IF ns[c].root = "removed" THEN Refuse(c) /\ UNCHANGED ns
     ELSE ns' = [ns EXCEPT ![c].mounts = @ \cup {child[c]}] /\ Advance(c)
  /\ UNCHANGED <<parent, result, caps, filtered, dir, putOld, hostMounts>>

(* /dev/pts, /dev/shm, links and the console: what fails is only logged.   *)
MountDevExtra(c) ==
  /\ child[c] = "dev_extra"
  /\ \/ ns[c].root # "removed" /\ ns' = [ns EXCEPT ![c].mounts = @ \cup {"dev_extra"}]
     \/ ("fail" \in Env \/ ns[c].root = "removed") /\ UNCHANGED ns
  /\ Advance(c)
  /\ UNCHANGED <<parent, result, caps, filtered, dir, putOld, hostMounts>>

(* Mutant: a failed unmount of the old root is only logged.                *)
UnmountOldLenient(c) ==
  /\ child[c] = "umount"
  /\ ns' \in {[ns EXCEPT ![c].old = "detached"], ns}
  /\ Advance(c)
  /\ UNCHANGED <<parent, result, caps, filtered, dir, putOld, hostMounts>>

UnmountOld(c) ==
  /\ child[c] = "umount"
  /\ IF ns[c].old = "attached"
     THEN ns' = [ns EXCEPT ![c].old = "detached"] /\ Advance(c)
     ELSE Refuse(c) /\ UNCHANGED ns
  /\ UNCHANGED <<parent, result, caps, filtered, dir, putOld, hostMounts>>

(* remove_dir of .pivot_root, where the old root of another container on   *)
(* the same directory may still be mounted; a failure is only logged.      *)
RemovePutOld(c) ==
  LET r == RootOf(c) IN
  /\ child[c] = "rm_put_old"
  /\ \/ /\ ns[c].root # "removed"
        /\ putOld' = [putOld EXCEPT ![r] = FALSE]
        /\ ns' = NsWithout(r, {"put_old"})
     \/ ("fail" \in Env \/ ns[c].root = "removed") /\ UNCHANGED <<putOld, ns>>
  /\ Advance(c)
  /\ UNCHANGED <<parent, result, caps, filtered, dir, hostMounts>>

(* apply_capabilities drops one capability after the other that is not     *)
(* allowed; an error leaves the rest, and container_init only logs it.     *)
DropCapabilities(c) ==
  /\ child[c] = "caps"
  /\ \/ caps' = [caps EXCEPT ![c] = Allowed]
     \/ /\ "fail" \in Env
        /\ \E k \in Caps \ Allowed :
             caps' = [caps EXCEPT ![c] = Allowed \cup {i \in Caps : i >= k}]
  /\ Advance(c)
  /\ UNCHANGED <<parent, result, ns, filtered, dir, putOld, hostMounts>>

ApplySeccompFilter(c) ==
  /\ child[c] = "seccomp"
  /\ \/ filtered' = [filtered EXCEPT ![c] = TRUE]
     \/ "fail" \in Env /\ UNCHANGED filtered
  /\ Advance(c)
  /\ UNCHANGED <<parent, result, ns, caps, dir, putOld, hostMounts>>

(* exec_command: the command's file must still be in the root directory,   *)
(* and may be missing in one that another run has left half removed.       *)
ExecCommand(c) ==
  /\ child[c] = "exec"
  /\ \/ ns[c].root # "removed" /\ Advance(c)
     \/ (ns[c].root = "removed" \/ dir[RootOf(c)] = "partial") /\ Refuse(c)
  /\ UNCHANGED <<parent, result, ns, caps, filtered, dir, putOld, hostMounts>>

(* A system call of a mandatory step fails.                                *)
StepFails(c) ==
  /\ "fail" \in Env
  /\ child[c] \in Mandatory
  /\ child' = [child EXCEPT ![c] = "failed"]
  /\ UNCHANGED <<parent, result, ns, caps, filtered, dir, putOld, hostMounts>>

CommandExits(c) ==
  /\ child[c] = "command"
  /\ child' = [child EXCEPT ![c] = "exited"]
  /\ UNCHANGED <<parent, result, ns, caps, filtered, dir, putOld, hostMounts>>

Killed(c) ==
  /\ "kill" \in Env
  /\ child[c] \notin Ended \cup {"none"}
  /\ child' = [child EXCEPT ![c] = "killed"]
  /\ UNCHANGED <<parent, result, ns, caps, filtered, dir, putOld, hostMounts>>

ParentStep(c) ==
  /\ PrepareRootfs(c) \/ Clone(c) \/ WaitForChild(c) \/ CleanupRootfs(c)
  /\ UNCHANGED config

ChildStep(c) ==
  /\ \/ SetHostname(c) \/ MakePrivate(c) \/ BindRoot(c) \/ CreatePutOld(c)
     \/ PivotRoot(c) \/ MountEssential(c) \/ MountDevExtra(c) \/ UnmountOld(c)
     \/ RemovePutOld(c) \/ DropCapabilities(c) \/ ApplySeccompFilter(c)
     \/ ExecCommand(c) \/ StepFails(c)
  /\ UNCHANGED config

OutsideStep(c) == (CommandExits(c) \/ Killed(c)) /\ UNCHANGED config

Next == \E c \in Containers : ParentStep(c) \/ ChildStep(c) \/ OutsideStep(c)

(* Both processes keep running; nothing makes the command end.             *)
Fairness == \A c \in Containers : WF_vars(ParentStep(c)) /\ WF_vars(ChildStep(c))

Spec == Init /\ [][Next]_vars /\ Fairness

-----------------------------------------------------------------------------
(***************************************************************************)
(* Whatever steps fail, and in whatever company, a command never sees the  *)
(* host's root, which is detached, and no mount of it propagates to the    *)
(* host.  It has its root directory with /proc, /sys and /dev of its own,  *)
(* as long as no other run with its identifier removes them under it.      *)
(***************************************************************************)
CommandIsConfined ==
  \A c \in Containers : child[c] = "command" =>
    /\ ns[c].root # "host" /\ ns[c].old = "detached" /\ ns[c].private
    /\ Undisturbed(c) => ns[c].root = "new" /\ {"root", "proc", "sys", "dev"} \subseteq ns[c].mounts

(***************************************************************************)
(* No mount of a container reaches the host, so that the removal of its    *)
(* root directory can never walk into another file system.                 *)
(***************************************************************************)
HostMountsUntouched == hostMounts = {}

(* A root directory is not removed while a container lives on it: the      *)
(* user's never, a temporary one only by its own run after the wait.       *)
RootOutlivesContainer ==
  \A c \in Containers :
    Alive(c) /\ Undisturbed(c) => dir[RootOf(c)] # "absent"

(* A run that succeeded has torn down the root directory it made, and no   *)
(* run ever touches the user's, whoever shares it.                         *)
RootfsOwnership ==
  \A c \in Containers :
    /\ c \in Owned /\ Alone(c) /\ parent[c] = "returned" /\ result[c] = "ok"
         => dir[RootOf(c)] = "absent"
    /\ c \notin Owned => dir[RootOf(c)] = "ready"

(* No step of the initialisation spoils a later one: it gets to the        *)
(* command unless a system call fails for a reason of its own, in whatever *)
(* order containers on different roots start, fail and end.                *)
InitNeverRefused ==
  \A c \in Containers : Alone(c) => child[c] # "refused"

(* A run whose child ended, in whatever way, returns.                      *)
RunReturns ==
  \A c \in Containers : child[c] \in Ended ~> parent[c] = "returned"
=============================================================================
