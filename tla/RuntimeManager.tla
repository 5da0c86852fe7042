--------------------------- MODULE RuntimeManager ---------------------------
(***************************************************************************)
(* The OCI lifecycle of src/runtime/mod.rs: create, start, stop and delete *)
(* as sequences of steps over three shared resources: the status file of a *)
(* container, the kernel's process table, and the other processes that run *)
(* the same commands at the same time (there is no lock).                  *)
(*                                                                         *)
(* A call that is refused by its first check (the container exists, it is  *)
(* not found, its status does not parse, config.json does not load, the    *)
(* state is wrong for start or delete) returns an error with nothing       *)
(* changed: it is the absence of a step.  `state' and `list' only read.    *)
(***************************************************************************)
EXTENDS Naturals

CONSTANTS
  Ids,         \* container identifiers
  Callers,     \* operating-system processes that call the RuntimeManager
  Pids,        \* process identifiers of the kernel
  NoId,        \* not a container: an idle caller works on it, a foreign
               \* process belongs to it
  HostInit,    \* the host's process 1, which adopts and reaps orphans
  Serialized,  \* do callers serialise their calls on one container?
  Env          \* which of the environment's steps may happen

ASSUME ConstantsAssumption ==
  /\ NoId \notin Ids
  /\ HostInit \notin Callers
  /\ Pids \subseteq Nat \ {0}
  /\ Serialized \in BOOLEAN
  /\ Env \subseteq {"exit", "crash", "io", "foreign"}

VARIABLES
  disk,    \* disk[id]: the content of containers/{id}/state.json
  proc,    \* proc[p]: the kernel's entry for process identifier p
  pc,      \* pc[c]: the step of its call that caller c is about to take
  cid,     \* cid[c]: the container of c's call
  mem,     \* mem[c]: the ContainerStatus that c holds in memory
  fd,      \* fd[c]: the file that c's save has open
  spawns   \* spawns[id]: processes cloned since id was last created

vars == <<disk, proc, pc, cid, mem, fd, spawns>>

-----------------------------------------------------------------------------
(* The status of a container and the file that persists it.                *)

ContainerStates == {"creating", "created", "running", "stopped"}

CanTransitionTo(from, to) ==
  <<from, to>> \in {<<"creating", "created">>,
                    <<"created", "running">>,
                    <<"running", "stopped">>}

NoPid == 0
PidOption == Pids \cup {NoPid}

(* "empty" is a file that a writer truncated and has not written yet;      *)
(* "garbled" is one in which two writers overlapped.  Neither parses.      *)
Unreadable == {"empty", "garbled"}
Files == [state : {"absent"} \cup Unreadable \cup ContainerStates,
          pid : PidOption]

NoFile == [state |-> "absent", pid |-> NoPid]
EmptyFile == [state |-> "empty", pid |-> NoPid]
GarbledFile == [state |-> "garbled", pid |-> NoPid]

Exists(id) == disk[id].state # "absent"

(* load_status succeeds: the file is there and parses.                     *)
Loads(id) == disk[id].state \in ContainerStates

(***************************************************************************)
(* A process: "doomed" has a fatal signal pending and will exit, "zombie"  *)
(* has exited and waits for its parent to reap it.                         *)
(***************************************************************************)
FreeSlot == [run |-> "free", owner |-> NoId, parent |-> HostInit]

Processes == [run : {"free", "alive", "doomed", "zombie"},
              owner : Ids \cup {NoId},
              parent : Callers \cup {HostInit}]

SaveSteps == {"save_creating", "save_created", "save_running",
              "save_pid", "save_stopped", "save_cleared"}
Steps == SaveSteps \cup {"idle", "prestart", "spawn", "poststart", "signal",
                         "wait", "mark", "poststop", "remove"}

TypeOK ==
  /\ disk \in [Ids -> Files]
  /\ proc \in [Pids -> Processes]
  /\ pc \in [Callers -> Steps]
  /\ cid \in [Callers -> Ids \cup {NoId}]
  /\ mem \in [Callers -> Files]
  /\ fd \in [Callers -> {"closed", "open", "stale"}]
  /\ spawns \in [Ids -> Nat]

Init ==
  /\ disk = [id \in Ids |-> NoFile]
  /\ proc = [p \in Pids |-> FreeSlot]
  /\ pc = [c \in Callers |-> "idle"]
  /\ cid = [c \in Callers |-> NoId]
  /\ mem = [c \in Callers |-> NoFile]
  /\ fd = [c \in Callers |-> "closed"]
  /\ spawns = [id \in Ids |-> 0]

-----------------------------------------------------------------------------
(* Entering and leaving a call.                                            *)

Admit(c, id) ==
  /\ pc[c] = "idle"
  /\ Serialized => \A d \in Callers : cid[d] # id

Enter(c, id, status, step) ==
  /\ pc' = [pc EXCEPT ![c] = step]
  /\ cid' = [cid EXCEPT ![c] = id]
  /\ mem' = [mem EXCEPT ![c] = status]

Return(c) ==
  /\ pc' = [pc EXCEPT ![c] = "idle"]
  /\ cid' = [cid EXCEPT ![c] = NoId]
  /\ mem' = [mem EXCEPT ![c] = NoFile]

(* The call goes on at `step', holding `status'.                           *)
Continue(c, status, step) ==
  /\ pc' = [pc EXCEPT ![c] = step]
  /\ mem' = [mem EXCEPT ![c] = status]
  /\ UNCHANGED cid

-----------------------------------------------------------------------------
(***************************************************************************)
(* save_status: std::fs::write opens the file with truncation and then     *)
(* writes it.  The two are separate steps, each may fail, and the write    *)
(* goes to the file that was opened: to nothing when that one has been     *)
(* unlinked since, and over what another writer put there meanwhile (the   *)
(* tail of a longer text then stays behind).  The directory, which only    *)
(* carries the file, is left out.                                          *)
(***************************************************************************)
OpenFile(c) ==
  /\ pc[c] \in SaveSteps
  /\ fd[c] = "closed"
  /\ disk' = [disk EXCEPT ![cid[c]] = EmptyFile]
  /\ fd' = [fd EXCEPT ![c] = "open"]
  /\ UNCHANGED <<proc, pc, cid, mem, spawns>>

AfterSave(step) ==
  CASE step = "save_creating" -> "prestart"
    [] step = "save_running"  -> "spawn"
    [] step = "save_pid"      -> "poststart"
    [] step = "save_stopped"  -> "save_cleared"
    [] step = "save_cleared"  -> "poststop"

(* Mutant: `stop' does not clear the process identifier.                   *)
PidKept(c) == mem[c]

(* `stop' clears the process identifier between its two saves.             *)
HeldAfterSave(c) ==
  IF pc[c] = "save_stopped" THEN [mem[c] EXCEPT !.pid = NoPid] ELSE mem[c]

(* What the file holds once c's text is written to it.                     *)
Written(c) ==
  IF disk[cid[c]] \in {EmptyFile, mem[c]} THEN {mem[c]}
                                          ELSE {mem[c], GarbledFile}

WriteFile(c) ==
  /\ pc[c] \in SaveSteps
  /\ \/ fd[c] = "open" /\ \E f \in Written(c) : disk' = [disk EXCEPT ![cid[c]] = f]
     \/ fd[c] = "stale" /\ UNCHANGED disk
  /\ fd' = [fd EXCEPT ![c] = "closed"]
  /\ IF pc[c] = "save_created" THEN Return(c)
     ELSE Continue(c, HeldAfterSave(c), AfterSave(pc[c]))
  /\ UNCHANGED <<proc, spawns>>

(* Opening or writing fails; the call returns the error.                   *)
SaveFails(c) ==
  /\ "io" \in Env
  /\ pc[c] \in SaveSteps
  /\ fd' = [fd EXCEPT ![c] = "closed"]
  /\ Return(c)
  /\ UNCHANGED <<disk, proc, spawns>>

-----------------------------------------------------------------------------
(* create                                                                  *)

Create(c, id) ==
  /\ Admit(c, id)
  /\ ~Exists(id)
  /\ Enter(c, id, [state |-> "creating", pid |-> NoPid], "save_creating")
  /\ spawns' = [spawns EXCEPT ![id] = 0]
  /\ UNCHANGED <<disk, proc, fd>>

(* A failed prestart hook ends the call: the file stays in "creating".     *)
PrestartHooks(c) ==
  /\ pc[c] = "prestart"
  /\ \/ Continue(c, [mem[c] EXCEPT !.state = "created"], "save_created")
     \/ Return(c)
  /\ UNCHANGED <<disk, proc, fd, spawns>>

-----------------------------------------------------------------------------
(* start                                                                   *)

(* Mutant: `start' does not validate the transition to "running".          *)
StartUnchecked(c, id) ==
  /\ Admit(c, id)
  /\ Loads(id)
  /\ Enter(c, id, [disk[id] EXCEPT !.state = "running"], "save_running")
  /\ UNCHANGED <<disk, proc, fd, spawns>>

Start(c, id) ==
  /\ Admit(c, id)
  /\ Loads(id)
  /\ CanTransitionTo(disk[id].state, "running")
  /\ Enter(c, id, [disk[id] EXCEPT !.state = "running"], "save_running")
  /\ UNCHANGED <<disk, proc, fd, spawns>>

(* Mutant: the recorded process identifier is off by one.                  *)
SpawnMisrecorded(c) ==
  /\ pc[c] = "spawn"
  /\ \E p \in Pids :
       /\ proc[p].run = "free"
       /\ proc' = [proc EXCEPT ![p] =
                     [run |-> "alive", owner |-> cid[c], parent |-> c]]
       /\ Continue(c, [mem[c] EXCEPT !.pid = p + 1], "save_pid")
  /\ spawns' = [spawns EXCEPT ![cid[c]] = @ + 1]
  /\ UNCHANGED <<disk, fd>>

(* clone(2) gives the child any free identifier; its parent is the caller. *)
Spawn(c) ==
  /\ pc[c] = "spawn"
  /\ \E p \in Pids :
       /\ proc[p].run = "free"
       /\ proc' = [proc EXCEPT ![p] =
                     [run |-> "alive", owner |-> cid[c], parent |-> c]]
       /\ Continue(c, [mem[c] EXCEPT !.pid = p], "save_pid")
  /\ spawns' = [spawns EXCEPT ![cid[c]] = @ + 1]
  /\ UNCHANGED <<disk, fd>>

(* The bundle has no usable process or root section, or clone fails.       *)
SpawnFails(c) ==
  /\ pc[c] = "spawn"
  /\ Return(c)
  /\ UNCHANGED <<disk, proc, fd, spawns>>

(* Poststart hooks run; their failure is only logged.                      *)
PoststartHooks(c) ==
  /\ pc[c] = "poststart"
  /\ Return(c)
  /\ UNCHANGED <<disk, proc, fd, spawns>>

-----------------------------------------------------------------------------
(* stop                                                                    *)

Stop(c, id) ==
  /\ Admit(c, id)
  /\ Loads(id)
  /\ Enter(c, id, disk[id], IF disk[id].pid = NoPid THEN "mark" ELSE "signal")
  /\ UNCHANGED <<disk, proc, fd, spawns>>

(***************************************************************************)
(* kill(2): an unused identifier is an error that ends the call; a process *)
(* may have the signal kill it, handle it or ignore it.  (A signal number  *)
(* that does not exist is refused before, with nothing changed.)           *)
(***************************************************************************)
Signal(c) ==
  LET p == mem[c].pid IN
  /\ pc[c] = "signal"
  /\ \/ proc[p].run = "free" /\ Return(c) /\ UNCHANGED proc
     \/ /\ proc[p].run # "free"
        /\ \/ UNCHANGED proc
           \/ proc[p].run = "alive" /\ proc' = [proc EXCEPT ![p].run = "doomed"]
        /\ Continue(c, mem[c], "wait")
  /\ UNCHANGED <<disk, fd, spawns>>

(* Mutant: when the time is up the process is not killed.                  *)
WaitWithoutKill(c) ==
  LET p == mem[c].pid IN
  /\ pc[c] = "wait"
  /\ \/ proc[p].parent = c /\ proc[p].run = "zombie"
        /\ proc' = [proc EXCEPT ![p] = FreeSlot]
     \/ ~(proc[p].parent = c /\ proc[p].run = "zombie") /\ UNCHANGED proc
  /\ Continue(c, mem[c], "mark")
  /\ UNCHANGED <<disk, fd, spawns>>

(* Mutant: the loop has no deadline.                                       *)
WaitForever(c) ==
  LET p == mem[c].pid IN
  /\ pc[c] = "wait"
  /\ \/ proc[p].parent # c /\ UNCHANGED proc
     \/ /\ proc[p].parent = c
        /\ proc[p].run = "zombie"
        /\ proc' = [proc EXCEPT ![p] = FreeSlot]
  /\ Continue(c, mem[c], "mark")
  /\ UNCHANGED <<disk, fd, spawns>>

(***************************************************************************)
(* The polling loop of linux_stop_process ends when waitpid reports that   *)
(* p is no child of the caller (ECHILD, taken for success), when it reaps  *)
(* p, or when the time is up and p is killed.                              *)
(***************************************************************************)
Wait(c) ==
  LET p == mem[c].pid IN
  /\ pc[c] = "wait"
  /\ \/ proc[p].parent # c /\ UNCHANGED proc
     \/ /\ proc[p].parent = c
        /\ proc[p].run = "zombie"
        /\ proc' = [proc EXCEPT ![p] = FreeSlot]
     \/ /\ proc[p].parent = c
        /\ proc[p].run \in {"alive", "doomed"}
        /\ proc' = [proc EXCEPT ![p].run = "doomed"]
  /\ Continue(c, mem[c], "mark")
  /\ UNCHANGED <<disk, fd, spawns>>

(* Mutant: `stop' does not validate the transition to "stopped".           *)
MarkUnchecked(c) ==
  /\ pc[c] = "mark"
  /\ Continue(c, [mem[c] EXCEPT !.state = "stopped"], "save_stopped")
  /\ UNCHANGED <<disk, proc, fd, spawns>>

(* Mutant: a container that holds a process identifier is left as it is.   *)
MarkOnlyWithoutPid(c) ==
  /\ pc[c] = "mark"
  /\ IF mem[c].pid = NoPid /\ CanTransitionTo(mem[c].state, "stopped")
     THEN Continue(c, [mem[c] EXCEPT !.state = "stopped"], "save_stopped")
     ELSE Return(c)
  /\ UNCHANGED <<disk, proc, fd, spawns>>

(* The transition is validated only here, after the signal.                *)
Mark(c) ==
  /\ pc[c] = "mark"
  /\ IF CanTransitionTo(mem[c].state, "stopped")
     THEN Continue(c, [mem[c] EXCEPT !.state = "stopped"], "save_stopped")
     ELSE Return(c)
  /\ UNCHANGED <<disk, proc, fd, spawns>>

(* config.json is loaded again and the poststop hooks run; the status is   *)
(* final whatever they do.                                                 *)
PoststopHooks(c) ==
  /\ pc[c] = "poststop"
  /\ Return(c)
  /\ UNCHANGED <<disk, proc, fd, spawns>>

-----------------------------------------------------------------------------
(* delete                                                                  *)

Delete(c, id) ==
  /\ Admit(c, id)
  /\ Loads(id)
  /\ disk[id].state = "stopped"
  /\ Enter(c, id, disk[id], "remove")
  /\ UNCHANGED <<disk, proc, fd, spawns>>

(* remove_dir_all takes away whatever file is there by now; a writer that  *)
(* had it open goes on writing to an unlinked file.                        *)
Remove(c) ==
  /\ pc[c] = "remove"
  /\ disk' = [disk EXCEPT ![cid[c]] = NoFile]
  /\ fd' = [d \in Callers |->
              IF cid[d] = cid[c] /\ fd[d] = "open" THEN "stale" ELSE fd[d]]
  /\ Return(c)
  /\ UNCHANGED <<proc, spawns>>

RemoveFails(c) ==
  /\ "io" \in Env
  /\ pc[c] = "remove"
  /\ Return(c)
  /\ UNCHANGED <<disk, proc, fd, spawns>>

-----------------------------------------------------------------------------
(* The environment: callers end, processes come and go.                    *)

(* The children of a process that ends are adopted by the host's init,     *)
(* which reaps the ones that have exited.                                  *)
Reparent(c) ==
  proc' = [p \in Pids |->
             IF proc[p].parent # c THEN proc[p]
             ELSE IF proc[p].run = "zombie" THEN FreeSlot
             ELSE [proc[p] EXCEPT !.parent = HostInit]]

(* The `crate' command ends with its call; a program that embeds the       *)
(* library ends when it likes.  Only a caller with children is missed.     *)
Exit(c) ==
  /\ "exit" \in Env
  /\ pc[c] = "idle"
  /\ \E p \in Pids : proc[p].parent = c
  /\ Reparent(c)
  /\ UNCHANGED <<disk, pc, cid, mem, fd, spawns>>

Crash(c) ==
  /\ "crash" \in Env
  /\ pc[c] # "idle"
  /\ Return(c)
  /\ fd' = [fd EXCEPT ![c] = "closed"]
  /\ Reparent(c)
  /\ UNCHANGED <<disk, spawns>>

(* A process exits: of itself, or of the signal it has pending.            *)
ProcessExit(p) ==
  /\ proc[p].run \in {"alive", "doomed"}
  /\ proc' = [proc EXCEPT ![p] = IF @.parent = HostInit THEN FreeSlot
                                 ELSE [@ EXCEPT !.run = "zombie"]]
  /\ UNCHANGED <<disk, pc, cid, mem, fd, spawns>>

(* Some other program of the host is given a free identifier.              *)
ForeignSpawn(p) ==
  /\ "foreign" \in Env
  /\ proc[p].run = "free"
  /\ proc' = [proc EXCEPT ![p] = [@ EXCEPT !.run = "alive"]]
  /\ UNCHANGED <<disk, pc, cid, mem, fd, spawns>>

-----------------------------------------------------------------------------
(* The steps by which a call of c goes on.                                 *)
Step(c) ==
  \/ OpenFile(c) \/ WriteFile(c) \/ SaveFails(c)
  \/ PrestartHooks(c)
  \/ Spawn(c) \/ SpawnFails(c) \/ PoststartHooks(c)
  \/ Signal(c) \/ Wait(c) \/ Mark(c) \/ PoststopHooks(c)
  \/ Remove(c) \/ RemoveFails(c)

Call(c, id) == Create(c, id) \/ Start(c, id) \/ Stop(c, id) \/ Delete(c, id)

Next ==
  \/ \E c \in Callers : \/ Step(c) \/ Exit(c) \/ Crash(c)
                        \/ \E id \in Ids : Call(c, id)
  \/ \E p \in Pids : ProcessExit(p) \/ ForeignSpawn(p)

Spec == Init /\ [][Next]_vars

(***************************************************************************)
(* Fairness.  A call runs to its end: its steps are the statements of one  *)
(* thread, the polling loop of `stop' has a deadline, and hooks are        *)
(* assumed to end (run_hooks kills those that have a timeout).  A process  *)
(* with a fatal signal pending exits.                                      *)
(***************************************************************************)
Fairness ==
  /\ \A c \in Callers : WF_vars(Step(c))
  /\ \A p \in Pids : WF_vars(proc[p].run = "doomed" /\ ProcessExit(p))

FairSpec == Spec /\ Fairness

(* ... and whoever wants a container stopped calls `stop' again and again. *)
RetryingSpec ==
  /\ FairSpec
  /\ \A id \in Ids : SF_vars(\E c \in Callers : Stop(c, id))

-----------------------------------------------------------------------------
(***************************************************************************)
(* The lifecycle that the status files show.  While a save has the file    *)
(* truncated, the container is still in the state it had before.           *)
(***************************************************************************)
StateBefore(step) ==
  CASE step = "save_creating" -> "absent"
    [] step = "save_created"  -> "creating"
    [] step = "save_running"  -> "created"
    [] step = "save_pid"      -> "running"
    [] step = "save_stopped"  -> "running"
    [] step = "save_cleared"  -> "stopped"

Saves(c, id) == cid[c] = id /\ fd[c] = "open"

LifecycleStatus(id) ==
  IF \E c \in Callers : Saves(c, id)
  THEN StateBefore(pc[CHOOSE c \in Callers : Saves(c, id)])
  ELSE IF disk[id].state \in Unreadable THEN "lost" ELSE disk[id].state

OCI == INSTANCE OCILifecycle WITH
         status <- [id \in Ids |-> LifecycleStatus(id)]

(***************************************************************************)
(* Serialised callers take every container through the chain of the        *)
(* documentation, Creating -> Created -> Running -> Stopped, whatever      *)
(* callers crash, saves fail and processes do in between: `transition'     *)
(* never skips or repeats a state and nothing revives a lost container.    *)
(***************************************************************************)
LifecycleOrder == OCI!Spec

(***************************************************************************)
(* Serialised callers never clone two processes for one container, however *)
(* often `start' is retried after a crash or an error: the status leaves   *)
(* "created" on the disk before clone(2) is called.                        *)
(***************************************************************************)
SpawnOnce == \A id \in Ids : spawns[id] <= 1

(***************************************************************************)
(* The invariant behind both: calls on one container exclude each other,   *)
(* the status file is what the calling step expects it to be, and no       *)
(* process exists before "running" is on the disk.                         *)
(***************************************************************************)
MutualExclusion ==
  \A c, d \in Callers : cid[c] = cid[d] /\ cid[c] # NoId => c = d

(* The state in c's memory at each step of its call.                       *)
HeldState(step) ==
  CASE step \in {"save_creating", "prestart"} -> {"creating"}
    [] step = "save_created" -> {"created"}
    [] step \in {"save_running", "spawn", "save_pid", "poststart"} -> {"running"}
    [] step \in {"save_stopped", "save_cleared", "poststop", "remove"} -> {"stopped"}
    [] OTHER -> ContainerStates

(* The state in the file when c has it closed.                             *)
FileState(c) ==
  IF pc[c] \in SaveSteps THEN StateBefore(pc[c]) ELSE mem[c].state

CallInv(c) ==
  /\ pc[c] = "idle" <=> cid[c] = NoId
  /\ fd[c] = "open" => pc[c] \in SaveSteps
  /\ fd[c] # "stale"
  /\ pc[c] # "idle" =>
       /\ mem[c].state \in HeldState(pc[c])
       /\ IF fd[c] = "open" THEN disk[cid[c]] = EmptyFile
                            ELSE disk[cid[c]].state = FileState(c)
       /\ pc[c] \in {"save_creating", "prestart", "save_created", "save_running", "spawn"}
            => spawns[cid[c]] = 0

ContainerInv(id) ==
  /\ disk[id].state # "garbled"
  /\ disk[id].state \in {"creating", "created"} => spawns[id] = 0
  /\ spawns[id] <= 1

LifecycleInv ==
  /\ MutualExclusion
  /\ \A c \in Callers : CallInv(c)
  /\ \A id \in Ids : ContainerInv(id)

InFlight(id) == \E c \in Callers : cid[c] = id

(***************************************************************************)
(* A program that embeds the runtime and reaps its own children leaks no   *)
(* container: between calls, a container process that runs on is the one   *)
(* that its status file names, so that `stop' can still reach it.          *)
(***************************************************************************)
NoLeakedContainer ==
  \A p \in Pids :
    proc[p].run = "alive" /\ proc[p].owner # NoId /\ ~InFlight(proc[p].owner)
      => disk[proc[p].owner] = [state |-> "running", pid |-> p]

(***************************************************************************)
(* `stop' signals the container init process (the documentation of stop),  *)
(* never a process that was given the same identifier later.               *)
(***************************************************************************)
SignalsOnlyItsContainer ==
  \A c \in Callers :
    pc[c] = "signal" /\ proc[mem[c].pid].run # "free"
      => proc[mem[c].pid].owner = cid[c]

(***************************************************************************)
(* A container that is "stopped" has no user process left: "The            *)
(* container's user process has exited."  A process with SIGKILL pending   *)
(* counts as gone.                                                         *)
(***************************************************************************)
StoppedMeansExited ==
  \A id \in Ids :
    disk[id].state = "stopped" =>
      \A p \in Pids : proc[p].owner = id => proc[p].run # "alive"

(***************************************************************************)
(* Every call returns, whether or not the process obeys the signal and     *)
(* whether or not there still is one.                                      *)
(***************************************************************************)
EveryCallReturns == \A c \in Callers : pc[c] # "idle" ~> pc[c] = "idle"

(* A running container can be stopped: `stop', called again and again,     *)
(* takes it to "stopped".                                                  *)
StopSucceeds ==
  \A id \in Ids : disk[id].state = "running" ~> disk[id].state = "stopped"

=============================================================================
