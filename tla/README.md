# Verification of crate-runtime

`crate-runtime` is a small OCI container runtime in Rust. This directory holds
TLA+ models of its parts, TLC configurations that check them on small
instances, and TLAPS proofs of what matters most. Paths such as
`src/runtime/mod.rs` are relative to the crate; `PROJECT.json` maps every
definition to the lines it models.

## 1. Inventory

| Component | State it keeps | Operations | Interacts with |
|---|---|---|---|
| `RuntimeManager` (`src/runtime/mod.rs`) | `containers/{id}/state.json`, one file per container; no lock | `create`, `start`, `stop`, `delete`, `state`, `list` | `spawn_container_process`, `kill`/`waitpid`, hooks |
| Hooks (`run_hooks`) | a child process with three pipes, a deadline | spawn, write the state, poll or wait, kill after the timeout | called by create, start, stop; programs named in `config.json` |
| Image store and registry client (`src/image/mod.rs`) | blobs, `.part` files and manifests on the disk | `pull_image`, `get_image_layers`, `load_manifest`; authenticate, fetch, download, verify; `ImageReference::parse`, `extract_layer` | a registry over HTTP; other pulls on the same files |
| Container process (`src/container/process.rs`) | parent and cloned child, temporary root directory | `run`, `spawn_container_process`, `container_init` | mount namespace, capabilities, seccomp |
| Mount namespace (`src/namespace/mount.rs`) | mount table of the child, `.pivot_root` in the root directory | `setup_mount_namespace` | host mounts through propagation, containers on the same root |
| Security (`src/security/mod.rs`) | capabilities and seccomp filter of the child | `apply_capabilities`, `apply_seccomp_filter`, `validate_path` | the kernel's BPF interpreter |
| Network (`src/network/mod.rs`) | `IP_COUNTER` per process; bridge, veth pairs, iptables rule in the kernel | `setup_bridge`, `create_container_network`, `cleanup` | netlink requests of concurrent async tasks |
| Cgroups (`src/cgroup/mod.rs`) | a directory per identifier and its control files | `apply`, `add_process`, `cleanup` | cgroup v2 file system; other managers of the identifier |
| Overlay (`src/filesystem/mod.rs`) | upper, work and merged directories | builder, `mount_options`, `prepare_overlay_dirs`, `mount`, `unmount` | the layers of the image store |
| Configuration, builder, CLI, namespace helpers, utilities | none that outlives a call | parsing, validation, formatting | - |

What is hard to test here:

* **Nothing is locked.** Any number of `crate` commands may work on the same
  status files, blobs, root directories and interfaces at the same time.
* **Saves are two steps.** `std::fs::write` truncates and then writes; a crash,
  an error or another process may come between.
* **The caller's identity matters.** `waitpid` and process identifiers behave
  differently in the process that cloned a container and in any other one.
* **One step of several fails.** Nearly every operation is a chain of system
  calls joined by `?`, with what was made so far left behind.
* **Order of initialisation.** Private mounts, pivot, detaching the old root,
  dropping capabilities and the filter are right only in one order.
* **Waiting for each other.** A runner that writes a hook's input and never
  reads its output, and a hook that writes before it reads.
* **Edges of numbers.** Jump offsets of eight bits, the end of the address
  pool, leap years at the turn of centuries.
* **One separator, two meanings.** A colon before a port or a tag, a first word
  that is a registry or a namespace, a list of layers from either end.

What makes each component correct: the runtime takes a container once through
`Creating -> Created -> Running -> Stopped`, clones it at most once, always
returns and loses no process; a stored manifest has its blobs; a command runs
only when it is confined, the host's mounts stay as they are and directories
are removed by their owner only; the filter denies exactly its list; every
container has its own pair and address; hooks run in order, all of them or up to
the first failure, and none outlives `run_hooks`; a process that was added to a
cgroup is held to that cgroup's limits, and the cgroup goes away in the end; dates,
references and overlays mean what the calendar, Docker and the image take them
to mean. `PROJECT.json` lists the hazards line
by line with the properties that cover them.

## 2. Modules

* `OCILifecycle` - the abstract specification of the lifecycle: one variable
  `status[id]` that moves along the documented chain, with `lost` for a status
  file that no longer parses.
* `RuntimeManager` - `create`, `start`, `stop` and `delete` as sequences of file
  and kernel steps. `disk` holds the status files, `proc` the kernel's process
  table (`doomed`: fatal signal pending; `zombie`: exited, not reaped), and
  `pc`, `cid`, `mem` and `fd` the call of each caller. `OpenFile` and `WriteFile`
  are the two halves of `save_status`; a file that was removed while open is
  written to no effect; two overlapping writers may garble it. `Signal` and
  `Wait` are `linux_stop_process` with `ESRCH`, `ECHILD`, reaping and the deadline.
  The environment: `Exit` of a caller (the CLI ends after each command),
  `Crash`, failing I/O, processes that exit, and strangers that are given a free
  process identifier (`Env` says which). A call that is refused by its first
  check changes nothing and is the absence of a step.
* `ImageStore` - `pull_image` by overlapping pullers. A blob is a function from
  chunk numbers to `none`, `good` or `bad`; `part` is the `.part` file and
  `handle` says which file a download's descriptor refers to after others have
  renamed or truncated it. Manifests are saved by truncating and writing.
  `manifest_path` leaves out the registry, as in the code. `faults` counts aborts
  and wrong chunks, up to `MaxFaults`.
* `RunHooks` - `run_hooks` on every short list of hooks: spawn, the write of the
  state, then `try_wait`, the check of the time and the sleep as steps of their
  own, or `wait` for a hook without a timeout; time in ticks. A hook reads its
  input or not, writes more than its pipe holds or not, ends by itself or not.
  `RuntimeManager` takes the outcome of a list as one step, success or failure.
* `Cgroup` - managers of cgroup directories. A call of `apply` is one step for the
  directory and one for each control file; `cleanup` is its check and its
  `remove_dir`. `dir`, `file` and `member` are the kernel's; `ready` and `by` say
  which processes were added after `apply` had succeeded.
* `Calendar`, `ImageReference`, `OverlayMount` - the functions `days_to_ymd`;
  `parse` and `Display` of image references over tokens (separators and words, of
  which the parser only asks whether they contain a dot or are `localhost`);
  the overlay's builder and the order of `lowerdir`, what `extract_layer` leaves of a
  layer and the view that the kernel gives. `PureFunctions` enumerates the inputs
  and states what the results must be.
* `ContainerProcess` - parent and child of a container. `config` says how each
  container was started (`run` with a temporary root or the user's, or detached)
  and its root directory, which two may share. `parent` goes through
  `Container::run` (a detached one only clones), `child` through `container_init`
  and `setup_mount_namespace` in the code's order, `ns` is the child's view of
  the mounts. When a directory is removed, by `cleanup_rootfs` (also one that fails
  half way) or as `.pivot_root`, the kernel detaches what any container on the same
  root has mounted there (`Detach`). A child is `failed` when a system call fails for a
  reason of its own, `refused` when it fails because of what was done to the root
  directory before; the code returns the same error, the distinction is the model's.
* `SeccompFilter` - the BPF program as `apply_seccomp_filter` builds it, with
  the 8-bit jump offset, the two `prctl` calls, the kernel's check of a program
  and its interpreter.
* `Network` - `setup_bridge`, `create_container_network` and `cleanup` as tasks
  that interleave at every `await`. The namespace move of `eth0`, which the code
  leaves to its caller, and the kernel's removal of the pair are external. `cleanup`
  takes any error of the lookup of the pair, not only its absence, for "already
  removed", and the pair may stay.
* `RuntimeManagerProofs`, `ImageStoreProofs`, `ContainerProcessProofs`,
  `SeccompFilterProofs`, `NetworkProofs`, `RunHooksProofs`, `CgroupProofs`,
  `PureFunctionsProofs` - the theorems about the module of the same name.
* `MC*` - the instances for TLC.

Operators called mutants (commented "Mutant: ...") are plausible mistakes in the
definition that follows; each property is violated when the definition is
replaced by its mutant, which shows that the property depends on that code.

## 3. Runs

| Run | Instance | What it shows |
|---|---|---|
| `rm_serialized` | 2 containers, 2 callers, 2 pids; exits, crashes, I/O errors | callers that take turns on a container implement `OCILifecycle`, clone it once, and keep the inductive invariant |
| `rm_embedded` | 2 containers, 1 caller that lives on, 3 pids, strangers | no running container is lost, no stranger is signalled, repeated `stop` gets a running container to stopped, every call returns |
| `is_overlap` | 3 pullers of one name in two registries, 2 chunks, at most one abort or wrong chunk | a stored manifest has every blob in place; without a fault, only verified blobs are left once all have returned, although they share a `.part` file |
| `cp_all` | a run beside a detached container, two runs with one identifier, two containers on one `rootfs`; every fault | host mounts untouched; no command sees the host's root; it has its own root and mounts unless another run has its identifier; root directories removed only by their owner and after their container, no step spoils a later one, `run` returns |
| `sf_default` | the 19 denied numbers, all system calls | exactly these are denied, and the kernel accepts the program |
| `nw_tasks` | 2 containers of one process, failing requests, pool of 3 addresses | each has its own pair and address, inside the subnet |
| `rh_lists` | lists of at most 2 hooks of every kind, timeouts -1 and 1 or none, small and large states | hooks run in order, none runs on, `run_hooks` returns unless it and a hook wait for each other |
| `cg_managers` | 2 managers with one identifier or two, 2 processes, 4 calls of `apply` | limits hold for processes added after `apply`; cgroups are removed |
| `fn_inputs` | the days of 400 years, references of at most 7 tokens, written references of at most 3 words with a tag, a digest or neither | the functions agree with their reference definitions |
| `rm_v_exited` | 1 container, callers that end | violated: `Stopped` while the process runs |
| `is_v_partial` | 2 pullers, 2 chunks | violated: a partial blob is visible |
| `fn_v_order` | images of at most 2 layers of 2 files | violated: layers added bottom first are mounted upside down |

Bounds. Two callers and two containers show every pairwise interleaving; the
second container matters because of process identifiers, which one container
gives up and the other gets. Two chunks are enough for a download that was
truncated after its first write. Three pullers are needed for one to rename what
another truncated while a third verifies; one fault (`MaxFaults`) is enough to
leave a bad or partial file to pulls that meet none themselves. A hook before and
one after it are all that `run_hooks` tells apart (`MaxHooks`), and a `Horizon` of
3 ticks lets a timeout of one tick pass before, during and after a sleep; a
negative timeout counts as zero. `MaxApplies` lets each manager repeat a failed
`apply` after the other's. The calendar repeats itself after 400 years; seven
tokens hold a registry with a port, two words of a path and the separators
between them, and `ParsedAsMeant` has the longer references that people write.
Two layers are enough to turn upside down. The pool `2..PoolMax` of three
addresses and three tries per container (`MaxTries`) let it run out; `CounterMod`
stands for 2^32 and is not reached. `MaxSetups` bounds the calls of
`setup_bridge`. Callers and pullers are symmetric in the runs without liveness
properties. Deadlock is not checked where the system may stop: all containers
done, tries used up, or a container for which no operation is possible.

Fairness. `FairSpec` of `RuntimeManager` says that a call runs on to its end
(its steps are the statements of one thread, the loop of `stop` has a deadline,
hooks are assumed to end) and that a process with a fatal signal pending exits.
`RetryingSpec` adds that somebody calls `stop` again and again; it is there
for `StopSucceeds`, which is about such a user (`EveryCallReturns`, in the same run,
needs `FairSpec` only). `ContainerProcess` assumes that
both processes keep running; nothing makes the command end, and `RunReturns`
speaks of children that have ended. In `RunHooks` the runner runs, time passes, a
hook that reads its input does so at last and one that ends does so unless it is
blocked; `waitpid` may fail or not. `HooksReturn` excludes exactly the lists in which
the runner and a hook can wait for each other (`Answers`). In `Cgroup` processes end
and a program that has given its container up repeats `cleanup`, which `CgroupRemoved`
needs: one call may find a process still there. The other modules have no fairness.

## 4. Proofs

TLAPS proves every invariant that a passing run checks, and that `RuntimeManager`
implements `OCILifecycle`, for every value of the constants that their named
assumptions admit: any number of callers, pulls, containers, tasks, hooks,
chunks, layers, tokens and faults. A theorem that needs more says so.

| Theorems | Hypothesis | Inductive invariant |
|---|---|---|
| `RuntimeManager`: `TypeCorrect` | - | `TypeOK` |
| `LifecycleInvariant`, `SpawnsOnce`, `Refinement` | `Serialized` | `LifecycleInv` |
| `RightProcess` | `Embedded` | with `NamesInv` |
| `NothingLeaks` | `Embedded`, `OneCaller` | with `ReachesInv` |
| `ImageStore`: `TypeCorrect`, `ImagesUsable` | - | `StoreInv` |
| `SoundStore` | - | with `SoundInv` |
| `ContainerProcess`: `TypeCorrect`, `Confined`, `HostUntouched`, `RootOutlives`, `RootfsOwned`, `NeverRefused` | - | `ContainerInv` |
| `SeccompFilter`: `TypeCorrect`, `FilterInvariant`, `DeniesList`, `AlwaysAccepted` | at most 255 numbers | `FilterInv` |
| `Network`: `TypeCorrect` | - | `TypeOK` |
| `OwnPair`, `OwnEth0` | `DistinctPrefixes` | `PairsInv` |
| `AddressesUnique` | `OneCounter`, `[]CountersBelowWrap` | `AddressInv` |
| `AddressesInSubnet` | `PoolMax = SubnetSize - 2`, `[]CountersBelowWrap` | `AddressInv` |
| `RunHooks`: `TypeCorrect`, `InOrder`, `NoneOutlives` | - | `HooksInv` |
| `Cgroup`: `TypeCorrect`, `LimitsAlwaysHold` | - | `CgroupInv` |
| `PureFunctions`: `DatesExact`, `DisplayRoundTrip`, `WrittenAsMeant`, `BottomFirstShows` | - | range of the inputs |

The inductive invariants were checked by TLC on the instances of the runs before
they were proved.

### Why the hypotheses

* `Serialized` - callers do not overlap on one container. The code has no lock, so
  this is a condition on its users; without it two calls of `start` can both load
  `Created` and both clone. Crashes, failing saves, exiting processes and
  strangers are all allowed.
* `Embedded` - the callers are also processes that live on, and their saves do not
  fail. A CLI that exits leaves its containers to init, which reaps them, and then
  `stop` can signal a stranger (section 5); a save that fails after the clone leaves
  a process that no file names. `OneCaller` - there is one such process: `stop` of
  another one gets `ECHILD` for a running container and takes it for gone.
  `rm_embedded` checks this program with strangers.
* `DistinctPrefixes` - identifiers differ in their first eight characters, which name
  the pair (random identifiers do); with equal ones a cleanup deletes the other's pair.
* `OneCounter` - one process, since `IP_COUNTER` is per process.
  `[]CountersBelowWrap` - no process has allocated 2^32 addresses; after that the
  counter starts again although addresses may be in use.
* `PoolMax = SubnetSize - 2` - the limit `0xFFFE` of the code and the /16 of the default
  configuration. For a longer prefix the property is false.

### The arguments

*Lifecycle.* `SpawnOnce` is not inductive: it needs that `Created` on the disk
means no clone so far, which needs what the file holds at each step of a call in
progress, which needs that no other call writes it. `LifecycleInv` says all three
(`MutualExclusion`, `CallInv`, `ContainerInv`). A step of caller c touches only
c's variables and c's container (`StepTouches`, `CallTouches`), so its
preservation is shown for c and its container only (`LocalStep`). The refinement
maps a container to the state in its file or, while a save has the file
truncated, to the state before that save; then every step moves one container
along the chain, loses it, or stutters.

*Whom `stop` signals, and what is lost.* A process identifier stays taken as long as
its process is at least a zombie of a caller (`OwnedInv`). `NamesInv` follows the
identifier from the clone through the call that holds it to the file and back
(`NameInv`, `RestInv`), so that what `signal` reads is never free or a stranger's.
`ReachInv` is the converse, that a running process is named by the file or by the
call that works on its container; it needs that no second call of the same
container overwrites the name.

*Images.* `ManifestInv` needs that a pull that saves a manifest has found all blobs,
that is, that the ones it has passed stay: `PullInv` says which blobs exist at each
step, and no step removes one. For `SoundAtRest` the invariant cannot be that a
blob is good, since a puller may truncate what another has renamed. `SoundInv`
says that every chunk that is not good will be written by a pull that has the file
open under its present name (`Covered`, `Writes`); when all have returned no such
pull is left.

*Containers.* `PrivateInv` says what holds of the child's namespaces at each step in any
company: private mounts, and no way back to the host's root once the old one is
detached; the removal of a directory only detaches more (`Detaching`). `MountsInv` lists
the root and mounts that a child whose root no other run removes (`Undisturbed`) has
set up.
`RootInv` ties the parent's step to the child: while the child of a run with a
temporary root lives, the parent waits or has given up with an error, so nobody
removes the directory. `AloneInv` has what a later step finds of the directories
of an earlier one.

*Filter.* Past entry i the number differs from the first i entries, and the DENY
instruction is reached only after a match. `JumpTarget` is the arithmetic of the
offset modulo 256, which is exact for at most 255 numbers (`FilterAssumption`).

*Network.* `PairInv` says for each step of a task what is known of the pair under its
name, and whose interface the host's `eth0` is; another task changes neither. In
`AddressInv` addresses that were given out are below the counter they came from.

*Hooks.* The hooks before the runner's position have succeeded and were reaped, the
ones behind it were not started, and the one at it has not been reaped while the
runner polls or waits.

*Cgroups.* A control file holds no limit or its manager's, and the ones that `apply` has
passed hold the manager's (`DirectoryInv`), so after success all do; a directory with
a member cannot be removed.

*Functions.* `days_to_ymd` inverts a count of days: `YearFound` and `YearUnique` show that
the year of an era it computes is the only one that the day can be in, `DayAfter`,
`MonthGoesOn` and `YearEnds` what the next day is within the month, at its end and at
the end of the year. For references, `FoundInParts` locates the first and last
separator of a text put together from parts, and `SplitTagged`, `SplitUntagged` and
`LocateSlashed` follow `parse` through it, `SplitDigest` for a digest; `WrittenParses`
holds for paths of any length although the runs bound them. The forms are those that
`parse` documents; a tag and a digest together is none of them, and there `parse` keeps
the tag in the repository. `BottomFirstShows` is about the layers in the documented
order, whiteouts included: the mount shows the image exactly if every name's lowest
layer says the same of it as its topmost one (`LowestIsTopmost`), which the run
`fn_v_order` shows to fail. Least and greatest elements of sets of
numbers are derived from well-foundedness (`Least`, `Greatest`).

### Only model-checked

The liveness properties `RunReturns`, `HooksReturn`, `StopSucceeds`,
`EveryCallReturns` and `CgroupRemoved`: fairness and ENABLED are out of the
prover's reach. Not proved and not checked: that the counters of iptables rules
match the calls (`rules` is only shown to be a natural number), as the code
promises nothing of them.

## 5. Disagreements between code and documentation

Shown by a run:

* `rm_v_exited`: `stop` takes `ECHILD` for "already gone", but any process other
  than the one that ran `start` gets `ECHILD` for a live container
  (`src/runtime/mod.rs:540`; line 28 documents Stopped as exited).
* `is_v_partial`: two downloads of one digest share the `.part` path; one renames
  what the other has truncated (`src/image/mod.rs:336`; line 293 promises that
  partial downloads are never visible).
* `fn_v_order`: `mount_options` joins the layers as they were added and the kernel takes
  the first as the top (`src/filesystem/mod.rs:59`), where line 187 says "first =
  bottom" and `get_image_layers` lists the bottom first (`src/image/mod.rs:522`).
* `cp_all`: the flags of every clone are those of `src/container/process.rs:84-87`
  (`TypeOK`); the feature list (`README.md:7` and `:81`) and `src/network/mod.rs:11`
  promise a network namespace too, which no container gets.

Visible in the models, and the reason for the conditions under which the passing
runs state their properties:

* Without serialised callers two `start`s clone twice.
* After the host's init has reaped a container that exited by itself, `stop` fails
  with ESRCH before the transition, every time; the container can be neither
  stopped nor deleted. If the identifier was reused, `stop` signals a stranger.
* A crash inside `save_status` leaves a file that no operation loads; a failed
  prestart hook leaves a container in Creating for good.
* A blob that failed verification stays in place, and the next pull takes it
  without verifying. Two registries share the manifest file of one name.
* A `run` that returns an error leaves its temporary root directory. Of two runs with
  one identifier the first to end removes the directory under the other, and the
  kernel detaches the other's `/proc`, `/sys` and `/dev`.
* `setup_bridge` appends its rule on every call and `cleanup` of any container
  deletes one copy; a creation that fails half-way leaves a pair with `eth0` in
  the host's namespace; two identifiers with the same first eight characters
  share a pair's name. `allocate_ip` compares with `0xFFFE` whatever the prefix length
  (`src/network/mod.rs:45`), so that addresses stay in the subnet only for a /16.
* A hook's timeout is counted from when its state is written
  (`src/runtime/mod.rs:454-461`): a hook that does not read a state larger than a
  pipe is not "killed after that duration" (line 417). A hook without a timeout that
  fills its output pipe blocks `create`, `start` or `stop` for ever. A killed hook is
  never waited for.
* `extract_layer` unpacks whiteouts as plain files, so that a file that a layer deletes
  is still there whichever way the layers are stacked.
* A digest does not survive `Display`, which writes `repo:sha256:...`; a reference that
  names `registry-1.docker.io` may come back with another repository; `alpine:` is accepted
  with an empty tag. Manifests of `repo:tag` and `repo/tag:other` need one path to be
  a file and a directory.
* `cleanup` of a cgroup that another `cleanup` has just removed fails, where the
  comment says that it does nothing; a directory that an earlier container of the
  identifier left keeps the limits that the new one does not set.

## 6. Not modelled, and the plan

What would extend the project most, in this order:

1. An abstract image store (a set of usable images per name) that `ImageStore`
   implements, with a proof like that of `Refinement`; `StoreInv` is the invariant
   it needs.
2. An abstract container, whose command runs at most once and only confined, that
   `ContainerProcess` implements.
3. The copies of the NAT rule: a property that says what the code should promise
   while containers of other processes use it.

Not modelled, and why:

* `ContainerBuilder::build` and the setters: checks of arguments against constants,
  with no second definition in the code to compare them with (the hostname check
  admits 255 characters where the kernel takes 64; `container_init` then fails, which
  `ContainerProcess` has as a failing step).
* `validate_path` and `bind_mount`: no code calls them.
* `prepare_overlay_dirs`, `mount` and `unmount` of the overlay: single system calls
  that no code composes; what they pass to the kernel is in `OverlayMount`.
* Configuration loading: the first file that parses or the defaults. `main` uses the
  log level and the image root only, not the runtime's root directory and not the
  security, cgroup and network settings.
* The UTS and PID namespace helpers: wrappers of one system call; argument parsing,
  identifier generation, error formatting, path tables.
* The contents of root directories, archives, HTTP messages and JSON beyond what the
  properties distinguish.
