------------------------ MODULE ContainerProcessProofs ------------------------
(***************************************************************************)
(* Proofs about ContainerProcess, for any containers, root directories and *)
(* configurations, and whatever system calls fail: where a command runs,   *)
(* what becomes of the root directories, and that the initialisation of a  *)
(* container does not stand in its own way.                                *)
(***************************************************************************)
EXTENDS ContainerProcess, TLAPS

(* The child's steps from the named one on.                                *)
FromRmPutOld == {"rm_put_old", "caps", "seccomp", "exec", "command"}
FromDevExtra == {"dev_extra", "umount"} \cup FromRmPutOld
FromDev == {"dev"} \cup FromDevExtra
FromSys == {"sys"} \cup FromDev
FromProc == {"proc"} \cup FromSys
FromPutOld == {"put_old", "pivot"} \cup FromProc
FromBind == {"bind"} \cup FromPutOld

(* Between pivot_root and the unmount of the old root.                     *)
WithOldRoot == {"proc", "sys", "dev", "dev_extra", "umount"}

(***************************************************************************)
(* What the child has set up when it is at a step, in any company, and     *)
(* what more if no other run may remove its root directory.                *)
(***************************************************************************)
PrivateInv(c) ==
  /\ child[c] \in FromBind => ns[c].private
  /\ child[c] \in FromProc => ns[c].root # "host"
  /\ child[c] \in FromRmPutOld => ns[c].old = "detached"

MountsInv(c) ==
  /\ child[c] \in FromPutOld => "root" \in ns[c].mounts
  /\ child[c] \in FromProc => ns[c].root = "new"
  /\ child[c] \in FromSys => "proc" \in ns[c].mounts
  /\ child[c] \in FromDev => "sys" \in ns[c].mounts
  /\ child[c] \in FromDevExtra => "dev" \in ns[c].mounts

NamespaceInv(c) == PrivateInv(c) /\ (Undisturbed(c) => MountsInv(c))

(***************************************************************************)
(* How the parent's steps, the child and the root directory go together.   *)
(***************************************************************************)
RootInv(c) ==
  /\ parent[c] \in {"new", "clone"} => child[c] = "none"
  /\ parent[c] = "cleanup" => c \in Owned /\ ~Alive(c)
  /\ c \in Owned /\ Alive(c) => parent[c] = "wait" \/ result[c] = "error"
  /\ c \notin Owned => dir[RootOf(c)] = "ready"
  /\ c \in Owned /\ Alone(c) =>
       /\ parent[c] = "clone" \/ Alive(c) => dir[RootOf(c)] = "ready"
       /\ parent[c] = "returned" /\ result[c] = "ok" => dir[RootOf(c)] = "absent"

(***************************************************************************)
(* What a container that is alone on its root directory finds there.       *)
(***************************************************************************)
AloneInv(c) ==
  Alone(c) =>
    /\ child[c] # "refused"
    /\ child[c] = "pivot" => putOld[RootOf(c)]
    /\ child[c] \in WithOldRoot => ns[c].old = "attached"

ContainerInv ==
  /\ TypeOK
  /\ \A c \in Containers : NamespaceInv(c) /\ RootInv(c) /\ AloneInv(c)
  /\ hostMounts = {}
-----------------------------------------------------------------------------
Namespaces == [flags : {{}, CloneFlags}, private : BOOLEAN, root : {"host", "new", "removed"},
               old : {"none", "attached", "detached"},
               mounts : SUBSET {"root", "proc", "sys", "dev", "dev_extra"}]

(* What the steps of the child make of its view.                           *)
LEMMA NamespaceTypes ==
  /\ Fresh \in Namespaces /\ Gone \in Namespaces
  /\ \A n \in Namespaces :
       /\ [n EXCEPT !.private = TRUE] \in Namespaces
       /\ [n EXCEPT !.old = "detached"] \in Namespaces
       /\ [n EXCEPT !.root = "new", !.old = "attached"] \in Namespaces
       /\ \A m \in {"root", "proc", "sys", "dev", "dev_extra"} :
            [n EXCEPT !.mounts = @ \cup {m}] \in Namespaces
       /\ \A gone : Detach(n, gone) \in Namespaces
BY DEF Namespaces, Fresh, Gone, Detach

(* What a removal takes from a child, and what it leaves.                  *)
LEMMA Detaching ==
  ASSUME NEW n \in Namespaces, NEW gone
  PROVE  /\ Detach(n, gone).private = n.private
         /\ Detach(n, gone).root = "host" <=> n.root = "host"
         /\ n.old = "detached" => Detach(n, gone).old = "detached"
         /\ gone = {"put_old"} => /\ Detach(n, gone).root = n.root
                                  /\ {"root", "proc", "sys", "dev"} \cap n.mounts
                                       \subseteq Detach(n, gone).mounts
BY DEF Namespaces, Detach

(* The namespaces after a removal.                                         *)
LEMMA NsWithoutTypes ==
  ASSUME ns \in [Containers -> Namespaces], NEW r, NEW gone
  PROVE  NsWithout(r, gone) \in [Containers -> Namespaces]
BY NamespaceTypes DEF NsWithout

(* Every step of the child but the last has a next one.                    *)
LEMMA ThenType ==
  \A step \in Mandatory \cup Lenient : Then(step) \in ChildSteps
<1> SUFFICES ASSUME NEW step \in Mandatory \cup Lenient PROVE Then(step) \in ChildSteps
  OBVIOUS
<1> USE DEF Then, ChildSteps, Mandatory, Lenient
<1>1. CASE step \in {"hostname", "private", "bind", "put_old", "pivot"}
  BY <1>1
<1>2. CASE step \in {"proc", "sys", "dev", "dev_extra", "umount"}
  BY <1>2
<1>3. CASE step \in {"rm_put_old", "caps", "seccomp", "exec"}
  BY <1>3
<1>4. QED BY <1>1, <1>2, <1>3

(* A container has a root directory, and who shares it made it too or made *)
(* it as little.                                                           *)
LEMMA Sharing ==
  ASSUME TypeOK, NEW c \in Containers
  PROVE  /\ RootOf(c) \in Roots
         /\ \A d \in Containers : RootOf(d) = RootOf(c) => (d \in Owned <=> c \in Owned)
         /\ c \in Detached => c \notin Owned
<1>1. config \in [Containers -> [kind : Kinds, root : Roots]]
  BY ProcessAssumption DEF TypeOK
<1>2. \A d \in Containers : RootOf(d) = RootOf(c) => (config[d].kind = "run" <=> config[c].kind = "run")
  BY ProcessAssumption DEF TypeOK, RootOf
<1>3. QED BY <1>1, <1>2 DEF RootOf, Owned, Detached

-----------------------------------------------------------------------------
(***************************************************************************)
(* Every step keeps the variables well typed.                              *)
(***************************************************************************)
LEMMA ParentType ==
  ASSUME TypeOK, NEW c \in Containers, ParentStep(c)
  PROVE  TypeOK'
<1>1. RootOf(c) \in Roots
  BY Sharing
<1>2. CASE PrepareRootfs(c)
  <2>1. dir' \in [Roots -> {"absent", "partial", "ready"}]
    <3>1. \/ dir' = dir
          \/ dir' = [dir EXCEPT ![RootOf(c)] = "ready"]
          \/ dir' = [dir EXCEPT ![RootOf(c)] = "partial"]
      BY <1>2 DEF PrepareRootfs, TypeOK
    <3>2. QED BY <1>1, <3>1 DEF TypeOK
  <2>2. /\ parent' \in [Containers -> ParentSteps]
        /\ result' \in [Containers -> {"none", "ok", "error"}]
    BY <1>2 DEF PrepareRootfs, Return, TypeOK, ParentSteps
  <2>3. QED BY <1>2, <2>1, <2>2 DEF ParentStep, PrepareRootfs, TypeOK
<1>3. CASE Clone(c)
  <2>1. ns' \in [Containers -> Namespaces]
    <3>1. ns \in [Containers -> Namespaces]
      BY DEF TypeOK, Namespaces
    <3>2. ns' = [ns EXCEPT ![c] = Fresh] \/ ns' = ns
      BY <1>3 DEF Clone
    <3>3. QED BY <3>1, <3>2, NamespaceTypes
  <2>2. child' \in [Containers -> ChildSteps]
    BY <1>3 DEF Clone, TypeOK, ChildSteps, Mandatory
  <2>3. /\ parent' \in [Containers -> ParentSteps]
        /\ result' \in [Containers -> {"none", "ok", "error"}]
    BY <1>3 DEF Clone, Return, TypeOK, ParentSteps
  <2>4. caps' \in [Containers -> SUBSET Caps]
    BY <1>3 DEF Clone, TypeOK
  <2>5. QED
    BY <1>3, <2>1, <2>2, <2>3, <2>4 DEF ParentStep, Clone, TypeOK, Namespaces
<1>4. CASE WaitForChild(c)
  BY <1>4 DEF ParentStep, WaitForChild, Return, TypeOK, ParentSteps
<1>5. CASE CleanupRootfs(c)
  <2>1. ns' \in [Containers -> Namespaces]
    <3>1. PICK gone : ns' = NsWithout(RootOf(c), gone)
      BY <1>5 DEF CleanupRootfs
    <3>2. QED BY <3>1, NsWithoutTypes DEF TypeOK, Namespaces
  <2>2. dir' \in [Roots -> {"absent", "partial", "ready"}] /\ putOld' \in [Roots -> BOOLEAN]
    BY <1>1, <1>5 DEF CleanupRootfs, TypeOK
  <2>3. /\ parent' \in [Containers -> ParentSteps]
        /\ result' \in [Containers -> {"none", "ok", "error"}]
        /\ hostMounts' \subseteq Roots
    BY <1>5 DEF CleanupRootfs, Return, TypeOK, ParentSteps
  <2>4. QED BY <1>5, <2>1, <2>2, <2>3 DEF ParentStep, CleanupRootfs, TypeOK, Namespaces
<1>6. QED BY <1>2, <1>3, <1>4, <1>5 DEF ParentStep

LEMMA ChildType ==
  ASSUME TypeOK, NEW c \in Containers, ChildStep(c) \/ OutsideStep(c)
  PROVE  TypeOK'
<1> USE DEF ChildStep, OutsideStep
<1>1. ns \in [Containers -> Namespaces] /\ RootOf(c) \in Roots
  BY Sharing DEF TypeOK, Namespaces
<1>2. child' \in [Containers -> ChildSteps]
  <2>1. child[c] \in Mandatory \cup Lenient => Then(child[c]) \in ChildSteps
    BY ThenType
  <2>2. PICK step \in ChildSteps : child' = [child EXCEPT ![c] = step]
    <3>1. CASE child' = [child EXCEPT ![c] = Then(child[c])] /\ child[c] \in Mandatory \cup Lenient
      BY <2>1, <3>1
    <3>2. CASE \E step \in Ended : child' = [child EXCEPT ![c] = step]
      BY <3>2 DEF ChildSteps
    <3>3. QED
      BY <3>1, <3>2 DEF SetHostname, MakePrivate, BindRoot, CreatePutOld, PivotRoot,
         MountEssential, MountDevExtra, UnmountOld, RemovePutOld, DropCapabilities,
         ApplySeccompFilter, ExecCommand, StepFails, CommandExits, Killed, Advance, Refuse,
         Mandatory, Lenient, Ended
  <2>3. QED BY <2>2 DEF TypeOK
<1>3. ns' \in [Containers -> Namespaces]
  <2>1. CASE RemovePutOld(c)
    BY <1>1, <2>1, NsWithoutTypes DEF RemovePutOld
  <2>2. CASE MakePrivate(c) \/ BindRoot(c) \/ PivotRoot(c) \/ UnmountOld(c)
    BY <1>1, <2>2, NamespaceTypes DEF MakePrivate, BindRoot, PivotRoot, UnmountOld
  <2>3. CASE MountEssential(c) \/ MountDevExtra(c)
    <3>1. \/ ns' = ns
          \/ \E m \in {"proc", "sys", "dev", "dev_extra"} :
               ns' = [ns EXCEPT ![c].mounts = @ \cup {m}]
      BY <2>3 DEF MountEssential, MountDevExtra
    <3>2. \A m \in {"proc", "sys", "dev", "dev_extra"} :
            [ns[c] EXCEPT !.mounts = @ \cup {m}] \in Namespaces
      BY <1>1, NamespaceTypes
    <3>3. QED BY <1>1, <3>1, <3>2
  <2>4. QED
    BY <1>1, <2>1, <2>2, <2>3 DEF SetHostname, CreatePutOld, DropCapabilities,
       ApplySeccompFilter, ExecCommand, StepFails, CommandExits, Killed
<1>4. caps' \in [Containers -> SUBSET Caps] /\ filtered' \in [Containers -> BOOLEAN]
  <2>1. CASE DropCapabilities(c)
    <3>1. \A k \in Caps : Allowed \cup {i \in Caps : i >= k} \in SUBSET Caps
      BY ProcessAssumption
    <3>2. Allowed \in SUBSET Caps
      BY ProcessAssumption
    <3>3. QED BY <2>1, <3>1, <3>2 DEF DropCapabilities, TypeOK
  <2>2. CASE ~DropCapabilities(c)
    BY <2>2 DEF SetHostname, MakePrivate, BindRoot, CreatePutOld, PivotRoot,
       MountEssential, MountDevExtra, UnmountOld, RemovePutOld, ApplySeccompFilter,
       ExecCommand, StepFails, CommandExits, Killed, TypeOK
  <2>3. QED BY <2>1, <2>2
<1>5. putOld' \in [Roots -> BOOLEAN] /\ hostMounts' \subseteq Roots
  BY <1>1 DEF SetHostname, MakePrivate, BindRoot, CreatePutOld, PivotRoot,
     MountEssential, MountDevExtra, UnmountOld, RemovePutOld, DropCapabilities,
     ApplySeccompFilter, ExecCommand, StepFails, CommandExits, Killed, TypeOK
<1>6. UNCHANGED <<config, parent, result>> /\ dir' \in [Roots -> {"absent", "partial", "ready"}]
  BY <1>1 DEF SetHostname, MakePrivate, BindRoot, CreatePutOld, PivotRoot,
     MountEssential, MountDevExtra, UnmountOld, RemovePutOld, DropCapabilities,
     ApplySeccompFilter, ExecCommand, StepFails, CommandExits, Killed, TypeOK
<1>7. QED BY <1>2, <1>3, <1>4, <1>5, <1>6 DEF TypeOK, Namespaces

LEMMA TypeStep == TypeOK /\ [Next]_vars => TypeOK'
<1>1. TypeOK /\ UNCHANGED vars => TypeOK'
  BY DEF vars, TypeOK
<1>2. QED BY <1>1, ParentType, ChildType DEF Next

LEMMA TypeStart == Init => TypeOK
<1> SUFFICES ASSUME Init PROVE TypeOK
  OBVIOUS
<1>1. ns \in [Containers -> Namespaces]
  BY NamespaceTypes DEF Init
<1>2. QED BY <1>1 DEF Init, TypeOK, ParentSteps, ChildSteps, Namespaces

(***************************************************************************)
(* The variables of the containers and of the root directories keep their  *)
(* types; a child is in new namespaces of all four kinds.                  *)
(***************************************************************************)
THEOREM TypeCorrect == Spec => []TypeOK
BY TypeStart, TypeStep, PTL DEF Spec
-----------------------------------------------------------------------------
ContainerStep(c) == ParentStep(c) \/ ChildStep(c) \/ OutsideStep(c)

(***************************************************************************)
(* What a step of c's processes does to another container: removing what   *)
(* they share detaches what is mounted on it; a child removes no more than *)
(* .pivot_root, and a run with a root directory of its own the rest.       *)
(***************************************************************************)
LEMMA OthersUntouched ==
  ASSUME TypeOK, NEW c \in Containers, RootInv(c), ContainerStep(c), NEW d \in Containers, d # c
  PROVE  /\ config' = config
         /\ parent'[d] = parent[d] /\ result'[d] = result[d] /\ child'[d] = child[d]
         /\ \/ ns'[d] = ns[d]
            \/ /\ RootOf(d) = RootOf(c)
               /\ \E gone : /\ ns'[d] = Detach(ns[d], gone)
                            /\ gone = {"put_old"} \/ c \in Owned
<1> USE DEF ContainerStep, ParentStep, ChildStep, OutsideStep
<1>1. config' = config
  OBVIOUS
<1>2. parent'[d] = parent[d] /\ result'[d] = result[d] /\ child'[d] = child[d]
  BY DEF TypeOK, PrepareRootfs, Clone, WaitForChild, CleanupRootfs, Return, SetHostname,
     MakePrivate, BindRoot, CreatePutOld, PivotRoot, MountEssential, MountDevExtra, UnmountOld,
     RemovePutOld, DropCapabilities, ApplySeccompFilter, ExecCommand, StepFails, CommandExits,
     Killed, Advance, Refuse
<1>3. CASE RemovePutOld(c)
  BY <1>1, <1>2, <1>3 DEF RemovePutOld, NsWithout
<1>4. CASE CleanupRootfs(c)
  <2>1. c \in Owned
    BY <1>4 DEF CleanupRootfs, RootInv
  <2>2. PICK gone : ns' = NsWithout(RootOf(c), gone)
    BY <1>4 DEF CleanupRootfs
  <2>3. QED BY <1>1, <1>2, <2>1, <2>2 DEF NsWithout
<1>5. CASE ~RemovePutOld(c) /\ ~CleanupRootfs(c)
  <2>1. ns'[d] = ns[d]
    BY <1>5 DEF TypeOK, PrepareRootfs, Clone, WaitForChild, SetHostname,
       MakePrivate, BindRoot, CreatePutOld, PivotRoot, MountEssential, MountDevExtra,
       UnmountOld, DropCapabilities, ApplySeccompFilter, ExecCommand, StepFails,
       CommandExits, Killed
  <2>2. QED BY <1>1, <1>2, <2>1
<1>6. QED BY <1>3, <1>4, <1>5

(* The processes of a container touch no root directory but its own.       *)
LEMMA OtherRootsUntouched ==
  ASSUME TypeOK, NEW c \in Containers, ContainerStep(c), NEW r \in Roots, r # RootOf(c)
  PROVE  dir'[r] = dir[r] /\ putOld'[r] = putOld[r]
BY DEF TypeOK, ContainerStep, ParentStep, ChildStep, OutsideStep, PrepareRootfs, Clone,
   WaitForChild, CleanupRootfs, SetHostname, MakePrivate, BindRoot, CreatePutOld, PivotRoot,
   MountEssential, MountDevExtra, UnmountOld, RemovePutOld, DropCapabilities,
   ApplySeccompFilter, ExecCommand, StepFails, CommandExits, Killed

(* Those of a container that does not own its root directory touch none.   *)
LEMMA OwnersOnly ==
  ASSUME TypeOK, NEW c \in Containers, RootInv(c), ContainerStep(c), c \notin Owned
  PROVE  dir' = dir
<1> USE DEF ContainerStep, ParentStep, ChildStep, OutsideStep
<1>1. CASE CreatePutOld(c)
  BY <1>1 DEF CreatePutOld, RootInv, TypeOK
<1>2. CASE ~CreatePutOld(c)
  BY <1>2 DEF RootInv, PrepareRootfs, Clone, WaitForChild, CleanupRootfs, SetHostname,
     MakePrivate, BindRoot, PivotRoot, MountEssential, MountDevExtra, UnmountOld, RemovePutOld,
     DropCapabilities, ApplySeccompFilter, ExecCommand, StepFails, CommandExits, Killed
<1>3. QED BY <1>1, <1>2

LEMMA OtherStep ==
  ASSUME ContainerInv, NEW c \in Containers, ContainerStep(c), NEW d \in Containers, d # c
  PROVE  NamespaceInv(d)' /\ RootInv(d)' /\ AloneInv(d)'
<1>1. TypeOK /\ NamespaceInv(d) /\ RootInv(d) /\ AloneInv(d) /\ RootInv(c)
  BY DEF ContainerInv
<1>2. /\ config' = config
      /\ parent'[d] = parent[d] /\ result'[d] = result[d] /\ child'[d] = child[d]
      /\ \/ ns'[d] = ns[d]
         \/ /\ RootOf(d) = RootOf(c)
            /\ \E gone : ns'[d] = Detach(ns[d], gone) /\ (gone = {"put_old"} \/ c \in Owned)
  BY <1>1, OthersUntouched
<1>3. /\ RootOf(d)' = RootOf(d) /\ (Alone(d)' <=> Alone(d)) /\ Owned' = Owned
      /\ Undisturbed(d)' <=> Undisturbed(d)
  BY <1>2 DEF RootOf, Alone, Owned, Undisturbed
<1>4. Alone(d) => RootOf(d) # RootOf(c)
  BY DEF Alone
<1>5. RootOf(d) \in Roots
  BY <1>1, Sharing
<1>6. NamespaceInv(d)'
  <2>1. CASE ns'[d] = ns[d]
    BY <1>1, <1>2, <1>3, <2>1 DEF NamespaceInv, PrivateInv, MountsInv
  <2>2. CASE ns'[d] # ns[d]
    <3>1. PICK gone : /\ ns'[d] = Detach(ns[d], gone) /\ RootOf(d) = RootOf(c)
                      /\ gone = {"put_old"} \/ c \in Owned
      BY <1>2, <2>2
    <3>2. ns[d] \in Namespaces
      BY <1>1 DEF TypeOK, Namespaces
    <3>3. PrivateInv(d)'
      <4>1. PrivateInv(d)
        BY <1>1 DEF NamespaceInv
      <4>2. /\ ns'[d].private = ns[d].private /\ (ns'[d].root = "host" <=> ns[d].root = "host")
            /\ ns[d].old = "detached" => ns'[d].old = "detached"
        BY <3>1, <3>2, Detaching
      <4>3. QED BY <1>2, <4>1, <4>2 DEF PrivateInv
    <3>4. Undisturbed(d) => MountsInv(d)'
      <4> SUFFICES ASSUME Undisturbed(d) PROVE MountsInv(d)'
        OBVIOUS
      <4>1. gone = {"put_old"}
        <5>1. d \notin Owned
          BY <1>4, <3>1 DEF Undisturbed
        <5>2. QED BY <1>1, <3>1, <5>1, Sharing
      <4>2. ns'[d].root = ns[d].root
        BY <3>1, <3>2, <4>1, Detaching
      <4>3. {"root", "proc", "sys", "dev"} \cap ns[d].mounts \subseteq ns'[d].mounts
        BY <3>1, <3>2, <4>1, Detaching
      <4>4. MountsInv(d)
        BY <1>1 DEF NamespaceInv
      <4>5. QED BY <1>2, <4>2, <4>3, <4>4 DEF MountsInv
    <3>5. QED BY <1>3, <3>3, <3>4 DEF NamespaceInv
  <2>3. QED BY <2>1, <2>2
<1>7. RootInv(d)'
  <2>1. (d \notin Owned \/ Alone(d)) => dir'[RootOf(d)] = dir[RootOf(d)]
    <3>1. CASE RootOf(d) # RootOf(c)
      BY <1>1, <1>5, <3>1, OtherRootsUntouched
    <3>2. CASE RootOf(d) = RootOf(c) /\ d \notin Owned
      <4>1. c \notin Owned
        BY <1>1, <3>2, Sharing
      <4>2. QED BY <1>1, <4>1, OwnersOnly
    <3>3. QED BY <1>4, <3>1, <3>2
  <2>2. QED BY <1>1, <1>2, <1>3, <2>1 DEF RootInv, Alive
<1>8. AloneInv(d)'
  <2>1. CASE Alone(d)
    <3>1. putOld'[RootOf(d)] = putOld[RootOf(d)] /\ ns'[d] = ns[d]
      BY <1>1, <1>2, <1>4, <1>5, <2>1, OtherRootsUntouched
    <3>2. QED BY <1>1, <1>2, <1>3, <2>1, <3>1 DEF AloneInv
  <2>2. CASE ~Alone(d)
    BY <1>3, <2>2 DEF AloneInv
  <2>3. QED BY <2>1, <2>2
<1>9. QED BY <1>6, <1>7, <1>8
-----------------------------------------------------------------------------
LEMMA OwnParentStep ==
  ASSUME ContainerInv, NEW c \in Containers, ParentStep(c)
  PROVE  NamespaceInv(c)' /\ RootInv(c)' /\ AloneInv(c)'
<1>1. TypeOK /\ NamespaceInv(c) /\ RootInv(c) /\ AloneInv(c) /\ RootOf(c) \in Roots
  BY Sharing DEF ContainerInv
<1>2. /\ RootOf(c)' = RootOf(c) /\ (Alone(c)' <=> Alone(c)) /\ Owned' = Owned
      /\ (c \in Detached => c \notin Owned)
      /\ Undisturbed(c)' <=> Undisturbed(c)
  BY <1>1, Sharing DEF ParentStep, RootOf, Alone, Owned, Undisturbed
<1>3. CASE PrepareRootfs(c)
  <2>1. child[c] = "none" /\ UNCHANGED <<child, ns, putOld>>
    BY <1>1, <1>3 DEF PrepareRootfs, RootInv
  <2>2. RootInv(c)'
    <3>1. CASE c \in Owned /\ parent'[c] = "clone"
      <4>1. dir'[RootOf(c)] = "ready"
        BY <1>1, <1>3, <3>1 DEF PrepareRootfs, Return, TypeOK
      <4>2. QED BY <1>1, <1>2, <2>1, <3>1, <4>1 DEF RootInv, Alive
    <3>2. CASE c \in Owned /\ parent'[c] # "clone"
      <4>1. parent'[c] = "returned" /\ result'[c] = "error"
        BY <1>1, <1>3, <3>2 DEF PrepareRootfs, Return, TypeOK
      <4>2. QED BY <1>2, <2>1, <3>2, <4>1 DEF RootInv, Alive
    <3>3. CASE c \notin Owned
      <4>1. parent'[c] = "clone" /\ dir' = dir
        BY <1>1, <1>3, <3>3 DEF PrepareRootfs, TypeOK
      <4>2. QED BY <1>1, <1>2, <2>1, <3>3, <4>1 DEF RootInv, Alive
    <3>4. QED BY <3>1, <3>2, <3>3
  <2>3. QED BY <1>1, <1>2, <2>1, <2>2 DEF NamespaceInv, PrivateInv, MountsInv, AloneInv
<1>4. CASE Clone(c)
  <2>1. child[c] = "none" /\ parent[c] = "clone" /\ UNCHANGED <<dir, putOld>>
    BY <1>1, <1>4 DEF Clone, RootInv
  <2>2. CASE child'[c] = "hostname"
    <3>1. /\ parent'[c] = "wait" \/ (c \in Detached /\ parent'[c] = "returned")
      BY <1>1, <1>4, <2>2, <2>1 DEF Clone, Return, TypeOK
    <3>2. RootInv(c)'
      BY <1>1, <1>2, <2>1, <2>2, <3>1 DEF RootInv, Alive, Ended
    <3>3. NamespaceInv(c)' /\ AloneInv(c)'
      BY <2>2 DEF NamespaceInv, PrivateInv, MountsInv, AloneInv, WithOldRoot, FromBind, FromPutOld, FromProc, FromSys,
         FromDev, FromDevExtra, FromRmPutOld
    <3>4. QED BY <3>2, <3>3
  <2>3. CASE child'[c] # "hostname"
    <3>1. parent'[c] = "returned" /\ result'[c] = "error" /\ UNCHANGED <<child, ns>>
      BY <1>1, <1>4, <2>3 DEF Clone, Return, TypeOK
    <3>2. QED
      BY <1>1, <1>2, <2>1, <3>1 DEF RootInv, NamespaceInv, PrivateInv, MountsInv, AloneInv, Alive
  <2>4. QED BY <2>2, <2>3
<1>5. CASE WaitForChild(c)
  <2>1. parent[c] = "wait" /\ UNCHANGED <<child, ns, dir, putOld>>
    BY <1>5 DEF WaitForChild
  <2>2. \/ parent'[c] = "cleanup" /\ c \in Owned /\ ~Alive(c) /\ result' = result
        \/ parent'[c] = "returned" /\ c \notin Owned
        \/ parent'[c] = "returned" /\ result'[c] = "error"
    BY <1>1, <1>5 DEF WaitForChild, Return, TypeOK, Alive
  <2>3. RootInv(c)'
    BY <1>1, <1>2, <2>1, <2>2 DEF RootInv, Alive
  <2>4. QED BY <1>1, <1>2, <2>1, <2>3 DEF NamespaceInv, PrivateInv, MountsInv, AloneInv
<1>6. CASE CleanupRootfs(c)
  <2>1. /\ parent[c] = "cleanup" /\ UNCHANGED child
        /\ c \in Owned /\ ~Alive(c) /\ parent'[c] = "returned"
    BY <1>1, <1>6 DEF CleanupRootfs, Return, TypeOK, RootInv
  <2>2. result'[c] = "error" \/ dir'[RootOf(c)] = "absent"
    BY <1>1, <1>6 DEF CleanupRootfs, Return, TypeOK
  <2>3. RootInv(c)'
    BY <1>2, <2>1, <2>2 DEF RootInv, Alive
  <2>4. child[c] \notin {"pivot"} \cup WithOldRoot
    BY <2>1 DEF Alive, Ended, WithOldRoot
  <2>5. ns'[c] = ns[c]
    BY <1>6, <2>1 DEF CleanupRootfs, NsWithout
  <2>6. QED BY <1>1, <1>2, <2>1, <2>3, <2>4, <2>5 DEF NamespaceInv, PrivateInv, MountsInv, AloneInv
<1>7. QED BY <1>3, <1>4, <1>5, <1>6 DEF ParentStep

(***************************************************************************)
(* The child's own steps follow the order of container_init.               *)
(***************************************************************************)
LEMMA OwnNamespaceStep ==
  ASSUME ContainerInv, NEW c \in Containers, ChildStep(c) \/ OutsideStep(c)
  PROVE  NamespaceInv(c)'
<1>1. /\ PrivateInv(c) /\ (Undisturbed(c) => MountsInv(c)) /\ child \in [Containers -> ChildSteps]
      /\ ns \in [Containers -> Namespaces]
  BY DEF ContainerInv, TypeOK, Namespaces, NamespaceInv
<1>2. Undisturbed(c)' <=> Undisturbed(c)
  BY DEF ChildStep, OutsideStep, Undisturbed, Alone, Owned, RootOf
<1> SUFFICES PrivateInv(c)' /\ (Undisturbed(c) => MountsInv(c)')
  BY <1>2 DEF NamespaceInv
<1> USE DEF PrivateInv, MountsInv, FromBind, FromPutOld, FromProc, FromSys, FromDev,
            FromDevExtra, FromRmPutOld, Advance, Then
<1>3. CASE SetHostname(c) \/ MakePrivate(c)
  BY <1>1, <1>3 DEF SetHostname, MakePrivate, Namespaces
<1>4. CASE BindRoot(c)
  BY <1>1, <1>4 DEF BindRoot, Refuse, Namespaces
<1>5. CASE CreatePutOld(c)
  BY <1>1, <1>5 DEF CreatePutOld
<1>6. CASE PivotRoot(c)
  BY <1>1, <1>6 DEF PivotRoot, Refuse, Namespaces
<1>7. CASE MountEssential(c)
  <2>1. CASE child[c] = "proc"
    BY <1>1, <1>7, <2>1 DEF MountEssential, Refuse, Namespaces
  <2>2. CASE child[c] = "sys"
    BY <1>1, <1>7, <2>2 DEF MountEssential, Refuse, Namespaces
  <2>3. CASE child[c] = "dev"
    BY <1>1, <1>7, <2>3 DEF MountEssential, Refuse, Namespaces
  <2>4. QED BY <1>7, <2>1, <2>2, <2>3 DEF MountEssential
<1>8. CASE MountDevExtra(c)
  BY <1>1, <1>8 DEF MountDevExtra, Namespaces
<1>9. CASE UnmountOld(c)
  BY <1>1, <1>9 DEF UnmountOld, Refuse, Namespaces
<1>10. CASE RemovePutOld(c)
  <2>1. child[c] = "rm_put_old" /\ child'[c] = "caps"
    BY <1>1, <1>10 DEF RemovePutOld
  <2>2. /\ ns'[c].private = ns[c].private /\ ns'[c].root = ns[c].root
        /\ ns[c].old = "detached" => ns'[c].old = "detached"
        /\ {"root", "proc", "sys", "dev"} \cap ns[c].mounts \subseteq ns'[c].mounts
    <3>1. ns'[c] = Detach(ns[c], {"put_old"}) \/ ns'[c] = ns[c]
      BY <1>10 DEF RemovePutOld, NsWithout
    <3>2. QED BY <1>1, <3>1, Detaching
  <2>3. QED BY <1>1, <2>1, <2>2
<1>11. CASE DropCapabilities(c)
  BY <1>1, <1>11 DEF DropCapabilities
<1>12. CASE ApplySeccompFilter(c)
  BY <1>1, <1>12 DEF ApplySeccompFilter
<1>13. CASE ExecCommand(c)
  BY <1>1, <1>13 DEF ExecCommand, Refuse
<1>14. CASE StepFails(c) \/ CommandExits(c) \/ Killed(c)
  BY <1>1, <1>14 DEF StepFails, CommandExits, Killed
<1>15. QED
  BY <1>3, <1>4, <1>5, <1>6, <1>7, <1>8, <1>9, <1>10, <1>11, <1>12, <1>13, <1>14
     DEF ChildStep, OutsideStep

(* A child's steps leave the parent alone, and its root directory too if   *)
(* that is there.                                                          *)
LEMMA ChildLeaves ==
  ASSUME TypeOK, NEW c \in Containers, ChildStep(c) \/ OutsideStep(c)
  PROVE  /\ Alive(c)
         /\ child'[c] # "none"
         /\ UNCHANGED <<config, parent, result>>
         /\ dir[RootOf(c)] # "absent" => dir'[RootOf(c)] = dir[RootOf(c)]
<1> USE DEF ChildStep, OutsideStep, SetHostname, MakePrivate, BindRoot, CreatePutOld,
            PivotRoot, MountEssential, MountDevExtra, UnmountOld, RemovePutOld,
            DropCapabilities, ApplySeccompFilter, ExecCommand, StepFails, CommandExits, Killed
<1>1. UNCHANGED <<config, parent, result>>
  OBVIOUS
<1>2. Alive(c)
  BY DEF Alive, Ended, Mandatory
<1>3. child'[c] # "none"
  BY DEF Advance, Refuse, Then, Mandatory, TypeOK
<1>4. dir[RootOf(c)] # "absent" => dir'[RootOf(c)] = dir[RootOf(c)]
  BY DEF TypeOK
<1>5. QED BY <1>1, <1>2, <1>3, <1>4

LEMMA OwnRootStep ==
  ASSUME ContainerInv, NEW c \in Containers, ChildStep(c) \/ OutsideStep(c)
  PROVE  RootInv(c)'
<1>1. TypeOK /\ RootInv(c)
  BY DEF ContainerInv
<1>2. /\ Alive(c) /\ child'[c] # "none" /\ UNCHANGED <<config, parent, result>>
      /\ dir[RootOf(c)] # "absent" => dir'[RootOf(c)] = dir[RootOf(c)]
  BY <1>1, ChildLeaves
<1>3. RootOf(c)' = RootOf(c) /\ (Alone(c)' <=> Alone(c)) /\ Owned' = Owned
  BY <1>2 DEF RootOf, Alone, Owned
<1>4. parent[c] \notin {"new", "clone", "cleanup"}
  BY <1>1, <1>2 DEF RootInv, Alive
<1>5. QED BY <1>1, <1>2, <1>3, <1>4 DEF RootInv

(***************************************************************************)
(* While a container lives on a root directory of its own the directory is *)
(* complete, so no step of it is refused.                                  *)
(***************************************************************************)
LEMMA OwnAloneStep ==
  ASSUME ContainerInv, NEW c \in Containers, ChildStep(c) \/ OutsideStep(c)
  PROVE  AloneInv(c)'
<1>1. /\ TypeOK /\ RootInv(c) /\ AloneInv(c) /\ NamespaceInv(c) /\ child \in [Containers -> ChildSteps]
      /\ ns \in [Containers -> Namespaces] /\ putOld \in [Roots -> BOOLEAN]
      /\ RootOf(c) \in Roots
  BY Sharing DEF ContainerInv, TypeOK, Namespaces
<1>2. Alive(c) /\ UNCHANGED <<config, parent, result>>
  BY <1>1, ChildLeaves
<1>3. RootOf(c)' = RootOf(c) /\ (Alone(c)' <=> Alone(c))
  BY <1>2 DEF RootOf, Alone
<1> SUFFICES ASSUME Alone(c)
             PROVE  /\ child'[c] # "refused"
                    /\ child'[c] = "pivot" => putOld'[RootOf(c)]
                    /\ child'[c] \in WithOldRoot => ns'[c].old = "attached"
  BY <1>3 DEF AloneInv
<1>4. /\ dir[RootOf(c)] = "ready"
      /\ child[c] \in FromPutOld => "root" \in ns[c].mounts
      /\ child[c] \in FromProc => ns[c].root = "new"
  BY <1>1, <1>2 DEF RootInv, NamespaceInv, MountsInv, Undisturbed
<1>5. /\ child[c] # "refused"
      /\ child[c] = "pivot" => putOld[RootOf(c)]
      /\ child[c] \in WithOldRoot => ns[c].old = "attached"
  BY <1>1 DEF AloneInv
<1> USE DEF Advance, Then, WithOldRoot
<1>6. CASE SetHostname(c) \/ MakePrivate(c) \/ BindRoot(c)
  BY <1>1, <1>4, <1>6 DEF SetHostname, MakePrivate, BindRoot
<1>7. CASE CreatePutOld(c)
  BY <1>1, <1>4, <1>7 DEF CreatePutOld
<1>8. CASE PivotRoot(c)
  BY <1>1, <1>4, <1>5, <1>8 DEF PivotRoot, Namespaces, FromPutOld
<1>9. CASE MountEssential(c)
  BY <1>1, <1>4, <1>5, <1>9 DEF MountEssential, Namespaces, FromProc, FromSys, FromDev
<1>10. CASE MountDevExtra(c)
  BY <1>1, <1>5, <1>10 DEF MountDevExtra, Namespaces
<1>11. CASE UnmountOld(c)
  BY <1>1, <1>5, <1>11 DEF UnmountOld
<1>12. CASE RemovePutOld(c) \/ DropCapabilities(c) \/ ApplySeccompFilter(c)
  BY <1>1, <1>12 DEF RemovePutOld, DropCapabilities, ApplySeccompFilter
<1>13. CASE ExecCommand(c)
  BY <1>1, <1>4, <1>13 DEF ExecCommand, FromProc, FromSys, FromDev, FromDevExtra, FromRmPutOld
<1>14. CASE StepFails(c) \/ CommandExits(c) \/ Killed(c)
  BY <1>1, <1>14 DEF StepFails, CommandExits, Killed
<1>15. QED
  BY <1>6, <1>7, <1>8, <1>9, <1>10, <1>11, <1>12, <1>13, <1>14 DEF ChildStep, OutsideStep

(* The only mount that could propagate is made in a private namespace.     *)
LEMMA HostStep ==
  ASSUME ContainerInv, NEW c \in Containers, ContainerStep(c)
  PROVE  hostMounts' = {}
BY DEF ContainerInv, NamespaceInv, PrivateInv, FromBind, ContainerStep, ParentStep, ChildStep, OutsideStep,
   PrepareRootfs, Clone, WaitForChild, CleanupRootfs, SetHostname, MakePrivate, BindRoot,
   CreatePutOld, PivotRoot, MountEssential, MountDevExtra, UnmountOld, RemovePutOld,
   DropCapabilities, ApplySeccompFilter, ExecCommand, StepFails, CommandExits, Killed

LEMMA ContainerInvariant == Spec => []ContainerInv
<1>1. Init => ContainerInv
  <2> SUFFICES ASSUME Init PROVE ContainerInv
    OBVIOUS
  <2>1. TypeOK
    BY TypeStart
  <2>2. ASSUME NEW c \in Containers PROVE NamespaceInv(c) /\ RootInv(c) /\ AloneInv(c)
    <3>1. c \notin Owned => dir[RootOf(c)] = "ready"
      BY <2>1, Sharing DEF Init, UserRoots
    <3>2. child[c] = "none" /\ parent[c] = "new"
      BY DEF Init
    <3>3. NamespaceInv(c) /\ AloneInv(c)
      BY <3>2 DEF NamespaceInv, PrivateInv, MountsInv, AloneInv, WithOldRoot, FromBind, FromPutOld, FromProc, FromSys,
         FromDev, FromDevExtra, FromRmPutOld
    <3>4. RootInv(c)
      BY <3>1, <3>2 DEF RootInv, Alive
    <3>5. QED BY <3>3, <3>4
  <2>3. QED BY <2>1, <2>2 DEF ContainerInv, Init
<1>2. ContainerInv /\ [Next]_vars => ContainerInv'
  <2> SUFFICES ASSUME ContainerInv, [Next]_vars PROVE ContainerInv'
    OBVIOUS
  <2>1. ASSUME NEW c \in Containers, ContainerStep(c) PROVE ContainerInv'
    <3>1. TypeOK'
      BY <2>1, TypeStep DEF ContainerInv, Next, ContainerStep
    <3>2. NamespaceInv(c)' /\ RootInv(c)' /\ AloneInv(c)'
      BY <2>1, OwnParentStep, OwnNamespaceStep, OwnRootStep, OwnAloneStep DEF ContainerStep
    <3>3. QED BY <2>1, <3>1, <3>2, OtherStep, HostStep DEF ContainerInv
  <2>2. CASE UNCHANGED vars
    BY <2>2 DEF vars, ContainerInv, TypeOK, NamespaceInv, PrivateInv, MountsInv, RootInv,
       AloneInv, Alive, Alone, Undisturbed, Owned, RootOf
  <2>3. QED BY <2>1, <2>2 DEF Next, ContainerStep
<1>3. QED BY <1>1, <1>2, PTL DEF Spec

-----------------------------------------------------------------------------
(***************************************************************************)
(* However container_init fails, and whatever other runs remove, a command *)
(* never sees the host's root and shares no mount with the host; its root  *)
(* directory, /proc, /sys and /dev stay mounted unless another run had its *)
(* identifier, the one company in which a removal can take them away.      *)
(***************************************************************************)
THEOREM Confined == Spec => []CommandIsConfined
<1>1. ContainerInv => CommandIsConfined
  BY DEF ContainerInv, NamespaceInv, PrivateInv, MountsInv, CommandIsConfined, FromBind, FromPutOld, FromProc, FromSys,
     FromDev, FromDevExtra, FromRmPutOld
<1>2. QED BY <1>1, ContainerInvariant, PTL

(***************************************************************************)
(* The mounts of setup_mount_namespace never reach the host's table, so    *)
(* cleanup_rootfs removes directories and nothing that is mounted on them. *)
(***************************************************************************)
THEOREM HostUntouched == Spec => []HostMountsUntouched
<1>1. ContainerInv => HostMountsUntouched
  BY DEF ContainerInv, HostMountsUntouched
<1>2. QED BY <1>1, ContainerInvariant, PTL

(***************************************************************************)
(* A root directory stays while a container lives on it, also when waitpid *)
(* fails and run returns before the container has ended.                   *)
(***************************************************************************)
THEOREM RootOutlives == Spec => []RootOutlivesContainer
<1>1. ContainerInv => RootOutlivesContainer
  BY DEF ContainerInv, RootInv, RootOutlivesContainer, Undisturbed
<1>2. QED BY <1>1, ContainerInvariant, PTL

(***************************************************************************)
(* run removes the root directory it made when it succeeds, and none ever  *)
(* harms a directory that the user gave.                                   *)
(***************************************************************************)
THEOREM RootfsOwned == Spec => []RootfsOwnership
<1>1. ContainerInv => RootfsOwnership
  BY DEF ContainerInv, RootInv, RootfsOwnership
<1>2. QED BY <1>1, ContainerInvariant, PTL

(***************************************************************************)
(* The initialisation of a container that is alone on its root directory   *)
(* is never refused for what an earlier step of it did or left out.        *)
(***************************************************************************)
THEOREM NeverRefused == Spec => []InitNeverRefused
<1>1. ContainerInv => InitNeverRefused
  BY DEF ContainerInv, AloneInv, InitNeverRefused
<1>2. QED BY <1>1, ContainerInvariant, PTL
=============================================================================
