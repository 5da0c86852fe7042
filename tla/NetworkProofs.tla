---------------------------- MODULE NetworkProofs ----------------------------
(***************************************************************************)
(* Proofs about Network, for any containers, processes and bounds: whose   *)
(* the veth pairs and the host's eth0 are when no two identifiers have the *)
(* same first eight characters, and which addresses are in use while no    *)
(* counter has wrapped around.                                             *)
(***************************************************************************)
EXTENDS Network, TLAPS

(* No two containers name their host interface alike.                      *)
DistinctPrefixes == \A c, d \in Containers : Prefix(c) = Prefix(d) => c = d

(* All tasks run in one process, with one IP_COUNTER.                      *)
OneCounter == \A c, d \in Containers : ProcOf(c) = ProcOf(d)

(* No IP_COUNTER is about to wrap around, after 2^32 - 3 allocations.      *)
CountersBelowWrap == \A p \in Procs : counter[p] + 1 < CounterMod

(* Between AddVeth and the end of create_container_network.                *)
Creating == CreateSteps \ {"add_veth"}

(***************************************************************************)
(* What the step of c's task says of the pair under c's name: it is there  *)
(* and c's from AddVeth on, complete once create_container_network has     *)
(* returned, and complete or gone when cleanup finds it.                   *)
(***************************************************************************)
PairInv(c) ==
  LET v == veth_host_name(c)
      l == link[v] IN
  /\ l.owner = IF l.there THEN {c} ELSE {}
  /\ pc[c] \in Creating \cup {"held", "running"} => l.there
  /\ pc[c] \in Creating => l.ips = {} /\ eth0 = v
  /\ pc[c] \in {"up", "allocate", "assign"} => l.attached
  /\ pc[c] \in {"allocate", "assign"} => l.up
  /\ pc[c] \in {"held", "running"} \/ (pc[c] = "delete_veth" /\ l.there) =>
       l.attached /\ l.up /\ l.ips = {ip[c]}
  /\ pc[c] = "held" => eth0 = v
  /\ pc[c] = "running" => eth0 # v
  /\ pc[c] = "exited" => ~l.there

HostEth0 == eth0 # NoVeth => link[eth0].there

PairsInv == TypeOK /\ (\A c \in Containers : PairInv(c)) /\ HostEth0

-----------------------------------------------------------------------------
Pair == [there : BOOLEAN, owner : SUBSET Containers, attached : BOOLEAN, up : BOOLEAN,
         ips : SUBSET (0..PoolMax)]

LEMMA PairTypes ==
  /\ NoPair \in Pair
  /\ \A c \in Containers : NewPair(c) \in Pair
  /\ \A l \in Pair : /\ [l EXCEPT !.attached = TRUE] \in Pair
                     /\ [l EXCEPT !.up = TRUE] \in Pair
                     /\ \A a \in 0..PoolMax : [l EXCEPT !.ips = @ \cup {a}] \in Pair
BY DEF Pair, NoPair, NewPair

(***************************************************************************)
(* Every step keeps the variables well typed.                              *)
(***************************************************************************)
LEMMA TypeStart == Init => TypeOK
<1> SUFFICES ASSUME Init PROVE TypeOK
  OBVIOUS
<1>1. link \in [Veths -> Pair]
  BY PairTypes DEF Init
<1>2. 2 \in 0..(CounterMod - 1) /\ 0 \in 0..MaxSetups /\ 0 \in 0..MaxTries /\ 0 \in 0..PoolMax
  BY NetworkAssumption
<1>3. QED BY <1>1, <1>2 DEF Init, TypeOK, Pair

LEMMA SetupType ==
  ASSUME TypeOK, NEW p \in Procs, CallSetupBridge(p) \/ SetupStep(p)
  PROVE  TypeOK'
<1>1. setups' \in [Procs -> 0..MaxSetups]
  <2>1. CASE CallSetupBridge(p)
    <3>1. setups[p] + 1 \in 0..MaxSetups
      BY <2>1, NetworkAssumption DEF CallSetupBridge, TypeOK
    <3>2. QED BY <2>1, <3>1 DEF CallSetupBridge, TypeOK
  <2>2. CASE SetupStep(p)
    BY <2>2 DEF SetupStep, AddBridge, BridgeUp, AddGateway, AppendRule, EnableForwarding,
       SetupFails, TypeOK
  <2>3. QED BY <2>1, <2>2
<1>2. UNCHANGED <<counter, pc, tries, link, eth0, ip>>
  BY DEF CallSetupBridge, SetupStep, AddBridge, BridgeUp, AddGateway, AppendRule,
     EnableForwarding, SetupFails
<1>3. setup' \in [Procs -> {"idle", "add_bridge", "up", "address", "nat", "forward"}]
  BY DEF CallSetupBridge, SetupStep, AddBridge, BridgeUp, AddGateway, AppendRule,
     EnableForwarding, SetupFails, Setting, TypeOK
<1>4. bridge' \in {"absent", "down", "up"} /\ gateway' \in BOOLEAN /\ forward' \in BOOLEAN
  BY DEF CallSetupBridge, SetupStep, AddBridge, BridgeUp, AddGateway, AppendRule,
     EnableForwarding, SetupFails, TypeOK
<1>5. rules' \in Nat
  BY DEF CallSetupBridge, SetupStep, AddBridge, BridgeUp, AddGateway, AppendRule,
     EnableForwarding, SetupFails, TypeOK
<1>6. QED BY <1>1, <1>2, <1>3, <1>4, <1>5 DEF TypeOK

PCs == {"idle"} \cup CreateSteps \cup CleanupSteps \cup Holding

LEMMA GoType ==
  ASSUME TypeOK, NEW c \in Containers, NEW to \in PCs, Go(c, to)
  PROVE  pc' \in [Containers -> PCs]
BY DEF TypeOK, Go, PCs

LEMMA CreateType ==
  ASSUME TypeOK, NEW c \in Containers, CallCreate(c) \/ CreateStep(c)
  PROVE  TypeOK'
<1> DEFINE v == veth_host_name(c)
<1> USE DEF PCs, CreateSteps, CleanupSteps, Holding
<1>1. link \in [Veths -> Pair] /\ v \in Veths /\ ProcOf(c) \in Procs
  BY NetworkAssumption DEF TypeOK, Pair, Veths
<1> HIDE DEF v
<1>2. CASE CallCreate(c)
  <2>1. tries[c] + 1 \in 0..MaxTries
    BY <1>2, NetworkAssumption DEF CallCreate, TypeOK
  <2>2. pc' \in [Containers -> PCs]
    BY <1>2, GoType DEF CallCreate
  <2>3. QED BY <1>2, <2>1, <2>2 DEF CallCreate, TypeOK, bridgeVars
<1>3. CASE AddVeth(c)
  <2>1. link' \in [Veths -> Pair] /\ eth0' \in Veths \cup {NoVeth}
    BY <1>1, <1>3, PairTypes DEF AddVeth, v, TypeOK
  <2>2. pc' \in [Containers -> PCs]
    BY <1>3, GoType DEF AddVeth
  <2>3. QED BY <1>3, <2>1, <2>2 DEF AddVeth, TypeOK, bridgeVars, Pair
<1>4. CASE Attach(c)
  <2>1. link' \in [Veths -> Pair]
    BY <1>1, <1>4, PairTypes DEF Attach, v
  <2>2. pc' \in [Containers -> PCs]
    BY <1>4, GoType DEF Attach
  <2>3. QED BY <1>4, <2>1, <2>2 DEF Attach, TypeOK, bridgeVars, Pair
<1>5. CASE VethUp(c)
  <2>1. link' \in [Veths -> Pair]
    BY <1>1, <1>5, PairTypes DEF VethUp, v
  <2>2. pc' \in [Containers -> PCs]
    BY <1>5, GoType DEF VethUp
  <2>3. QED BY <1>5, <2>1, <2>2 DEF VethUp, TypeOK, bridgeVars, Pair
<1>6. CASE AllocateIp(c)
  <2>1. counter[ProcOf(c)] \in Nat /\ counter[ProcOf(c)] < CounterMod
    BY <1>1, NetworkAssumption DEF TypeOK
  <2>2. (counter[ProcOf(c)] + 1) % CounterMod \in 0..(CounterMod - 1)
    BY <2>1, NetworkAssumption
  <2>3. counter' \in [Procs -> 0..(CounterMod - 1)]
    BY <1>1, <1>6, <2>2 DEF AllocateIp, TypeOK
  <2>4. ip' \in [Containers -> 0..PoolMax]
    BY <1>6, <2>1, NetworkAssumption DEF AllocateIp, TypeOK
  <2>5. pc' \in [Containers -> PCs]
    BY <1>6, GoType DEF AllocateIp
  <2>6. QED BY <1>6, <2>3, <2>4, <2>5 DEF AllocateIp, TypeOK, bridgeVars
<1>7. CASE Assign(c)
  <2>1. CASE eth0 # NoVeth
    <3>1. eth0 \in Veths /\ ip[c] \in 0..PoolMax
      BY <2>1 DEF TypeOK
    <3>2. [link[eth0] EXCEPT !.ips = @ \cup {ip[c]}] \in Pair
      BY <1>1, <3>1, PairTypes
    <3>3. link' \in [Veths -> Pair]
      BY <1>1, <1>7, <2>1, <3>2 DEF Assign
    <3>4. pc' \in [Containers -> PCs]
      BY <1>7, GoType DEF Assign
    <3>5. QED BY <1>7, <3>3, <3>4 DEF Assign, TypeOK, bridgeVars, Pair
  <2>2. CASE eth0 = NoVeth
    BY <1>7, <2>2 DEF Assign, Go, TypeOK, bridgeVars
  <2>3. QED BY <2>1, <2>2
<1>8. CASE CreateFails(c)
  BY <1>8 DEF CreateFails, Go, TypeOK, bridgeVars
<1>9. QED
  BY <1>2, <1>3, <1>4, <1>5, <1>6, <1>7, <1>8 DEF CreateStep

LEMMA CleanupType ==
  ASSUME TypeOK, NEW c \in Containers,
         \/ MoveEth0(c) \/ ContainerExits(c) \/ LeftPairGoes(c)
         \/ CallCleanup(c) \/ CleanupStep(c)
  PROVE  TypeOK'
<1> USE DEF PCs, CreateSteps, CleanupSteps, Holding
<1>1. link \in [Veths -> Pair]
  BY DEF TypeOK, Pair
<1>2. link' \in [Veths -> Pair]
  <2>1. CASE ContainerExits(c)
    BY <1>1, <2>1, PairTypes DEF ContainerExits
  <2>2. CASE DeleteVeth(c)
    BY <1>1, <2>2, PairTypes DEF DeleteVeth
  <2>3. CASE LeftPairGoes(c)
    BY <1>1, <2>3, PairTypes DEF LeftPairGoes
  <2>4. QED
    BY <1>1, <2>1, <2>2, <2>3 DEF MoveEth0, CallCleanup, CleanupStep, DeleteVethFails, DeleteRule
<1>3. pc' \in [Containers -> PCs]
  BY DEF MoveEth0, ContainerExits, LeftPairGoes, CallCleanup, CleanupStep, DeleteVeth,
     DeleteVethFails, DeleteRule, Go, TypeOK
<1>4. eth0' \in Veths \cup {NoVeth} /\ rules' \in Nat
  BY DEF MoveEth0, ContainerExits, LeftPairGoes, CallCleanup, CleanupStep, DeleteVeth,
     DeleteVethFails, DeleteRule, TypeOK
<1>5. UNCHANGED <<counter, bridgeVars, tries, ip>>
  BY DEF MoveEth0, ContainerExits, LeftPairGoes, CallCleanup, CleanupStep, DeleteVeth,
     DeleteVethFails, DeleteRule
<1>6. QED BY <1>2, <1>3, <1>4, <1>5 DEF TypeOK, bridgeVars, Pair

LEMMA TypeStep == TypeOK /\ [Next]_vars => TypeOK'
<1>1. TypeOK /\ UNCHANGED vars => TypeOK'
  BY DEF vars, TypeOK
<1>2. QED BY <1>1, SetupType, CreateType, CleanupType DEF Next

(***************************************************************************)
(* The variables of the host and of the tasks keep their types: counters   *)
(* stay below 2^32 and the addresses that tasks hold within the pool.      *)
(***************************************************************************)
THEOREM TypeCorrect == Spec => []TypeOK
BY TypeStart, TypeStep, PTL DEF Spec
-----------------------------------------------------------------------------
TaskStep(c) ==
  \/ CallCreate(c) \/ CreateStep(c)
  \/ MoveEth0(c) \/ ContainerExits(c) \/ LeftPairGoes(c)
  \/ CallCleanup(c) \/ CleanupStep(c)

(***************************************************************************)
(* What a step of c's task does to the others: their pairs stay, and eth0  *)
(* becomes c's or ceases to be it.                                         *)
(***************************************************************************)
LEMMA OthersUntouched ==
  ASSUME DistinctPrefixes, PairsInv, NEW c \in Containers, TaskStep(c),
         NEW d \in Containers, d # c
  PROVE  /\ pc'[d] = pc[d] /\ ip'[d] = ip[d]
         /\ link'[Prefix(d)] = link[Prefix(d)]
<1>1. Prefix(d) # Prefix(c) /\ Prefix(c) \in Veths /\ Prefix(d) \in Veths
  BY DEF DistinctPrefixes, Veths, veth_host_name
<1>2. /\ link \in [Veths -> Pair] /\ pc \in [Containers -> PCs]
      /\ ip \in [Containers -> 0..PoolMax]
  BY DEF PairsInv, TypeOK, Pair, PCs
<1>3. pc'[d] = pc[d]
  BY <1>2 DEF TaskStep, CallCreate, CreateStep, AddVeth, Attach, VethUp, AllocateIp, Assign,
     CreateFails, MoveEth0, ContainerExits, LeftPairGoes, CallCleanup, CleanupStep, DeleteVeth,
     DeleteVethFails, DeleteRule, Go
<1>4. ip'[d] = ip[d]
  BY <1>2 DEF TaskStep, CallCreate, CreateStep, AddVeth, Attach, VethUp, AllocateIp, Assign,
     CreateFails, MoveEth0, ContainerExits, LeftPairGoes, CallCleanup, CleanupStep, DeleteVeth,
     DeleteVethFails, DeleteRule
<1>5. CASE Assign(c) /\ eth0 # NoVeth
  <2>1. eth0 = Prefix(c)
    BY <1>5 DEF Assign, PairsInv, PairInv, Creating, CreateSteps, veth_host_name
  <2>2. link'[Prefix(d)] = link[Prefix(d)]
    BY <1>1, <1>2, <1>5, <2>1 DEF Assign
  <2>3. QED BY <1>3, <1>4, <2>2
<1>6. CASE ContainerExits(c)
  <2>1. link[Prefix(d)].owner # {c}
    BY DEF PairsInv, PairInv, veth_host_name
  <2>2. link'[Prefix(d)] = link[Prefix(d)]
    BY <1>1, <1>2, <1>6, <2>1 DEF ContainerExits
  <2>3. QED BY <1>3, <1>4, <2>2
<1>7. CASE ~(Assign(c) /\ eth0 # NoVeth) /\ ~ContainerExits(c)
  <2>1. link'[Prefix(d)] = link[Prefix(d)]
    BY <1>1, <1>2, <1>7 DEF TaskStep, CallCreate, CreateStep, AddVeth, Attach, VethUp,
       AllocateIp, Assign, CreateFails, MoveEth0, LeftPairGoes, CallCleanup, CleanupStep,
       DeleteVeth, DeleteVethFails, DeleteRule, veth_host_name
  <2>2. QED BY <1>3, <1>4, <2>1
<1>8. QED BY <1>5, <1>6, <1>7

LEMMA Eth0Changes ==
  ASSUME PairsInv, NEW c \in Containers, TaskStep(c)
  PROVE  \/ eth0' = eth0
         \/ eth0 = NoVeth /\ eth0' = Prefix(c)
         \/ eth0 = Prefix(c) /\ eth0' = NoVeth
BY DEF TaskStep, CallCreate, CreateStep, AddVeth, Attach, VethUp, AllocateIp, Assign,
   CreateFails, MoveEth0, ContainerExits, LeftPairGoes, CallCleanup, CleanupStep, DeleteVeth,
   DeleteVethFails, DeleteRule, veth_host_name

LEMMA OtherPairStep ==
  ASSUME DistinctPrefixes, PairsInv, NEW c \in Containers, TaskStep(c),
         NEW d \in Containers, d # c
  PROVE  PairInv(d)'
<1>1. /\ pc'[d] = pc[d] /\ ip'[d] = ip[d] /\ link'[Prefix(d)] = link[Prefix(d)]
  BY OthersUntouched
<1>2. eth0' = Prefix(d) <=> eth0 = Prefix(d)
  <2>1. Prefix(d) # NoVeth /\ Prefix(d) # Prefix(c)
    BY NetworkAssumption DEF DistinctPrefixes
  <2>2. QED BY <2>1, Eth0Changes
<1>3. PairInv(d)
  BY DEF PairsInv
<1>4. QED BY <1>1, <1>2, <1>3 DEF PairInv, veth_host_name

LEMMA OwnPairStep ==
  ASSUME PairsInv, NEW c \in Containers, TaskStep(c)
  PROVE  PairInv(c)'
<1> USE DEF PairInv, Creating, CreateSteps, veth_host_name
<1>1. /\ PairInv(c) /\ Prefix(c) \in Veths /\ Prefix(c) # NoVeth
      /\ link \in [Veths -> Pair] /\ pc \in [Containers -> PCs]
      /\ ip \in [Containers -> 0..PoolMax]
  BY NetworkAssumption DEF PairsInv, TypeOK, Pair, PCs, CleanupSteps, Holding, Veths
<1>2. CASE CallCreate(c)
  BY <1>1, <1>2 DEF CallCreate, Go
<1>3. CASE AddVeth(c)
  <2>1. CASE link[Prefix(c)].there \/ eth0 # NoVeth
    BY <1>1, <1>3, <2>1 DEF AddVeth, Go
  <2>2. CASE ~(link[Prefix(c)].there \/ eth0 # NoVeth)
    <3>1. /\ link'[Prefix(c)] = NewPair(c) /\ eth0' = Prefix(c) /\ pc'[c] = "attach"
      BY <1>1, <1>3, <2>2 DEF AddVeth, Go
    <3>2. NewPair(c).there /\ NewPair(c).owner = {c} /\ NewPair(c).ips = {}
      BY DEF NewPair, NoPair
    <3>3. QED BY <3>1, <3>2
  <2>3. QED BY <2>1, <2>2
<1>4. CASE Attach(c)
  BY <1>1, <1>4 DEF Attach, Go, Pair
<1>5. CASE VethUp(c)
  BY <1>1, <1>5 DEF VethUp, Go, Pair
<1>6. CASE AllocateIp(c)
  BY <1>1, <1>6 DEF AllocateIp, Go
<1>7. CASE Assign(c)
  BY <1>1, <1>7 DEF Assign, Go, Pair
<1>8. CASE CreateFails(c)
  BY <1>1, <1>8 DEF CreateFails, Go
<1>9. CASE MoveEth0(c)
  BY <1>1, <1>9 DEF MoveEth0, Go
<1>10. CASE ContainerExits(c)
  BY <1>1, <1>10 DEF ContainerExits, Go, NoPair
<1>11. CASE CallCleanup(c) \/ LeftPairGoes(c)
  BY <1>1, <1>11 DEF CallCleanup, LeftPairGoes, Go, Holding, CleanupSteps, NoPair
<1>12. CASE DeleteVeth(c)
  BY <1>1, <1>12 DEF DeleteVeth, Go, NoPair
<1>13. CASE DeleteVethFails(c)
  BY <1>1, <1>13 DEF DeleteVethFails, Go
<1>14. CASE DeleteRule(c)
  BY <1>1, <1>14 DEF DeleteRule, Go
<1>15. QED
  BY <1>2, <1>3, <1>4, <1>5, <1>6, <1>7, <1>8, <1>9, <1>10, <1>11, <1>12, <1>13, <1>14
     DEF TaskStep, CreateStep, CleanupStep
LEMMA HostEth0Step ==
  ASSUME DistinctPrefixes, PairsInv, NEW c \in Containers, TaskStep(c)
  PROVE  HostEth0'
<1> SUFFICES ASSUME eth0' # NoVeth PROVE link'[eth0'].there
  BY DEF HostEth0
<1>1. /\ PairInv(c) /\ Prefix(c) \in Veths /\ link \in [Veths -> Pair]
      /\ eth0 \in Veths \cup {NoVeth} /\ HostEth0
  BY DEF PairsInv, TypeOK, Pair, Veths, veth_host_name
<1>2. CASE eth0' # eth0
  <2>1. AddVeth(c) /\ link'[Prefix(c)] = NewPair(c) /\ eth0' = Prefix(c)
    BY <1>1, <1>2 DEF TaskStep, CallCreate, CreateStep, AddVeth, Attach, VethUp, AllocateIp,
       Assign, CreateFails, MoveEth0, ContainerExits, LeftPairGoes, CallCleanup, CleanupStep,
       DeleteVeth, DeleteVethFails, DeleteRule, veth_host_name
  <2>2. QED BY <2>1 DEF NewPair, NoPair
<1>3. CASE eth0' = eth0 /\ eth0 # Prefix(c)
  <2>1. PICK d \in Containers : eth0 = Prefix(d)
    BY <1>1, <1>3 DEF Veths, veth_host_name
  <2>2. QED BY <1>1, <1>3, <2>1, OthersUntouched DEF HostEth0
<1>4. CASE eth0' = eth0 /\ eth0 = Prefix(c)
  <2>1. link[Prefix(c)].there
    BY <1>1, <1>4 DEF HostEth0
  <2>2. ~ContainerExits(c) /\ ~LeftPairGoes(c) /\ (DeleteVeth(c) => link' = link)
    BY <1>1, <1>4 DEF ContainerExits, LeftPairGoes, DeleteVeth, PairInv, veth_host_name
  <2>3. CASE Assign(c)
    BY <1>1, <1>4, <2>1, <2>3 DEF Assign, Pair
  <2>4. CASE AddVeth(c) \/ Attach(c) \/ VethUp(c)
    BY <1>1, <1>4, <2>1, <2>4 DEF AddVeth, Attach, VethUp, Pair, veth_host_name
  <2>5. QED
    BY <1>4, <2>1, <2>2, <2>3, <2>4 DEF TaskStep, CallCreate, CreateStep, AllocateIp,
       CreateFails, MoveEth0, CallCleanup, CleanupStep, DeleteVethFails, DeleteRule
<1>5. QED BY <1>2, <1>3, <1>4

LEMMA SetupLeavesTasks ==
  ASSUME NEW p \in Procs, CallSetupBridge(p) \/ SetupStep(p)
  PROVE  UNCHANGED <<counter, pc, tries, link, eth0, ip>>
BY DEF CallSetupBridge, SetupStep, AddBridge, BridgeUp, AddGateway, AppendRule,
   EnableForwarding, SetupFails

LEMMA PairsInvariant ==
  ASSUME DistinctPrefixes
  PROVE  Spec => []PairsInv
<1>1. Init => PairsInv
  <2> SUFFICES ASSUME Init PROVE PairsInv
    OBVIOUS
  <2>1. \A c \in Containers : PairInv(c)
    <3> SUFFICES ASSUME NEW c \in Containers PROVE PairInv(c)
      OBVIOUS
    <3>1. link[Prefix(c)] = NoPair /\ pc[c] = "idle"
      BY DEF Init, Veths, veth_host_name
    <3>2. QED
      BY <3>1 DEF PairInv, NoPair, Creating, CreateSteps, veth_host_name
  <2>2. QED BY <2>1, TypeStart DEF PairsInv, HostEth0, Init
<1>2. PairsInv /\ [Next]_vars => PairsInv'
  <2> SUFFICES ASSUME PairsInv, [Next]_vars PROVE PairsInv'
    OBVIOUS
  <2>1. TypeOK'
    BY TypeStep DEF PairsInv
  <2>2. ASSUME NEW c \in Containers, TaskStep(c) PROVE PairsInv'
    BY <2>1, <2>2, OwnPairStep, OtherPairStep, HostEth0Step DEF PairsInv
  <2>3. ASSUME UNCHANGED <<counter, pc, tries, link, eth0, ip>> PROVE PairsInv'
    BY <2>1, <2>3 DEF PairsInv, PairInv, HostEth0
  <2>4. QED
    BY <2>2, <2>3, SetupLeavesTasks DEF Next, TaskStep, vars
<1>3. QED BY <1>1, <1>2, PTL DEF Spec

(***************************************************************************)
(* A network that create_container_network has returned keeps its complete *)
(* veth pair until the container exits or cleanup deletes it, for any      *)
(* number of tasks and processes on the host, when no two of their         *)
(* identifiers begin alike.                                                *)
(***************************************************************************)
THEOREM OwnPair ==
  ASSUME DistinctPrefixes
  PROVE  Spec => []EachContainerHasItsPair
<1>1. PairsInv => EachContainerHasItsPair
  BY DEF PairsInv, PairInv, EachContainerHasItsPair, InUse
<1>2. QED BY <1>1, PairsInvariant, PTL

(***************************************************************************)
(* The host's eth0 is an end of a pair that exists, and while a task is    *)
(* between creating its pair and moving eth0 away it is that pair's: the   *)
(* lookups by the name eth0 find no other container's interface.           *)
(***************************************************************************)
THEOREM OwnEth0 ==
  ASSUME DistinctPrefixes
  PROVE  Spec => []HostEth0IsOwnPair
<1>1. PairsInv => HostEth0IsOwnPair
  BY DEF PairsInv, PairInv, HostEth0, HostEth0IsOwnPair, Creating
<1>2. QED BY <1>1, PairsInvariant, PTL

-----------------------------------------------------------------------------
(* From allocate_ip on a task has an address, also while it cleans up: a   *)
(* cleanup that fails gives the network back.                              *)
HasAddress(c) ==
  pc[c] \in {"assign", "held", "running", "exited", "delete_veth"}

(***************************************************************************)
(* The addresses that have been given out are below the counter they came  *)
(* from, so the next one is none of them.                                  *)
(***************************************************************************)
AddressInv ==
  /\ \A p \in Procs : counter[p] >= 2
  /\ \A c \in Containers : HasAddress(c) =>
       ip[c] \in 2..PoolMax /\ ip[c] < counter[ProcOf(c)]
  /\ \A c, d \in Containers :
       HasAddress(c) /\ HasAddress(d) /\ c # d /\ ProcOf(c) = ProcOf(d) => ip[c] # ip[d]

LEMMA AllocateStep ==
  ASSUME TypeOK, AddressInv, CountersBelowWrap, NEW c \in Containers, AllocateIp(c)
  PROVE  AddressInv'
<1> DEFINE host == counter[ProcOf(c)]
<1>1. /\ ProcOf(c) \in Procs /\ host \in Nat /\ host >= 2
      /\ counter' = [counter EXCEPT ![ProcOf(c)] = host + 1]
  <2>1. ProcOf(c) \in Procs /\ host \in Nat /\ host >= 2 /\ host + 1 < CounterMod
    BY NetworkAssumption DEF TypeOK, AddressInv, CountersBelowWrap
  <2>2. (host + 1) % CounterMod = host + 1
    BY <2>1, NetworkAssumption
  <2>3. QED BY <2>1, <2>2 DEF AllocateIp
<1>2. \A p \in Procs : counter[p] \in Nat /\ counter'[p] \in Nat /\ counter'[p] >= counter[p]
  BY <1>1 DEF TypeOK
<1>3. counter'[ProcOf(c)] = host + 1
  BY <1>1 DEF TypeOK
<1>4. \A d \in Containers : d # c => pc'[d] = pc[d] /\ ip'[d] = ip[d]
  BY DEF AllocateIp, Go, TypeOK
<1>5. HasAddress(c)' => ip'[c] = host /\ host <= PoolMax
  BY <1>1, NetworkAssumption DEF AllocateIp, Go, TypeOK, HasAddress
<1> HIDE DEF host
<1>6. \A d \in Containers : ProcOf(d) \in Procs
  BY NetworkAssumption
<1>7. \A d \in Containers : HasAddress(d)' =>
        ip'[d] \in 2..PoolMax /\ ip'[d] < counter'[ProcOf(d)]
  <2> SUFFICES ASSUME NEW d \in Containers, HasAddress(d)'
               PROVE  ip'[d] \in 2..PoolMax /\ ip'[d] < counter'[ProcOf(d)]
    OBVIOUS
  <2>1. CASE d = c
    BY <1>1, <1>3, <1>5, <2>1, NetworkAssumption
  <2>2. CASE d # c
    BY <1>2, <1>4, <1>6, <2>2, NetworkAssumption DEF AddressInv, HasAddress
  <2>3. QED BY <2>1, <2>2
<1>8. ASSUME NEW d \in Containers, d # c, HasAddress(d)', ProcOf(d) = ProcOf(c)
      PROVE  ip'[d] \in Nat /\ ip'[d] < host
  BY <1>4, <1>8, NetworkAssumption DEF AddressInv, HasAddress, host
<1>9. \A d, e \in Containers :
        HasAddress(d)' /\ HasAddress(e)' /\ d # e /\ ProcOf(d) = ProcOf(e) => ip'[d] # ip'[e]
  BY <1>1, <1>4, <1>5, <1>8 DEF AddressInv, HasAddress
<1>10. \A p \in Procs : counter'[p] >= 2
  BY <1>2 DEF AddressInv
<1>11. QED BY <1>7, <1>9, <1>10 DEF AddressInv

LEMMA AddressStep ==
  ASSUME TypeOK, AddressInv, CountersBelowWrap, [Next]_vars
  PROVE  AddressInv'
<1>1. ASSUME counter' = counter, ip' = ip, \A c \in Containers : HasAddress(c)' => HasAddress(c)
      PROVE  AddressInv'
  BY <1>1 DEF AddressInv
<1>2. ASSUME NEW c \in Containers, TaskStep(c), ~AllocateIp(c) PROVE AddressInv'
  <2>1. counter' = counter /\ ip' = ip
    BY <1>2 DEF TaskStep, CallCreate, CreateStep, AddVeth, Attach, VethUp, Assign, CreateFails,
       MoveEth0, ContainerExits, LeftPairGoes, CallCleanup, CleanupStep, DeleteVeth,
       DeleteVethFails, DeleteRule
  <2>2. \A d \in Containers : HasAddress(d)' => HasAddress(d)
    BY <1>2 DEF TaskStep, CallCreate, CreateStep, AddVeth, Attach, VethUp, Assign, CreateFails,
       MoveEth0, ContainerExits, LeftPairGoes, CallCleanup, CleanupStep, DeleteVeth,
       DeleteVethFails, DeleteRule, Go, HasAddress, TypeOK, Holding
  <2>3. QED BY <1>1, <2>1, <2>2
<1>3. ASSUME UNCHANGED <<counter, pc, tries, link, eth0, ip>> PROVE AddressInv'
  BY <1>1, <1>3 DEF HasAddress
<1>4. QED
  BY <1>2, <1>3, AllocateStep, SetupLeavesTasks DEF Next, TaskStep, vars

LEMMA AddressInvariant == Spec /\ []CountersBelowWrap => []AddressInv
<1>1. Init => AddressInv
  BY NetworkAssumption DEF Init, AddressInv, HasAddress
<1>2. TypeOK /\ AddressInv /\ CountersBelowWrap /\ [Next]_vars => AddressInv'
  BY AddressStep
<1>3. QED BY <1>1, <1>2, TypeCorrect, PTL DEF Spec

(***************************************************************************)
(* The tasks of one process never use one address twice, for as long as    *)
(* its IP_COUNTER has not wrapped around: fetch_add serves overlapping     *)
(* calls and failing cleanups alike.                                       *)
(***************************************************************************)
THEOREM AddressesUnique ==
  ASSUME OneCounter
  PROVE  Spec /\ []CountersBelowWrap => []UniqueAddresses
<1>1. AddressInv => UniqueAddresses
  BY DEF OneCounter, AddressInv, UniqueAddresses, InUse, HasAddress
<1>2. QED BY <1>1, AddressInvariant, PTL

(***************************************************************************)
(* Where the pool is the hosts of the subnet (0xFFFE in the /16 that the   *)
(* defaults configure), addresses in use are addresses of hosts, in any    *)
(* number of processes and also when the pool is exhausted.                *)
(***************************************************************************)
THEOREM AddressesInSubnet ==
  ASSUME PoolMax = SubnetSize - 2
  PROVE  Spec /\ []CountersBelowWrap => []AddressInSubnet
<1>1. AddressInv => AddressInSubnet
  BY NetworkAssumption DEF AddressInv, AddressInSubnet, InUse, HasAddress
<1>2. QED BY <1>1, AddressInvariant, PTL
=============================================================================
