------------------------------- MODULE Network -------------------------------
(***************************************************************************)
(* Container networking (src/network/mod.rs): the address counter of a     *)
(* process, setup_bridge, create_container_network and                     *)
(* ContainerNetwork::cleanup, called by concurrent tasks on one host.  The *)
(* steps between two awaits interleave.  The host's interfaces are shared; *)
(* the container's end of a pair is named eth0 and starts in the host's    *)
(* namespace, until the caller moves it.                                   *)
(***************************************************************************)
EXTENDS Naturals

CONSTANTS
  Containers,
  Procs,          \* processes, each with its own IP_COUNTER
  ProcOf(_),      \* ProcOf(c): the process that runs container c
  Prefix(_),      \* Prefix(c): the first eight characters of its identifier
  PoolMax,        \* 0xFFFE, the last host number that is given out
  SubnetSize,     \* 2^(32 - prefix_len)
  CounterMod,     \* 2^32, where the counter wraps around
  MaxTries,       \* bound: calls of create_container_network per container
  MaxSetups,      \* bound: calls of setup_bridge per process
  Faults          \* TRUE: netlink requests and iptables may fail

NoVeth == "no veth"   \* the name of no interface

ASSUME NetworkAssumption ==
  /\ PoolMax \in Nat /\ SubnetSize \in Nat /\ CounterMod \in Nat
  /\ 2 < PoolMax /\ PoolMax < CounterMod
  /\ MaxTries \in Nat /\ MaxSetups \in Nat
  /\ Faults \in BOOLEAN
  /\ \A c \in Containers : ProcOf(c) \in Procs /\ Prefix(c) # NoVeth

VARIABLES
  counter,   \* counter[p]: IP_COUNTER
  setup,     \* setup[p]: the step of setup_bridge
  setups,    \* setups[p]: how often it was called
  bridge,    \* the bridge: "absent", "down" or "up"
  gateway,   \* the bridge has the gateway's address
  rules,     \* how many times the MASQUERADE rule is in POSTROUTING
  forward,   \* ip_forward is enabled
  pc,        \* pc[c]: the step of the task of container c
  tries,     \* tries[c]: how often it called create_container_network
  link,      \* link[v]: the veth pair whose host end has the name v
  eth0,      \* the pair whose other end is the host's eth0, or NoVeth
  ip         \* ip[c]: the address the task allocated, as a host number

bridgeVars == <<setup, setups, bridge, gateway, forward>>
vars == <<counter, setup, setups, bridge, gateway, rules, forward, pc, tries, link, eth0, ip>>

-----------------------------------------------------------------------------
(* veth_host_name: eight characters of the identifier follow `veth'.       *)
veth_host_name(c) == Prefix(c)
Veths == {veth_host_name(c) : c \in Containers}

NoPair == [there |-> FALSE, owner |-> {}, attached |-> FALSE, up |-> FALSE, ips |-> {}]
NewPair(c) == [NoPair EXCEPT !.there = TRUE, !.owner = {c}]

(* Where a task is: the calls it makes in create_container_network and in  *)
(* cleanup; `held': it has a ContainerNetwork; `running': eth0 was moved   *)
(* to the container; `exited': the container's namespace is gone.          *)
CreateSteps == {"add_veth", "attach", "up", "allocate", "assign"}
CleanupSteps == {"delete_veth", "delete_rule"}
Holding == {"held", "running", "exited"}

TypeOK ==
  /\ counter \in [Procs -> 0..(CounterMod - 1)]
  /\ setup \in [Procs -> {"idle", "add_bridge", "up", "address", "nat", "forward"}]
  /\ setups \in [Procs -> 0..MaxSetups]
  /\ bridge \in {"absent", "down", "up"}
  /\ gateway \in BOOLEAN /\ forward \in BOOLEAN
  /\ rules \in Nat
  /\ pc \in [Containers -> {"idle"} \cup CreateSteps \cup CleanupSteps \cup Holding]
  /\ tries \in [Containers -> 0..MaxTries]
  /\ link \in [Veths -> [there : BOOLEAN, owner : SUBSET Containers, attached : BOOLEAN,
                         up : BOOLEAN, ips : SUBSET (0..PoolMax)]]
  /\ eth0 \in Veths \cup {NoVeth}
  /\ ip \in [Containers -> 0..PoolMax]

Init ==
  /\ counter = [p \in Procs |-> 2]
  /\ setup = [p \in Procs |-> "idle"]
  /\ setups = [p \in Procs |-> 0]
  /\ bridge = "absent" /\ gateway = FALSE /\ rules = 0 /\ forward = FALSE
  /\ pc = [c \in Containers |-> "idle"]
  /\ tries = [c \in Containers |-> 0]
  /\ link = [v \in Veths |-> NoPair]
  /\ eth0 = NoVeth
  /\ ip = [c \in Containers |-> 0]

-----------------------------------------------------------------------------
(* setup_bridge.                                                           *)

Setting(p, from, to) == setup[p] = from /\ setup' = [setup EXCEPT ![p] = to]

CallSetupBridge(p) ==
  /\ setups[p] < MaxSetups
  /\ Setting(p, "idle", "add_bridge")
  /\ setups' = [setups EXCEPT ![p] = @ + 1]
  /\ UNCHANGED <<counter, bridge, gateway, rules, forward, pc, tries, link, eth0, ip>>

(* A bridge that exists already is no error.                               *)
AddBridge(p) ==
  /\ Setting(p, "add_bridge", "up")
  /\ bridge' = IF bridge = "absent" THEN "down" ELSE bridge
  /\ UNCHANGED <<counter, setups, gateway, rules, forward, pc, tries, link, eth0, ip>>

BridgeUp(p) ==
  /\ Setting(p, "up", "address")
  /\ bridge' = "up"
  /\ UNCHANGED <<counter, setups, gateway, rules, forward, pc, tries, link, eth0, ip>>

AddGateway(p) ==
  /\ Setting(p, "address", "nat")
  /\ gateway' = TRUE
  /\ UNCHANGED <<counter, setups, bridge, rules, forward, pc, tries, link, eth0, ip>>

(* iptables -A appends a rule whether it is there or not.                  *)
AppendRule(p) ==
  /\ Setting(p, "nat", "forward")
  /\ rules' = rules + 1
  /\ UNCHANGED <<counter, setups, bridge, gateway, forward, pc, tries, link, eth0, ip>>

EnableForwarding(p) ==
  /\ Setting(p, "forward", "idle")
  /\ forward' = TRUE
  /\ UNCHANGED <<counter, setups, bridge, gateway, rules, pc, tries, link, eth0, ip>>

(* The request fails and setup_bridge returns its error.                   *)
SetupFails(p) ==
  /\ Faults
  /\ setup[p] # "idle"
  /\ setup' = [setup EXCEPT ![p] = "idle"]
  /\ UNCHANGED <<counter, setups, bridge, gateway, rules, forward, pc, tries, link, eth0, ip>>

-----------------------------------------------------------------------------
(* create_container_network.                                               *)

Go(c, to) == pc' = [pc EXCEPT ![c] = to]

CallCreate(c) ==
  /\ pc[c] = "idle"
  /\ tries[c] < MaxTries
  /\ Go(c, "add_veth")
  /\ tries' = [tries EXCEPT ![c] = @ + 1]
  /\ UNCHANGED <<counter, bridgeVars, rules, link, eth0, ip>>

(* Mutant: a pair that exists already is no error, as for the bridge.      *)
AddVethIfMissing(c) ==
  LET v == veth_host_name(c) IN
  /\ pc[c] = "add_veth"
  /\ IF link[v].there \/ eth0 # NoVeth THEN UNCHANGED <<link, eth0>>
     ELSE link' = [link EXCEPT ![v] = NewPair(c)] /\ eth0' = v
  /\ Go(c, "attach")
  /\ UNCHANGED <<counter, bridgeVars, rules, tries, ip>>

(* The kernel refuses a pair one of whose names is taken.                  *)
AddVeth(c) ==
  LET v == veth_host_name(c) IN
  /\ pc[c] = "add_veth"
  /\ IF link[v].there \/ eth0 # NoVeth
     THEN Go(c, "idle") /\ UNCHANGED <<link, eth0>>
     ELSE link' = [link EXCEPT ![v] = NewPair(c)] /\ eth0' = v /\ Go(c, "attach")
  /\ UNCHANGED <<counter, bridgeVars, rules, tries, ip>>

(* Mutant: a bridge that is not there yet is no error.                     *)
AttachIfBridge(c) ==
  LET v == veth_host_name(c) IN
  /\ pc[c] = "attach"
  /\ IF link[v].there
     THEN link' = [link EXCEPT ![v].attached = bridge # "absent"] /\ Go(c, "up")
     ELSE Go(c, "idle") /\ UNCHANGED link
  /\ UNCHANGED <<counter, bridgeVars, rules, tries, eth0, ip>>

(* Both interfaces are looked up by name.                                  *)
Attach(c) ==
  LET v == veth_host_name(c) IN
  /\ pc[c] = "attach"
  /\ IF bridge # "absent" /\ link[v].there
     THEN link' = [link EXCEPT ![v].attached = TRUE] /\ Go(c, "up")
     ELSE Go(c, "idle") /\ UNCHANGED link
  /\ UNCHANGED <<counter, bridgeVars, rules, tries, eth0, ip>>

VethUp(c) ==
  LET v == veth_host_name(c) IN
  /\ pc[c] = "up"
  /\ IF link[v].there
     THEN link' = [link EXCEPT ![v].up = TRUE] /\ Go(c, "allocate")
     ELSE Go(c, "idle") /\ UNCHANGED link
  /\ UNCHANGED <<counter, bridgeVars, rules, tries, eth0, ip>>

(* Mutant: an exhausted pool starts again.                                 *)
AllocateAgain(c) ==
  LET p == ProcOf(c)
      host == counter[p] IN
  /\ pc[c] = "allocate"
  /\ ip' = [ip EXCEPT ![c] = host]
  /\ counter' = [counter EXCEPT ![p] = IF host = PoolMax THEN 2 ELSE host + 1]
  /\ Go(c, "assign")
  /\ UNCHANGED <<bridgeVars, rules, tries, link, eth0>>

(* Mutant: the limit is the broadcast address.                             *)
AllocateOffByOne(c) ==
  LET p == ProcOf(c)
      host == counter[p] IN
  /\ pc[c] = "allocate"
  /\ counter' = [counter EXCEPT ![p] = (@ + 1) % CounterMod]
  /\ IF host > PoolMax + 1 THEN Go(c, "idle") /\ UNCHANGED ip
     ELSE ip' = [ip EXCEPT ![c] = host] /\ Go(c, "assign")
  /\ UNCHANGED <<bridgeVars, rules, tries, link, eth0>>

(* allocate_ip: fetch_add counts the calls that fail too.                  *)
AllocateIp(c) ==
  LET p == ProcOf(c)
      host == counter[p] IN
  /\ pc[c] = "allocate"
  /\ counter' = [counter EXCEPT ![p] = (@ + 1) % CounterMod]
  /\ IF host > PoolMax THEN Go(c, "idle") /\ UNCHANGED ip
     ELSE ip' = [ip EXCEPT ![c] = host] /\ Go(c, "assign")
  /\ UNCHANGED <<bridgeVars, rules, tries, link, eth0>>

(* The address goes to the interface that has the name eth0 now.           *)
Assign(c) ==
  /\ pc[c] = "assign"
  /\ IF eth0 = NoVeth THEN Go(c, "idle") /\ UNCHANGED link
     ELSE link' = [link EXCEPT ![eth0].ips = @ \cup {ip[c]}] /\ Go(c, "held")
  /\ UNCHANGED <<counter, bridgeVars, rules, tries, eth0, ip>>

(* A request fails; the error is returned and what was made stays.         *)
CreateFails(c) ==
  /\ Faults
  /\ pc[c] \in CreateSteps \ {"allocate"}
  /\ Go(c, "idle")
  /\ UNCHANGED <<counter, bridgeVars, rules, tries, link, eth0, ip>>

-----------------------------------------------------------------------------
(* The caller moves eth0 to the container's namespace; when the container  *)
(* ends, the kernel removes the namespace and the pair with it.            *)
MoveEth0(c) ==
  /\ pc[c] = "held"
  /\ eth0 = veth_host_name(c)
  /\ eth0' = NoVeth
  /\ Go(c, "running")
  /\ UNCHANGED <<counter, bridgeVars, rules, tries, link, ip>>

ContainerExits(c) ==
  /\ pc[c] = "running"
  /\ link' = [v \in Veths |-> IF link[v].owner = {c} THEN NoPair ELSE link[v]]
  /\ Go(c, "exited")
  /\ UNCHANGED <<counter, bridgeVars, rules, tries, eth0, ip>>

(* A container that a cleanup has taken its network from, or is about to,  *)
(* ends too, and its namespace takes a pair that is still there with it.   *)
LeftPairGoes(c) ==
  LET v == veth_host_name(c) IN
  /\ pc[c] \in {"idle", "add_veth"} \cup CleanupSteps
  /\ link[v].owner = {c} /\ eth0 # v
  /\ link' = [link EXCEPT ![v] = NoPair]
  /\ UNCHANGED <<counter, bridgeVars, rules, pc, tries, eth0, ip>>

-----------------------------------------------------------------------------
(* ContainerNetwork::cleanup.                                              *)

CallCleanup(c) ==
  /\ pc[c] \in Holding
  /\ Go(c, "delete_veth")
  /\ UNCHANGED <<counter, bridgeVars, rules, tries, link, eth0, ip>>

(* The pair is looked up by name.  Any error of the lookup, not only that  *)
(* of a pair that is gone, is taken to mean that there is none.            *)
DeleteVeth(c) ==
  LET v == veth_host_name(c) IN
  /\ pc[c] = "delete_veth"
  /\ \/ /\ link' = [link EXCEPT ![v] = NoPair]
        /\ eth0' = IF eth0 = v THEN NoVeth ELSE eth0
     \/ Faults /\ UNCHANGED <<link, eth0>>
  /\ Go(c, "delete_rule")
  /\ UNCHANGED <<counter, bridgeVars, rules, tries, ip>>

(* The deletion fails: cleanup returns its error, and the caller still has *)
(* the network.                                                            *)
DeleteVethFails(c) ==
  LET v == veth_host_name(c) IN
  /\ Faults
  /\ pc[c] = "delete_veth"
  /\ link[v].there
  /\ Go(c, IF link[v].owner # {c} THEN "exited"
           ELSE IF eth0 = v THEN "held" ELSE "running")
  /\ UNCHANGED <<counter, bridgeVars, rules, tries, link, eth0, ip>>

(* iptables -D removes one copy of the rule; an error is ignored.          *)
DeleteRule(c) ==
  /\ pc[c] = "delete_rule"
  /\ \/ rules' = IF rules > 0 THEN rules - 1 ELSE 0
     \/ Faults /\ UNCHANGED rules
  /\ Go(c, "idle")
  /\ UNCHANGED <<counter, bridgeVars, tries, link, eth0, ip>>

SetupStep(p) ==
  \/ AddBridge(p) \/ BridgeUp(p) \/ AddGateway(p) \/ AppendRule(p)
  \/ EnableForwarding(p) \/ SetupFails(p)

CreateStep(c) ==
  \/ AddVeth(c) \/ Attach(c) \/ VethUp(c) \/ AllocateIp(c) \/ Assign(c)
  \/ CreateFails(c)

CleanupStep(c) == DeleteVeth(c) \/ DeleteVethFails(c) \/ DeleteRule(c)

Next ==
  \/ \E p \in Procs : CallSetupBridge(p) \/ SetupStep(p)
  \/ \E c \in Containers :
       \/ CallCreate(c) \/ CreateStep(c)
       \/ MoveEth0(c) \/ ContainerExits(c) \/ LeftPairGoes(c)
       \/ CallCleanup(c) \/ CleanupStep(c)

Spec == Init /\ [][Next]_vars

-----------------------------------------------------------------------------
(* A container has a network from the end of create_container_network      *)
(* until its own exit or cleanup.                                          *)
InUse(c) == pc[c] \in {"held", "running"}

(***************************************************************************)
(* "Each container gets a veth pair": while its network is in use the pair *)
(* is there, is its own and nobody else's, is attached to the bridge, is   *)
(* up and has its address, whatever other tasks create, clean up or fail   *)
(* to create.                                                              *)
(***************************************************************************)
EachContainerHasItsPair ==
  \A c \in Containers : InUse(c) =>
    LET l == link[veth_host_name(c)] IN
    l.there /\ l.owner = {c} /\ l.attached /\ l.up /\ l.ips = {ip[c]}

(* No two networks in use have the same address.                           *)
UniqueAddresses ==
  \A c, d \in Containers : InUse(c) /\ InUse(d) /\ c # d => ip[c] # ip[d]

(***************************************************************************)
(* "Allocate the next IP address from the configured subnet": an address   *)
(* in use is a host of the subnet, not the network's or the gateway's or   *)
(* the broadcast address, also when the pool comes to its end.             *)
(***************************************************************************)
AddressInSubnet ==
  \A c \in Containers : InUse(c) => ip[c] > 1 /\ ip[c] < SubnetSize - 1

(***************************************************************************)
(* The eth0 of the host's namespace is the end of a pair that exists, so a *)
(* creation in progress cannot put its address on another's interface.     *)
(***************************************************************************)
HostEth0IsOwnPair ==
  /\ eth0 # NoVeth => link[eth0].there
  /\ \A c \in Containers :
       pc[c] \in CreateSteps \ {"add_veth"} => eth0 = veth_host_name(c)
==============================================================================
