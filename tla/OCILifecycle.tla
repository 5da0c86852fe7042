---------------------------- MODULE OCILifecycle ----------------------------
(***************************************************************************)
(* What the lifecycle of a container promises: the doc comment of          *)
(* ContainerState (src/runtime/mod.rs) gives the chain                     *)
(*        Creating -> Created -> Running -> Stopped                        *)
(* that `create' enters from a container that does not exist and `delete'  *)
(* leaves to one.  A container may also be lost: its status file became    *)
(* unreadable, and no operation of the runtime brings it back.             *)
(***************************************************************************)

CONSTANT Ids        \* the container identifiers

VARIABLE status     \* status[id]: what the runtime would say of id

LifecycleStates ==
  {"absent", "creating", "created", "running", "stopped", "lost"}

TypeOK == status \in [Ids -> LifecycleStates]

Init == status = [id \in Ids |-> "absent"]

Becomes(id, from, to) ==
  /\ status[id] = from
  /\ status' = [status EXCEPT ![id] = to]

BeginCreate(id)  == Becomes(id, "absent", "creating")
FinishCreate(id) == Becomes(id, "creating", "created")
Start(id)        == Becomes(id, "created", "running")
Stop(id)         == Becomes(id, "running", "stopped")
Delete(id)       == Becomes(id, "stopped", "absent")

(* A save of the status broke off half-way, at whatever point of the life. *)
Lose(id) == status' = [status EXCEPT ![id] = "lost"]

Next ==
  \E id \in Ids :
    \/ BeginCreate(id) \/ FinishCreate(id) \/ Start(id)
    \/ Stop(id) \/ Delete(id) \/ Lose(id)

Spec == Init /\ [][Next]_status

=============================================================================
