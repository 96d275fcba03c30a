--------------------------- MODULE TaskLifecycle ---------------------------
(***************************************************************************)
(* What the coordinator promises about one task, whoever drives it: it is  *)
(* queued for one drone, runs at most once, and once it has an outcome     *)
(* nothing changes that outcome.  The table is the one of                  *)
(* State.update_task; FleetState, and through it Coordinator, implement    *)
(* this specification.                                                     *)
(***************************************************************************)
EXTENDS Naturals

CONSTANTS Ids,        \* task ids that may ever be created
          Targets     \* drones a task can be created for

VARIABLES
    status,           \* status[t], "absent" until create_task has inserted t
    target            \* target[t], NoTarget while t is absent

vars == <<status, target>>

NoTarget == 0

Outcomes == {"completed", "failed", "cancelled"}

Init == /\ status = [t \in Ids |-> "absent"]
        /\ target = [t \in Ids |-> NoTarget]

Submit(t) == /\ status[t] = "absent"
             /\ status' = [status EXCEPT ![t] = "queued"]
             /\ \E d \in Targets : target' = [target EXCEPT ![t] = d]

Start(t) == /\ status[t] = "queued"
            /\ status' = [status EXCEPT ![t] = "running"]
            /\ UNCHANGED target

Finish(t, outcome) == /\ status[t] = "running"
                      /\ status' = [status EXCEPT ![t] = outcome]
                      /\ UNCHANGED target

Cancel(t) == /\ status[t] = "queued"
             /\ status' = [status EXCEPT ![t] = "cancelled"]
             /\ UNCHANGED target

Next == \E t \in Ids : \/ Submit(t)
                       \/ Start(t)
                       \/ \E outcome \in Outcomes : Finish(t, outcome)
                       \/ Cancel(t)

Spec == Init /\ [][Next]_vars
=============================================================================
