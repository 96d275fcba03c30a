----------------------------- MODULE FleetState -----------------------------
(***************************************************************************)
(* The coordinator's durable state, class State of state.py: the drones    *)
(* table with its slot counters and the tasks table with its status        *)
(* machine.  One action is one method call; the methods hold State.lock    *)
(* for their whole body, so within one process each is atomic.             *)
(*                                                                         *)
(* Drone ids are numbers in the order of the id strings, task ids are the  *)
(* creation order.  Left out: host names, user names, timestamps, the      *)
(* exit code (the status tells it apart), the status column of a drone     *)
(* (only ever 'ready'), and the event log.                                 *)
(***************************************************************************)
EXTENDS Naturals, Sequences, FiniteSets

CONSTANTS
    Drones,        \* drone ids
    Addresses,     \* address strings a registration may carry
    Capabilities,  \* capability names
    Offers,        \* Offers[d]: what drone d may register with
    Jobs,          \* what callers of run_jobs may ask for
    MaxTasks       \* bound: number of tasks ever created

AnyDrone == 0      \* drone_id=None: let the coordinator choose
NoAddress == ""

Modes == {"once", "service"}

ASSUME DronesAssumption == Drones \subseteq Nat \ {AnyDrone}
ASSUME OffersAssumption ==
    Offers \in [Drones -> SUBSET [address: Addresses,
                                  capabilities: SUBSET Capabilities,
                                  slots: Nat]]
ASSUME JobsAssumption ==
    Jobs \subseteq [mode: STRING, required: SUBSET Capabilities,
                    target: Nat]
ASSUME MaxTasksAssumption == MaxTasks \in Nat

VARIABLES
    drones,        \* the drones table: a function on the registered ids
    tasks          \* the tasks table, in the order of created_at

fleetVars == <<drones, tasks>>

-----------------------------------------------------------------------------
(* Rows *)

(* Faulty variant: a finished task may be failed once more. *)
RefailTransitions ==
    [queued    |-> {"running", "cancelled"},
     running   |-> {"completed", "failed", "cancelled"},
     completed |-> {"failed"}, failed |-> {}, cancelled |-> {}]

Transitions ==
    [queued    |-> {"running", "cancelled"},
     running   |-> {"completed", "failed", "cancelled"},
     completed |-> {}, failed |-> {}, cancelled |-> {}]

Statuses == {"queued", "running", "completed", "failed", "cancelled"}

DroneRow == [address: Addresses, capabilities: SUBSET Capabilities,
             slots: Nat \ {0}, used: Nat]
TaskRow == [target: Drones, mode: Modes, status: Statuses,
            started: BOOLEAN]     \* started: started_at is not NULL

Registered == DOMAIN drones
TaskIds == 1..Len(tasks)

TasksOn(d, status) ==
    {t \in TaskIds : tasks[t].target = d /\ tasks[t].status = status}

-----------------------------------------------------------------------------
(* choose_drone: available drones first, then any, by load and then by id *)

HasSlot(d) == drones[d].used < drones[d].slots

Load(d) == drones[d].used + Cardinality(TasksOn(d, "queued"))

Before(d, e) == Load(d) < Load(e) \/ (Load(d) = Load(e) /\ d <= e)

Capable(required) ==
    {d \in Registered : required \subseteq drones[d].capabilities}

Choosable(required) ==
    LET available == {d \in Capable(required) : HasSlot(d)}
    IN  IF available # {} THEN available ELSE Capable(required)

(* The chosen drone, as a set: empty when "no ready drone has a matching
   slot" is raised. *)
ChooseDrone(required) ==
    {d \in Choosable(required) : \A e \in Choosable(required) : Before(d, e)}

-----------------------------------------------------------------------------
(* register_drone: an upsert that keeps the slot counter *)

UsedSlots(d) == IF d \in Registered THEN drones[d].used ELSE 0

(* Faulty variant: a re-registration resets the counter. *)
ResetRow(d, offer) ==
    [address |-> offer.address, capabilities |-> offer.capabilities,
     slots |-> offer.slots, used |-> 0]

Row(d, offer) ==
    [address |-> offer.address, capabilities |-> offer.capabilities,
     slots |-> offer.slots, used |-> UsedSlots(d)]

RegisterDrone(d, offer) ==
    /\ offer.slots >= 1
    /\ drones' = [e \in Registered \cup {d} |->
                    IF e = d THEN Row(d, offer) ELSE drones[e]]
    /\ UNCHANGED tasks

-----------------------------------------------------------------------------
(* create_task: the target is stored once and for all *)

TargetsOf(job) == IF job.target = AnyDrone THEN ChooseDrone(job.required)
                  ELSE {job.target} \cap Registered

CreateTask(job) ==
    /\ Len(tasks) < MaxTasks
    /\ job.mode \in Modes
    /\ \E d \in TargetsOf(job) :
          tasks' = Append(tasks, [target |-> d, mode |-> job.mode,
                                  status |-> "queued", started |-> FALSE])
    /\ UNCHANGED drones

-----------------------------------------------------------------------------
(* update_task: the status machine and the slot counter move together *)

CanUpdate(t, status) ==
    /\ status \in Transitions[tasks[t].status]
    /\ status = "running" => HasSlot(tasks[t].target)

(* Faulty variant: a failed task keeps its slot. *)
SlotsKeptByFailed(used, status) ==
    CASE status = "running" -> used + 1
      [] status = "failed"  -> used
      [] OTHER              -> IF used = 0 THEN 0 ELSE used - 1

(* Faulty variant: the release is not clamped at zero. *)
SlotsUnclamped(used, status) ==
    IF status = "running" THEN used + 1 ELSE used - 1

SlotsAfter(used, status) ==
    IF status = "running" THEN used + 1
    ELSE IF used = 0 THEN 0 ELSE used - 1     \* MAX(used_slots-1,0)

TaskAfter(row, status) ==
    [row EXCEPT !.status = status,
                !.started = row.started \/ status = "running"]

UpdateTask(t, status) ==
    /\ CanUpdate(t, status)
    /\ drones' = [drones EXCEPT ![tasks[t].target].used =
                    SlotsAfter(@, status)]
    /\ tasks' = [tasks EXCEPT ![t] = TaskAfter(@, status)]

-----------------------------------------------------------------------------
FleetInit == drones = << >> /\ tasks = << >>

FleetNext ==
    \/ \E d \in Drones : \E offer \in Offers[d] : RegisterDrone(d, offer)
    \/ \E job \in Jobs : CreateTask(job)
    \/ \E t \in TaskIds, status \in Statuses : UpdateTask(t, status)

FleetSpec == FleetInit /\ [][FleetNext]_fleetVars

-----------------------------------------------------------------------------
(* The tables hold well-formed rows, and every task's target is a
   registered drone (the foreign key tasks.drone_id of the schema, which
   SQLite does not enforce here). *)
FleetTypeOK ==
    /\ Registered \subseteq Drones
    /\ drones \in [Registered -> DroneRow]
    /\ tasks \in Seq(TaskRow)
    /\ Len(tasks) <= MaxTasks
    /\ \A t \in TaskIds : tasks[t].target \in Registered

Running(d) == TasksOn(d, "running")
CancelledUnstarted(d) ==
    {t \in TasksOn(d, "cancelled") : ~tasks[t].started}

(* No slot is lost: every used slot of a drone is held by a task that is
   running on it, across re-registrations and every order of outcomes. *)
SlotsBacked ==
    \A d \in Registered : drones[d].used <= Cardinality(Running(d))

(* The slot counter may miss a running task only because some task of the
   drone was cancelled before it started: update_task releases a slot on
   every outcome, also for a queued task, which holds none.  Without such a
   cancellation the counter is exactly the number of running tasks. *)
MissingSlotsWereCancelledUnstarted ==
    \A d \in Registered :
        Cardinality(Running(d)) <=
            drones[d].used + Cardinality(CancelledUnstarted(d))

(* Every task goes through the life cycle the coordinator promises:
   created for one drone, started at most once, its outcome never
   rewritten. *)
Lifecycle == INSTANCE TaskLifecycle WITH
    Ids     <- 1..MaxTasks,
    Targets <- Drones,
    status  <- [t \in 1..MaxTasks |->
                  IF t \in TaskIds THEN tasks[t].status ELSE "absent"],
    target  <- [t \in 1..MaxTasks |->
                  IF t \in TaskIds THEN tasks[t].target ELSE 0]

TaskLifecycleHolds == Lifecycle!Spec
=============================================================================
