-------------------------- MODULE FleetStateProofs --------------------------
(***************************************************************************)
(* Proofs about FleetState: its tables stay well formed, no slot is lost,  *)
(* the counter misses a running task only for a cancellation that came     *)
(* before its start, and the tasks go through TaskLifecycle.               *)
(***************************************************************************)
EXTENDS FleetState, FiniteSetTheorems, TLAPS

USE DronesAssumption, OffersAssumption, JobsAssumption, MaxTasksAssumption

-----------------------------------------------------------------------------
(* What update_task finds and leaves behind, given well-formed tables. *)
LEMMA UpdateShape ==
    ASSUME FleetTypeOK,
           NEW t \in TaskIds, NEW status \in Statuses,
           UpdateTask(t, status)
    PROVE  /\ Registered' = Registered
           /\ tasks[t].target \in Registered
           /\ TaskIds' = TaskIds
           /\ tasks' \in Seq(TaskRow)
           /\ Len(tasks') = Len(tasks)
           /\ tasks'[t] = TaskAfter(tasks[t], status)
           /\ \A u \in TaskIds \ {t} : tasks'[u] = tasks[u]
           /\ \A u \in TaskIds : tasks'[u].target = tasks[u].target
           /\ drones' \in [Registered -> DroneRow]
           /\ drones'[tasks[t].target].used =
                SlotsAfter(drones[tasks[t].target].used, status)
           /\ \A d \in Registered \ {tasks[t].target} : drones'[d] = drones[d]
<1> DEFINE d == tasks[t].target
<1>1. tasks[t] \in TaskRow /\ d \in Registered /\ drones[d] \in DroneRow
  BY DEF FleetTypeOK, TaskIds, Registered
<1>2. TaskAfter(tasks[t], status) \in TaskRow
  BY <1>1 DEF TaskAfter, TaskRow
<1>3. /\ tasks' \in Seq(TaskRow)
      /\ Len(tasks') = Len(tasks)
      /\ tasks'[t] = TaskAfter(tasks[t], status)
      /\ \A u \in TaskIds \ {t} : tasks'[u] = tasks[u]
  BY <1>1, <1>2 DEF UpdateTask, FleetTypeOK, TaskIds
<1>4. SlotsAfter(drones[d].used, status) \in Nat
  BY <1>1 DEF SlotsAfter, DroneRow
<1>5. [drones[d] EXCEPT !.used = SlotsAfter(drones[d].used, status)]
        \in DroneRow
  BY <1>1, <1>4 DEF DroneRow
<1>6. /\ DOMAIN drones' = Registered
      /\ drones'[d] =
           [drones[d] EXCEPT !.used = SlotsAfter(drones[d].used, status)]
      /\ \A e \in Registered \ {d} : drones'[e] = drones[e]
      /\ drones' \in [Registered -> DroneRow]
  BY <1>1, <1>5 DEF UpdateTask, FleetTypeOK, Registered
<1>7. drones'[d].used = SlotsAfter(drones[d].used, status)
  BY <1>1, <1>6 DEF DroneRow
<1>8. tasks'[t].target = d
  BY <1>1, <1>3 DEF TaskAfter, TaskRow
<1> QED
  BY <1>1, <1>3, <1>6, <1>7, <1>8 DEF Registered, TaskIds

(* What register_drone leaves behind. *)
LEMMA RegisterShape ==
    ASSUME FleetTypeOK,
           NEW d \in Drones, NEW offer \in Offers[d],
           RegisterDrone(d, offer)
    PROVE  /\ Registered' = Registered \cup {d}
           /\ drones' \in [Registered' -> DroneRow]
           /\ drones'[d].used = UsedSlots(d)
           /\ \A e \in Registered \ {d} : drones'[e] = drones[e]
           /\ tasks' = tasks
<1>1. /\ offer.address \in Addresses
      /\ offer.capabilities \in SUBSET Capabilities
      /\ offer.slots \in Nat \ {0}
  BY DEF RegisterDrone
<1>2. UsedSlots(d) \in Nat
  BY DEF UsedSlots, FleetTypeOK, DroneRow, Registered
<1>3. Row(d, offer) \in DroneRow /\ Row(d, offer).used = UsedSlots(d)
  BY <1>1, <1>2 DEF Row, DroneRow
<1>4. drones' = [e \in Registered \cup {d} |->
                   IF e = d THEN Row(d, offer) ELSE drones[e]]
  BY DEF RegisterDrone
<1>5. Registered' = Registered \cup {d}
  BY <1>4 DEF Registered
<1>6. \A e \in Registered \cup {d} :
         drones'[e] = IF e = d THEN Row(d, offer) ELSE drones[e]
  BY <1>4
<1>7. drones' \in [Registered \cup {d} -> DroneRow]
  BY <1>3, <1>4 DEF FleetTypeOK
<1> QED
  BY <1>3, <1>5, <1>6, <1>7 DEF RegisterDrone

(* What create_task leaves behind. *)
LEMMA CreateShape ==
    ASSUME FleetTypeOK, NEW job \in Jobs, CreateTask(job)
    PROVE  /\ drones' = drones
           /\ tasks' \in Seq(TaskRow)
           /\ Len(tasks') = Len(tasks) + 1
           /\ Len(tasks') <= MaxTasks
           /\ TaskIds' = TaskIds \cup {Len(tasks) + 1}
           /\ \A t \in TaskIds : tasks'[t] = tasks[t]
           /\ tasks'[Len(tasks) + 1].target \in Registered
           /\ tasks'[Len(tasks) + 1].status = "queued"
<1>1. PICK d \in TargetsOf(job) :
         tasks' = Append(tasks, [target |-> d, mode |-> job.mode,
                                 status |-> "queued", started |-> FALSE])
  BY DEF CreateTask
<1>2. d \in Registered
  BY <1>1 DEF TargetsOf, ChooseDrone, Choosable, Capable
<1>3. [target |-> d, mode |-> job.mode, status |-> "queued",
       started |-> FALSE] \in TaskRow
  BY <1>2 DEF CreateTask, TaskRow, Statuses, FleetTypeOK
<1>4. /\ tasks' \in Seq(TaskRow)
      /\ Len(tasks') = Len(tasks) + 1
      /\ \A t \in TaskIds : tasks'[t] = tasks[t]
      /\ tasks'[Len(tasks) + 1] =
           [target |-> d, mode |-> job.mode, status |-> "queued",
            started |-> FALSE]
  BY <1>1, <1>3 DEF FleetTypeOK, TaskIds
<1>5. Len(tasks) \in Nat /\ Len(tasks) < MaxTasks
  BY DEF FleetTypeOK, CreateTask
<1> QED
  BY <1>2, <1>4, <1>5 DEF CreateTask, TaskIds

-----------------------------------------------------------------------------
(* The tables stay well formed. *)
LEMMA FleetTypeStep == FleetTypeOK /\ [FleetNext]_fleetVars => FleetTypeOK'
<1> SUFFICES ASSUME FleetTypeOK, [FleetNext]_fleetVars PROVE FleetTypeOK'
  OBVIOUS
<1>1. ASSUME NEW d \in Drones, NEW offer \in Offers[d],
             RegisterDrone(d, offer)
      PROVE  FleetTypeOK'
  BY <1>1, RegisterShape DEF FleetTypeOK, TaskIds
<1>2. ASSUME NEW job \in Jobs, CreateTask(job) PROVE FleetTypeOK'
  <2>1. Registered' = Registered
    BY <1>2, CreateShape DEF Registered
  <2> QED
    BY <1>2, <2>1, CreateShape DEF FleetTypeOK
<1>3. ASSUME NEW t \in TaskIds, NEW status \in Statuses,
             UpdateTask(t, status)
      PROVE  FleetTypeOK'
  BY <1>3, UpdateShape DEF FleetTypeOK
<1>4. CASE UNCHANGED fleetVars
  BY <1>4 DEF fleetVars, FleetTypeOK, Registered, TaskIds
<1> QED
  BY <1>1, <1>2, <1>3, <1>4 DEF FleetNext

(* Type correctness: in every reachable state of the database the rows of
   both tables are well formed and every task's target is registered. *)
THEOREM FleetTypeCorrect == FleetSpec => []FleetTypeOK
<1>1. FleetInit => FleetTypeOK
  BY DEF FleetInit, FleetTypeOK, Registered, TaskIds
<1> QED
  BY <1>1, FleetTypeStep, PTL DEF FleetSpec

-----------------------------------------------------------------------------
(* The slot counter *)

(* The fact about the tables that the bounds rest on besides their types:
   started_at is set by the transition to running, and by nothing else. *)
StartedOnce ==
    \A t \in TaskIds : /\ tasks[t].status = "queued" => ~tasks[t].started
                       /\ tasks[t].status = "running" => tasks[t].started

SlotInv == /\ FleetTypeOK
           /\ StartedOnce
           /\ SlotsBacked
           /\ MissingSlotsWereCancelledUnstarted

LEMMA Counts ==
    ASSUME FleetTypeOK, NEW d
    PROVE  /\ IsFiniteSet(Running(d))
           /\ IsFiniteSet(CancelledUnstarted(d))
           /\ Cardinality(Running(d)) \in Nat
           /\ Cardinality(CancelledUnstarted(d)) \in Nat
<1>1. IsFiniteSet(TaskIds)
  <2>1. Len(tasks) \in Int /\ 1 \in Int
    BY DEF FleetTypeOK
  <2>2. IsFiniteSet(1..Len(tasks))
    BY ONLY <2>1, FS_Interval
  <2> QED
    BY <2>2 DEF TaskIds
<1>2. /\ Running(d) \subseteq TaskIds
      /\ CancelledUnstarted(d) \subseteq TaskIds
  BY DEF Running, CancelledUnstarted, TasksOn
<1> QED
  BY <1>1, <1>2, FS_Subset, FS_CardinalityType

(* A step that leaves every row of a drone's running and cancelled tasks
   alone leaves the two sets alone. *)
LEMMA SameSets ==
    ASSUME NEW d,
           TaskIds \subseteq TaskIds',
           \A t \in TaskIds : tasks'[t] = tasks[t],
           \A t \in TaskIds' \ TaskIds : tasks'[t].status = "queued"
    PROVE  /\ Running(d)' = Running(d)
           /\ CancelledUnstarted(d)' = CancelledUnstarted(d)
BY DEF Running, CancelledUnstarted, TasksOn

LEMMA RegisterSlots ==
    ASSUME SlotInv, NEW d \in Drones, NEW offer \in Offers[d],
           RegisterDrone(d, offer)
    PROVE  SlotInv'
<1> USE DEF SlotInv
<1>1. /\ Registered' = Registered \cup {d}
      /\ drones'[d].used = UsedSlots(d)
      /\ \A e \in Registered \ {d} : drones'[e] = drones[e]
      /\ tasks' = tasks
  BY RegisterShape
<1>2. FleetTypeOK'
  BY FleetTypeStep DEF FleetNext
<1>3. StartedOnce'
  BY <1>1 DEF StartedOnce, TaskIds
<1>4. \A e : Running(e)' = Running(e)
             /\ CancelledUnstarted(e)' = CancelledUnstarted(e)
  BY <1>1 DEF Running, CancelledUnstarted, TasksOn, TaskIds
<1>5. ASSUME NEW e \in Registered
      PROVE  drones'[e].used = drones[e].used
  BY <1>1 DEF UsedSlots
<1>6. ASSUME d \notin Registered
      PROVE  Running(d) = {} /\ UsedSlots(d) = 0
  BY <1>6 DEF Running, TasksOn, FleetTypeOK, UsedSlots
<1>7. \A e : /\ Cardinality(Running(e)) \in Nat
             /\ Cardinality(CancelledUnstarted(e)) \in Nat
  BY Counts
<1>8. SlotsBacked'
  <2> SUFFICES ASSUME NEW e \in Registered \cup {d}
               PROVE  drones'[e].used <= Cardinality(Running(e))
    BY <1>1, <1>4 DEF SlotsBacked
  <2>1. CASE e \in Registered
    BY <2>1, <1>5 DEF SlotsBacked
  <2>2. CASE e \notin Registered
    BY <2>2, <1>1, <1>6, <1>7
  <2> QED
    BY <2>1, <2>2
<1>9. MissingSlotsWereCancelledUnstarted'
  <2> SUFFICES ASSUME NEW e \in Registered \cup {d}
               PROVE  Cardinality(Running(e)) <=
                        drones'[e].used + Cardinality(CancelledUnstarted(e))
    BY <1>1, <1>4 DEF MissingSlotsWereCancelledUnstarted
  <2>1. CASE e \in Registered
    BY <2>1, <1>5 DEF MissingSlotsWereCancelledUnstarted
  <2>2. CASE e \notin Registered
    <3>1. Cardinality(Running(e)) = 0
      BY <2>2, <1>6, FS_EmptySet
    <3> QED
      BY <2>2, <3>1, <1>1, <1>6, <1>7
  <2> QED
    BY <2>1, <2>2
<1> QED
  BY <1>2, <1>3, <1>8, <1>9

LEMMA CreateSlots ==
    ASSUME SlotInv, NEW job \in Jobs, CreateTask(job)
    PROVE  SlotInv'
<1> USE DEF SlotInv
<1>1. /\ drones' = drones
      /\ TaskIds' = TaskIds \cup {Len(tasks) + 1}
      /\ \A t \in TaskIds : tasks'[t] = tasks[t]
      /\ tasks'[Len(tasks) + 1].status = "queued"
  BY CreateShape
<1>2. FleetTypeOK'
  BY FleetTypeStep DEF FleetNext
<1>3. tasks'[Len(tasks) + 1].started = FALSE
  BY DEF CreateTask, FleetTypeOK
<1>4. StartedOnce'
  BY <1>1, <1>3 DEF StartedOnce
<1>5. \A d : Running(d)' = Running(d)
             /\ CancelledUnstarted(d)' = CancelledUnstarted(d)
  BY <1>1, SameSets
<1>6. SlotsBacked' /\ MissingSlotsWereCancelledUnstarted'
  BY <1>1, <1>5 DEF SlotsBacked, MissingSlotsWereCancelledUnstarted,
                    Registered
<1> QED
  BY <1>2, <1>4, <1>6

LEMMA UpdateSlots ==
    ASSUME SlotInv, NEW t \in TaskIds, NEW status \in Statuses,
           UpdateTask(t, status)
    PROVE  SlotInv'
<1> USE DEF SlotInv
<1>0. PICK d \in Registered, used \in Nat :
         d = tasks[t].target /\ used = drones[d].used
  <2>1. tasks[t].target \in Registered
    BY UpdateShape
  <2> QED
    BY <2>1 DEF FleetTypeOK, DroneRow
<1>1. /\ Registered' = Registered
      /\ TaskIds' = TaskIds
      /\ tasks'[t] = TaskAfter(tasks[t], status)
      /\ \A u \in TaskIds \ {t} : tasks'[u] = tasks[u]
      /\ drones'[d].used = SlotsAfter(used, status)
      /\ \A e \in Registered \ {d} : drones'[e] = drones[e]
  BY <1>0, UpdateShape
<1>2. FleetTypeOK'
  BY FleetTypeStep DEF FleetNext
<1>3. tasks[t] \in TaskRow
  BY DEF FleetTypeOK, TaskIds
<1>4. /\ tasks'[t].status = status
      /\ tasks'[t].target = d
      /\ tasks'[t].started = (tasks[t].started \/ status = "running")
  BY <1>0, <1>1, <1>3 DEF TaskAfter, TaskRow
<1>5. /\ status \in Transitions[tasks[t].status]
      /\ tasks[t].status \in {"queued", "running"}
      /\ status \in {"running", "completed", "failed", "cancelled"}
      /\ tasks[t].status = "queued" => status \in {"running", "cancelled"}
      /\ status = "running" => tasks[t].status = "queued"
  BY <1>3 DEF UpdateTask, CanUpdate, Transitions, TaskRow, Statuses
<1>6. StartedOnce'
  BY <1>1, <1>4, <1>5 DEF StartedOnce
<1>7. \A e \in Registered \ {d} :
         /\ Running(e)' = Running(e)
         /\ CancelledUnstarted(e)' = CancelledUnstarted(e)
  BY <1>0, <1>1, <1>4 DEF Running, CancelledUnstarted, TasksOn
<1>8. \A e : /\ IsFiniteSet(Running(e))
             /\ IsFiniteSet(CancelledUnstarted(e))
             /\ Cardinality(Running(e)) \in Nat
             /\ Cardinality(CancelledUnstarted(e)) \in Nat
  BY Counts
<1>9. SlotsBacked' /\ MissingSlotsWereCancelledUnstarted'
  <2> DEFINE R == Cardinality(Running(d))
             C == Cardinality(CancelledUnstarted(d))
  <2>1. used <= R /\ R <= used + C
    BY <1>0 DEF SlotsBacked, MissingSlotsWereCancelledUnstarted
  <2> SUFFICES
        /\ SlotsAfter(used, status) <= Cardinality(Running(d)')
        /\ Cardinality(Running(d)') <=
             SlotsAfter(used, status) + Cardinality(CancelledUnstarted(d)')
    BY <1>1, <1>7 DEF SlotsBacked, MissingSlotsWereCancelledUnstarted
  <2>2. CASE status = "running"
    <3>1. /\ Running(d)' = Running(d) \cup {t}
          /\ t \notin Running(d)
          /\ CancelledUnstarted(d)' = CancelledUnstarted(d)
      BY <2>2, <1>0, <1>1, <1>4, <1>5 DEF Running, CancelledUnstarted, TasksOn
    <3>2. Cardinality(Running(d)') = R + 1
      BY <3>1, <1>8, FS_AddElement
    <3> QED
      BY <2>1, <2>2, <3>1, <3>2, <1>8 DEF SlotsAfter
  <2>3. CASE status # "running" /\ tasks[t].status = "running"
    <3>1. tasks'[t].started
      BY <2>3, <1>4 DEF StartedOnce
    <3>2. Running(d)' = Running(d) \ {t} /\ t \in Running(d)
      BY <2>3, <1>0, <1>1, <1>4 DEF Running, TasksOn
    <3>3. CancelledUnstarted(d)' = CancelledUnstarted(d)
      BY <2>3, <3>1, <1>1, <1>4 DEF CancelledUnstarted, TasksOn
    <3>4. Cardinality(Running(d)') = R - 1
      BY <3>2, <1>8, FS_RemoveElement
    <3>5. R # 0
      BY <3>2, <1>8, FS_EmptySet
    <3> QED
      BY <2>1, <2>3, <3>3, <3>4, <3>5, <1>8 DEF SlotsAfter
  <2>4. CASE status = "cancelled" /\ tasks[t].status = "queued"
    <3>1. /\ Running(d)' = Running(d)
          /\ CancelledUnstarted(d)' = CancelledUnstarted(d) \cup {t}
          /\ t \notin CancelledUnstarted(d)
      BY <2>4, <1>0, <1>1, <1>4
         DEF Running, CancelledUnstarted, TasksOn, StartedOnce
    <3>2. Cardinality(CancelledUnstarted(d)') = C + 1
      BY <3>1, <1>8, FS_AddElement
    <3> QED
      BY <2>1, <2>4, <3>1, <3>2, <1>8 DEF SlotsAfter
  <2> QED
    BY <1>5, <2>2, <2>3, <2>4
<1> QED
  BY <1>2, <1>6, <1>9

LEMMA SlotInvariance == FleetSpec => []SlotInv
<1>1. FleetInit => SlotInv
  BY DEF FleetInit, SlotInv, FleetTypeOK, StartedOnce, SlotsBacked,
         MissingSlotsWereCancelledUnstarted, Registered, TaskIds
<1>2. SlotInv /\ [FleetNext]_fleetVars => SlotInv'
  <2> SUFFICES ASSUME SlotInv, [FleetNext]_fleetVars PROVE SlotInv'
    OBVIOUS
  <2>1. CASE UNCHANGED fleetVars
    BY <2>1 DEF fleetVars, SlotInv, FleetTypeOK, StartedOnce, SlotsBacked,
         MissingSlotsWereCancelledUnstarted, Running, CancelledUnstarted,
         TasksOn, Registered, TaskIds
  <2> QED
    BY <2>1, RegisterSlots, CreateSlots, UpdateSlots DEF FleetNext
<1> QED
  BY <1>1, <1>2, PTL DEF FleetSpec

(* No slot is lost: a used slot of a drone is always held by a task that is
   running on it, whatever registers, finishes or is cancelled in between. *)
THEOREM NoSlotLost == FleetSpec => []SlotsBacked
BY SlotInvariance, PTL DEF SlotInv

(* The counter falls short of the running tasks by at most the number of
   tasks cancelled before they started. *)
THEOREM ShortfallBounded ==
    FleetSpec => []MissingSlotsWereCancelledUnstarted
BY SlotInvariance, PTL DEF SlotInv

(* As long as nothing is cancelled before it starts, the counter of a drone
   is exactly the number of tasks running on it. *)
THEOREM CounterExact ==
    FleetSpec =>
      [](\A d \in Registered :
            CancelledUnstarted(d) = {} =>
                drones[d].used = Cardinality(Running(d)))
<1>1. ASSUME SlotInv, NEW d \in Registered, CancelledUnstarted(d) = {}
      PROVE  drones[d].used = Cardinality(Running(d))
  <2>1. Cardinality(CancelledUnstarted(d)) = 0
    BY <1>1, FS_EmptySet
  <2>2. drones[d].used \in Nat /\ Cardinality(Running(d)) \in Nat
    BY <1>1, Counts DEF SlotInv, FleetTypeOK, DroneRow
  <2>3. /\ drones[d].used <= Cardinality(Running(d))
        /\ Cardinality(Running(d)) <=
             drones[d].used + Cardinality(CancelledUnstarted(d))
    BY <1>1 DEF SlotInv, SlotsBacked, MissingSlotsWereCancelledUnstarted
  <2> QED
    BY <2>1, <2>2, <2>3
<1>2. SlotInv => \A d \in Registered :
                    CancelledUnstarted(d) = {} =>
                        drones[d].used = Cardinality(Running(d))
  BY <1>1
<1> QED
  BY <1>2, SlotInvariance, PTL

-----------------------------------------------------------------------------
(* Refinement of TaskLifecycle *)

(* The refinement mapping, by name. *)
StatusBar == [t \in 1..MaxTasks |->
                IF t \in TaskIds THEN tasks[t].status ELSE "absent"]
TargetBar == [t \in 1..MaxTasks |->
                IF t \in TaskIds THEN tasks[t].target ELSE 0]

LEMMA LifecycleStep ==
    FleetTypeOK /\ [FleetNext]_fleetVars
        => [Lifecycle!Next]_(Lifecycle!vars)
<1> SUFFICES ASSUME FleetTypeOK, [FleetNext]_fleetVars
             PROVE  Lifecycle!Next \/ UNCHANGED <<StatusBar, TargetBar>>
  BY DEF Lifecycle!vars, StatusBar, TargetBar
<1>1. Len(tasks) \in Nat
  BY DEF FleetTypeOK
<1>2. ASSUME NEW job \in Jobs, CreateTask(job) PROVE Lifecycle!Next
  <2>0. PICK t \in Nat : t = Len(tasks) + 1
    BY <1>1
  <2>1. /\ t <= MaxTasks
        /\ TaskIds' = TaskIds \cup {t}
        /\ \A u \in TaskIds : tasks'[u] = tasks[u]
        /\ tasks'[t].target \in Drones
        /\ tasks'[t].status = "queued"
    BY <1>2, <2>0, CreateShape DEF FleetTypeOK
  <2>2. t \in 1..MaxTasks /\ t \notin TaskIds
    BY <1>1, <2>0, <2>1 DEF TaskIds
  <2>3. StatusBar[t] = "absent"
    BY <2>2 DEF StatusBar
  <2>4. StatusBar' = [StatusBar EXCEPT ![t] = "queued"]
    BY <2>1, <2>2 DEF StatusBar
  <2>5. TargetBar' = [TargetBar EXCEPT ![t] = tasks'[t].target]
    BY <2>1, <2>2 DEF TargetBar
  <2>6. Lifecycle!Submit(t)
    BY <2>1, <2>3, <2>4, <2>5 DEF Lifecycle!Submit, StatusBar, TargetBar
  <2> QED
    BY <2>2, <2>6 DEF Lifecycle!Next
<1>3. ASSUME NEW t \in TaskIds, NEW status \in Statuses,
             UpdateTask(t, status)
      PROVE  Lifecycle!Next
  <2>1. /\ TaskIds' = TaskIds
        /\ tasks'[t] = TaskAfter(tasks[t], status)
        /\ \A u \in TaskIds \ {t} : tasks'[u] = tasks[u]
        /\ \A u \in TaskIds : tasks'[u].target = tasks[u].target
    BY <1>3, UpdateShape
  <2>2. t \in 1..MaxTasks /\ StatusBar[t] = tasks[t].status
    BY <1>1 DEF FleetTypeOK, TaskIds, StatusBar
  <2>3. tasks[t] \in TaskRow
    BY DEF FleetTypeOK, TaskIds
  <2>4. tasks'[t].status = status
    BY <2>1, <2>3 DEF TaskAfter, TaskRow
  <2>5. StatusBar' = [StatusBar EXCEPT ![t] = status]
    BY <2>1, <2>2, <2>4 DEF StatusBar
  <2>6. TargetBar' = TargetBar
    BY <2>1 DEF TargetBar
  <2>7. \/ StatusBar[t] = "queued" /\ status \in {"running", "cancelled"}
        \/ StatusBar[t] = "running"
             /\ status \in {"completed", "failed", "cancelled"}
    BY <1>3, <2>2, <2>3
       DEF UpdateTask, CanUpdate, Transitions, TaskRow, Statuses
  <2>8. \/ Lifecycle!Start(t)
        \/ Lifecycle!Cancel(t)
        \/ \E outcome \in Lifecycle!Outcomes : Lifecycle!Finish(t, outcome)
    BY <2>5, <2>6, <2>7
       DEF Lifecycle!Start, Lifecycle!Cancel, Lifecycle!Finish,
           Lifecycle!Outcomes, StatusBar, TargetBar
  <2> QED
    BY <2>2, <2>8 DEF Lifecycle!Next
<1>4. CASE UNCHANGED tasks
  BY <1>4 DEF StatusBar, TargetBar, TaskIds
<1> QED
  BY <1>2, <1>3, <1>4 DEF FleetNext, RegisterDrone, fleetVars

(* The database implements the life cycle: a task is created once for one
   drone, started at most once, and keeps the outcome it was given. *)
THEOREM FleetImplementsLifecycle == FleetSpec => TaskLifecycleHolds
<1>1. FleetInit => FleetTypeOK
  BY DEF FleetInit, FleetTypeOK, Registered, TaskIds
<1>2. FleetInit => Lifecycle!Init
  BY DEF FleetInit, Lifecycle!Init, Lifecycle!NoTarget, TaskIds
<1> QED
  BY <1>1, <1>2, FleetTypeStep, LifecycleStep, PTL
     DEF FleetSpec, TaskLifecycleHolds, Lifecycle!Spec
=============================================================================
