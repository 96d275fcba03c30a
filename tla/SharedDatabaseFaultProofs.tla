--------------------- MODULE SharedDatabaseFaultProofs ---------------------
(***************************************************************************)
(* Proofs about what a method that is given up half-way may cost, when one *)
(* process updates tasks: the slot counter drifts from the running tasks   *)
(* by at most one for each such method, and the audit events stay behind   *)
(* the tables, in order, and complete while there is none.                 *)
(***************************************************************************)
EXTENDS SharedDatabaseProofs, FleetStateProofs

USE DronesAssumption, OffersAssumption, JobsAssumption, MaxTasksAssumption,
    ProcessesAssumption, UpdatersAssumption, MaxFaultsAssumption

-----------------------------------------------------------------------------
(* Moves of one process *)

(* Where a process goes when it continues its update. *)
LEMMA UpdateMoves ==
    ASSUME DbTypeOK, NEW p \in Processes, Continue(p),
           method[p].step \in UpdateSteps
    PROVE  \E new :
             /\ Goto(p, new)
             /\ method[p].step = "log" => new = NoMethod
             /\ method[p].step # "log" =>
                  /\ new.step = StepAfter(method[p].step, method[p].status)
                  /\ new.task = method[p].task
                  /\ new.status = method[p].status
                  /\ new.target = method[p].target
<1>1. method[p] \in Updating
  BY MethodTypes
<1>2. CASE method[p].step = "log"
  BY <1>2 DEF Continue, StepAfter, Return
<1>3. CASE method[p].step # "log"
  <2>1. PICK next : next = StepAfter(method[p].step, method[p].status)
    OBVIOUS
  <2>2. next # "end"
    BY <1>3, <2>1 DEF StepAfter, UpdateSteps
  <2>3. PICK new : new = [method[p] EXCEPT !.step = next]
    OBVIOUS
  <2>4. Goto(p, new)
    BY <2>1, <2>2, <2>3 DEF Continue
  <2>5. /\ new.step = next
        /\ new.task = method[p].task
        /\ new.status = method[p].status
        /\ new.target = method[p].target
    BY <1>1, <2>3 DEF Updating
  <2> QED
    BY <1>3, <2>1, <2>4, <2>5
<1> QED
  BY <1>2, <1>3

LEMMA Moved ==
    ASSUME DbTypeOK, NEW p \in Processes, NEW new, Goto(p, new)
    PROVE  /\ method'[p] = new
           /\ \A q \in Processes \ {p} : method'[q] = method[q]
BY DEF DbTypeOK, Goto

(* What the updater finds when it writes, since what it has read holds. *)
LEMMA Writing ==
    ASSUME DbTypeOK, ReadHolds, NEW p \in Processes, WriteStatus(p)
    PROVE  /\ method[p].step = "write"
           /\ method[p].task \in TaskIds
           /\ method[p].target = tasks[method[p].task].target
           /\ method[p].target \in Registered
           /\ method[p].status \in
                {"running", "completed", "failed", "cancelled"}
           /\ tasks[method[p].task].status \in {"queued", "running"}
           /\ tasks[method[p].task].status = "queued"
                => method[p].status \in {"running", "cancelled"}
           /\ method[p].status = "running"
                => tasks[method[p].task].status = "queued"
           /\ TaskIds' = TaskIds
           /\ tasks'[method[p].task].target = method[p].target
           /\ tasks'[method[p].task].status = method[p].status
           /\ tasks'[method[p].task].started =
                (tasks[method[p].task].started \/ method[p].status = "running")
           /\ \A u \in TaskIds \ {method[p].task} : tasks'[u] = tasks[u]
<1>1. method[p].step = "write" /\ method[p].step \in UpdateSteps
  BY DEF WriteStatus, At, UpdateSteps
<1>2. PICK t : t = method[p].task
  OBVIOUS
<1>3. /\ t \in TaskIds
      /\ method[p].status \in Statuses
      /\ method[p].target = tasks[t].target
      /\ method[p].target \in Registered
  BY <1>1, <1>2, MethodTypes
<1>4. /\ method[p].status \in Transitions[tasks[t].status]
      /\ method[p].started = tasks[t].started
  BY <1>1, <1>2 DEF ReadHolds
<1>5. tasks[t] \in TaskRow /\ tasks[t].status \in Statuses
  BY <1>3, RowTypes DEF DbTypeOK
<1>6. /\ TaskIds' = TaskIds
      /\ tasks'[t] = [tasks[t] EXCEPT
           !.status = method[p].status,
           !.started = method[p].started \/ method[p].status = "running"]
      /\ \A u \in TaskIds \ {t} : tasks'[u] = tasks[u]
  BY <1>2, RowWritten
<1>7. /\ tasks'[t].status = method[p].status
      /\ tasks'[t].target = tasks[t].target
      /\ tasks'[t].started = (tasks[t].started \/ method[p].status = "running")
  BY <1>4, <1>5, <1>6 DEF TaskRow
<1>8. /\ method[p].status \in {"running", "completed", "failed", "cancelled"}
      /\ tasks[t].status \in {"queued", "running"}
      /\ tasks[t].status = "queued"
           => method[p].status \in {"running", "cancelled"}
      /\ method[p].status = "running" => tasks[t].status = "queued"
  BY <1>4, <1>5 DEF Transitions, Statuses
<1> QED
  BY <1>1, <1>2, <1>3, <1>6, <1>7, <1>8

(* A new task is queued, and the other rows are left alone. *)
LEMMA Inserting ==
    ASSUME DbTypeOK, NEW p \in Processes, InsertTask(p)
    PROVE  /\ Len(tasks) + 1 \notin TaskIds
           /\ TaskIds' = TaskIds \cup {Len(tasks) + 1}
           /\ \A u \in TaskIds : tasks'[u] = tasks[u]
           /\ tasks'[Len(tasks) + 1].status = "queued"
           /\ tasks'[Len(tasks) + 1].started = FALSE
           /\ Registered' = Registered
<1>1. tasks \in Seq(TaskRow)
  BY DEF DbTypeOK, FleetTypeOK
<1>2. tasks' = Append(tasks, [target |-> method[p].target,
                              mode |-> method[p].mode,
                              status |-> "queued", started |-> FALSE])
  BY DEF InsertTask
<1>3. PICK row : /\ tasks' = Append(tasks, row)
                 /\ row.status = "queued" /\ row.started = FALSE
  BY <1>2
<1>4. drones' = drones
  BY DEF InsertTask
<1> QED
  BY <1>1, <1>3, <1>4 DEF TaskIds, Registered

-----------------------------------------------------------------------------
(* The methods that hold a slot of a drone: the counter runs ahead of the
   rows between a reservation and the row's start, and between an outcome
   and the release. *)
HoldersOf(d) == {p \in Processes : Holding(method[p]) /\ method[p].target = d}

(* The counter of a drone against the rows and the methods in progress. *)
Drift(d) ==
    /\ drones[d].used <=
         Cardinality(Running(d)) + faults + Cardinality(HoldersOf(d))
    /\ Cardinality(Running(d)) + Cardinality(HoldersOf(d)) <=
         drones[d].used + Cardinality(CancelledUnstarted(d))

DriftInv == /\ DbTypeOK
            /\ ReadHolds
            /\ StartedOnce
            /\ \A d \in Registered : Drift(d)

LEMMA Numbers ==
    ASSUME DbTypeOK, NEW d
    PROVE  /\ IsFiniteSet(Running(d)) /\ Cardinality(Running(d)) \in Nat
           /\ IsFiniteSet(CancelledUnstarted(d))
           /\ Cardinality(CancelledUnstarted(d)) \in Nat
           /\ IsFiniteSet(HoldersOf(d)) /\ Cardinality(HoldersOf(d)) \in Nat
           /\ faults \in Nat
           /\ d \in Registered => drones[d].used \in Nat
<1>1. HoldersOf(d) \subseteq Processes
  BY DEF HoldersOf
<1>2. IsFiniteSet(HoldersOf(d)) /\ Cardinality(HoldersOf(d)) \in Nat
  BY <1>1, FS_Subset, FS_CardinalityType
<1>3. FleetTypeOK /\ faults \in Nat
  BY DEF DbTypeOK
<1>4. d \in Registered => drones[d].used \in Nat
  BY <1>3 DEF FleetTypeOK, DroneRow
<1> QED
  BY <1>2, <1>3, <1>4, Counts

LEMMA HoldersAfter ==
    ASSUME DbTypeOK, NEW p \in Processes, NEW new, Goto(p, new), NEW d
    PROVE  HoldersOf(d)' = IF Holding(new) /\ new.target = d
                           THEN HoldersOf(d) \cup {p}
                           ELSE HoldersOf(d) \ {p}
<1>1. /\ method'[p] = new
      /\ \A q \in Processes \ {p} : method'[q] = method[q]
  BY Moved
<1>2. HoldersOf(d)' =
        {q \in Processes : Holding(method'[q]) /\ method'[q].target = d}
  BY DEF HoldersOf, Holding
<1>3. CASE Holding(new) /\ new.target = d
  BY <1>1, <1>2, <1>3 DEF HoldersOf
<1>4. CASE ~(Holding(new) /\ new.target = d)
  BY <1>1, <1>2, <1>4 DEF HoldersOf
<1> QED
  BY <1>3, <1>4

LEMMA HoldersKept ==
    ASSUME DbTypeOK, NEW p \in Processes, NEW new, Goto(p, new),
           ~Holding(method[p]), ~Holding(new)
    PROVE  \A d : HoldersOf(d)' = HoldersOf(d)
<1>1. \A d : HoldersOf(d)' = HoldersOf(d) \ {p} /\ p \notin HoldersOf(d)
  BY HoldersAfter DEF HoldersOf
<1> QED
  BY <1>1

(* The same numbers give the same bounds. *)
LEMMA DriftSame ==
    ASSUME NEW d, Drift(d),
           drones'[d].used = drones[d].used,
           Running(d)' = Running(d),
           CancelledUnstarted(d)' = CancelledUnstarted(d),
           HoldersOf(d)' = HoldersOf(d),
           faults' = faults
    PROVE  Drift(d)'
BY DEF Drift

LEMMA RowsSame ==
    ASSUME tasks' = tasks
    PROVE  /\ \A d : /\ Running(d)' = Running(d)
                     /\ CancelledUnstarted(d)' = CancelledUnstarted(d)
           /\ StartedOnce => StartedOnce'
BY DEF Running, CancelledUnstarted, TasksOn, TaskIds, StartedOnce

Drifting == StartedOnce' /\ \A d \in Registered' : Drift(d)'

(* Moves that hold no slot before or after and leave the tables alone. *)
LEMMA DriftMoved ==
    ASSUME DriftInv, NEW p \in Processes, NEW new, Goto(p, new),
           ~Holding(method[p]), ~Holding(new),
           drones' = drones, tasks' = tasks, faults' = faults
    PROVE  Drifting
<1>1. \A d : HoldersOf(d)' = HoldersOf(d)
  BY HoldersKept DEF DriftInv
<1>2. Registered' = Registered
  BY DEF Registered
<1>3. ASSUME NEW d \in Registered PROVE Drift(d)'
  BY <1>1, DriftSame, RowsSame DEF DriftInv
<1> QED
  BY <1>2, <1>3, RowsSame DEF DriftInv, Drifting

LEMMA RegisterDrift ==
    ASSUME DriftInv, NEW p \in Processes, NEW d \in Drones,
           NEW offer \in Offers[d], Register(p, d, offer)
    PROVE  Drifting
<1>1. DbTypeOK /\ FleetTypeOK
  BY DEF DriftInv, DbTypeOK
<1>2. /\ RegisterDrone(d, offer)
      /\ method' = method /\ faults' = faults
  BY DEF Register
<1>3. /\ Registered' = Registered \cup {d}
      /\ drones'[d].used = UsedSlots(d)
      /\ \A e \in Registered \ {d} : drones'[e] = drones[e]
      /\ tasks' = tasks
  BY <1>1, <1>2, RegisterShape
<1>4. \A e : HoldersOf(e)' = HoldersOf(e)
  BY <1>2 DEF HoldersOf, Holding
<1>5. ASSUME NEW e \in Registered PROVE Drift(e)'
  <2>1. drones'[e].used = drones[e].used
    BY <1>3, <1>5 DEF UsedSlots
  <2> QED
    BY <1>2, <1>3, <1>4, <1>5, <2>1, DriftSame, RowsSame DEF DriftInv
<1>6. ASSUME d \notin Registered PROVE Drift(d)'
  <2>1. drones'[d].used = 0
    BY <1>3, <1>6 DEF UsedSlots
  <2>2. Running(d) = {}
    BY <1>1, <1>6 DEF Running, TasksOn, FleetTypeOK
  <2>3. HoldersOf(d) = {}
    <3>1. \A q \in Processes :
             Holding(method[q]) => method[q].step \in UpdateSteps
      BY DEF Holding, UpdateSteps
    <3>2. \A q \in Processes :
             Holding(method[q]) => method[q].target \in Registered
      BY <1>1, <3>1, MethodTypes
    <3> QED
      BY <1>6, <3>2 DEF HoldersOf
  <2>4. /\ Cardinality(Running(d)') = 0
        /\ Cardinality(HoldersOf(d)') = 0
        /\ CancelledUnstarted(d)' = CancelledUnstarted(d)
    BY <1>3, <1>4, <2>2, <2>3, RowsSame, FS_EmptySet
  <2>5. faults \in Nat /\ Cardinality(CancelledUnstarted(d)) \in Nat
    BY <1>1, Numbers
  <2> QED
    BY <1>2, <2>1, <2>4, <2>5 DEF Drift
<1> QED
  BY <1>3, <1>5, <1>6, RowsSame DEF DriftInv, Drifting

LEMMA InsertDrift ==
    ASSUME DriftInv, NEW p \in Processes, InsertTask(p)
    PROVE  Drifting
<1>1. DbTypeOK
  BY DEF DriftInv
<1>2. /\ TaskIds' = TaskIds \cup {Len(tasks) + 1}
      /\ \A u \in TaskIds : tasks'[u] = tasks[u]
      /\ tasks'[Len(tasks) + 1].status = "queued"
      /\ tasks'[Len(tasks) + 1].started = FALSE
      /\ Registered' = Registered
  BY <1>1, Inserting
<1>3. \A d : Running(d)' = Running(d)
             /\ CancelledUnstarted(d)' = CancelledUnstarted(d)
  BY <1>2, SameSets
<1>4. StartedOnce'
  BY <1>2 DEF StartedOnce, DriftInv
<1>5. \E new : Goto(p, new) /\ new.step = "log"
  BY DEF InsertTask
<1>6. method[p].step = "insert" /\ drones' = drones /\ faults' = faults
  BY DEF InsertTask, At
<1>7. \A d : HoldersOf(d)' = HoldersOf(d)
  BY <1>1, <1>5, <1>6, HoldersKept DEF Holding
<1>8. ASSUME NEW d \in Registered PROVE Drift(d)'
  BY <1>3, <1>6, <1>7, <1>8, DriftSame DEF DriftInv
<1> QED
  BY <1>2, <1>4, <1>8 DEF Drifting

LEMMA ReserveDrift ==
    ASSUME DriftInv, NEW p \in Processes, Reserve(p)
    PROVE  Drifting
<1>1. /\ DbTypeOK /\ FleetTypeOK
      /\ method[p].step = "reserve"
      /\ tasks' = tasks /\ faults' = faults
  BY DEF DriftInv, DbTypeOK, Reserve, At
<1>2. ~Holding(method[p])
  BY <1>1 DEF Holding
<1>3. CASE Return(p) /\ drones' = drones
  BY <1>1, <1>2, <1>3, DriftMoved DEF Return, Holding, NoMethod
<1>4. CASE /\ Continue(p)
           /\ drones' = [drones EXCEPT ![method[p].target].used = @ + 1]
  <2>1. PICK d \in Registered, used \in Nat :
           d = method[p].target /\ used = drones[d].used
    <3>1. method[p].target \in Registered
      BY <1>1, MethodTypes DEF UpdateSteps
    <3> QED
      BY <1>1, <3>1, Numbers
  <2>2. /\ drones'[d].used = used + 1
        /\ \A e \in Registered \ {d} : drones'[e] = drones[e]
        /\ Registered' = Registered
    <3>1. used + 1 \in Nat /\ drones' = [drones EXCEPT ![d].used = used + 1]
      BY <1>4, <2>1
    <3> QED
      BY <1>1, <3>1, CounterChanges
  <2>3. PICK new : /\ Goto(p, new)
                   /\ new.step = "write" /\ new.status = "running"
                   /\ new.target = d
    <3>1. method[p].step \in UpdateSteps /\ method[p].status = "running"
      BY <1>1 DEF UpdateSteps, DriftInv, ReadHolds
    <3> QED
      BY <1>1, <1>4, <2>1, <3>1, UpdateMoves DEF StepAfter
  <2>4. Holding(new)
    BY <2>3 DEF Holding
  <2>5. /\ HoldersOf(d)' = HoldersOf(d) \cup {p}
        /\ p \notin HoldersOf(d)
        /\ \A e : e # d => HoldersOf(e)' = HoldersOf(e)
    BY <1>1, <1>2, <2>3, <2>4, HoldersAfter DEF HoldersOf
  <2>6. Cardinality(HoldersOf(d)') = Cardinality(HoldersOf(d)) + 1
    BY <1>1, <2>5, Numbers, FS_AddElement
  <2>7. Drift(d)'
    BY <1>1, <2>1, <2>2, <2>6, Numbers, RowsSame DEF Drift, DriftInv
  <2>8. ASSUME NEW e \in Registered \ {d} PROVE Drift(e)'
    BY <1>1, <2>2, <2>5, <2>8, DriftSame, RowsSame DEF DriftInv
  <2> QED
    BY <1>1, <2>2, <2>7, <2>8, RowsSame DEF Drifting, DriftInv
<1> QED
  BY <1>3, <1>4 DEF Reserve

LEMMA WriteDrift ==
    ASSUME DriftInv, NEW p \in Processes, WriteStatus(p)
    PROVE  Drifting
<1>1. /\ DbTypeOK /\ ReadHolds
      /\ drones' = drones /\ faults' = faults /\ Registered' = Registered
  BY DEF DriftInv, WriteStatus, Registered
<1>2. PICK t, d, status :
         /\ t = method[p].task /\ d = method[p].target
         /\ status = method[p].status
  OBVIOUS
<1>3. /\ method[p].step = "write"
      /\ t \in TaskIds /\ d = tasks[t].target /\ d \in Registered
      /\ status \in {"running", "completed", "failed", "cancelled"}
      /\ tasks[t].status \in {"queued", "running"}
      /\ tasks[t].status = "queued" => status \in {"running", "cancelled"}
      /\ status = "running" => tasks[t].status = "queued"
      /\ TaskIds' = TaskIds
      /\ tasks'[t].target = d /\ tasks'[t].status = status
      /\ tasks'[t].started = (tasks[t].started \/ status = "running")
      /\ \A u \in TaskIds \ {t} : tasks'[u] = tasks[u]
  BY <1>1, <1>2, Writing
<1>4. /\ tasks[t].status = "queued" => ~tasks[t].started
      /\ tasks[t].status = "running" => tasks[t].started
  BY <1>3 DEF DriftInv, StartedOnce
<1>5. StartedOnce'
  BY <1>3, <1>4 DEF DriftInv, StartedOnce
<1>6. PICK new : /\ Goto(p, new)
                 /\ new.step = (IF status = "running" THEN "log" ELSE "release")
                 /\ new.status = status /\ new.target = d
  <2>1. Continue(p) /\ method[p].step \in UpdateSteps
    BY <1>3 DEF WriteStatus, UpdateSteps
  <2> QED
    BY <1>1, <1>2, <1>3, <2>1, UpdateMoves DEF StepAfter
<1>7. /\ Holding(method[p]) <=> status = "running"
      /\ Holding(new) <=> status # "running"
  BY <1>2, <1>3, <1>6 DEF Holding
<1>8. ASSUME NEW e \in Registered \ {d} PROVE Drift(e)'
  <2>1. Running(e)' = Running(e)
        /\ CancelledUnstarted(e)' = CancelledUnstarted(e)
    BY <1>3, <1>8 DEF Running, CancelledUnstarted, TasksOn
  <2>2. HoldersOf(e)' = HoldersOf(e)
    <3>1. p \notin HoldersOf(e)
      BY <1>2, <1>8 DEF HoldersOf
    <3> QED
      BY <1>1, <1>6, <1>8, <3>1, HoldersAfter
  <2> QED
    BY <1>1, <2>1, <2>2, DriftSame DEF DriftInv
<1>9. PICK used \in Nat, R \in Nat, C \in Nat, H \in Nat, lost \in Nat :
         /\ used = drones[d].used
         /\ R = Cardinality(Running(d))
         /\ C = Cardinality(CancelledUnstarted(d))
         /\ H = Cardinality(HoldersOf(d))
         /\ lost = faults
  BY <1>1, <1>3, Numbers
<1>10. used <= R + lost + H /\ R + H <= used + C
  BY <1>3, <1>9 DEF DriftInv, Drift
<1>11. \A R2, C2, H2 \in Nat :
          /\ Cardinality(Running(d))' = R2
          /\ Cardinality(CancelledUnstarted(d))' = C2
          /\ Cardinality(HoldersOf(d))' = H2
          /\ used <= R2 + lost + H2
          /\ R2 + H2 <= used + C2
          => Drift(d)'
  BY <1>1, <1>9 DEF Drift
<1>12. status # "running" => /\ Cardinality(HoldersOf(d))' = H + 1
                             /\ H + 1 \in Nat
  <2>1. ASSUME status # "running"
        PROVE  HoldersOf(d)' = HoldersOf(d) \cup {p} /\ p \notin HoldersOf(d)
    BY <1>1, <1>6, <1>7, <2>1, HoldersAfter DEF HoldersOf
  <2> QED
    BY <1>1, <1>9, <2>1, Numbers, FS_AddElement
<1>13. ASSUME status = "running" PROVE Drift(d)'
  <2>1. /\ Running(d)' = Running(d) \cup {t}
        /\ t \notin Running(d)
        /\ CancelledUnstarted(d)' = CancelledUnstarted(d)
    BY <1>3, <1>13 DEF Running, CancelledUnstarted, TasksOn
  <2>2. HoldersOf(d)' = HoldersOf(d) \ {p} /\ p \in HoldersOf(d)
    BY <1>1, <1>2, <1>6, <1>7, <1>13, HoldersAfter DEF HoldersOf
  <2>3. Cardinality(Running(d))' = R + 1
    BY <1>1, <1>9, <2>1, Numbers, FS_AddElement
  <2>4. Cardinality(HoldersOf(d))' = H - 1
    BY <1>1, <1>9, <2>2, Numbers, FS_RemoveElement
  <2>5. H # 0
    BY <1>1, <1>9, <2>2, Numbers, FS_EmptySet
  <2>6. Cardinality(CancelledUnstarted(d))' = C
    BY <1>9, <2>1
  <2>7. /\ R + 1 \in Nat /\ H - 1 \in Nat
        /\ used <= (R + 1) + lost + (H - 1) /\ (R + 1) + (H - 1) <= used + C
    BY <1>10, <2>5
  <2> QED
    BY <1>11, <2>3, <2>4, <2>6, <2>7, Zenon
<1>14. ASSUME status # "running", tasks[t].status = "running"
       PROVE  Drift(d)'
  <2>1. /\ Running(d)' = Running(d) \ {t}
        /\ t \in Running(d)
        /\ CancelledUnstarted(d)' = CancelledUnstarted(d)
    BY <1>3, <1>4, <1>14 DEF Running, CancelledUnstarted, TasksOn
  <2>2. Cardinality(Running(d))' = R - 1
    BY <1>1, <1>9, <2>1, Numbers, FS_RemoveElement
  <2>3. R # 0
    BY <1>1, <1>9, <2>1, Numbers, FS_EmptySet
  <2>4. Cardinality(CancelledUnstarted(d))' = C
    BY <1>9, <2>1
  <2>5. /\ R - 1 \in Nat
        /\ used <= (R - 1) + lost + (H + 1) /\ (R - 1) + (H + 1) <= used + C
    BY <1>10, <2>3
  <2> QED
    BY <1>11, <1>12, <1>14, <2>2, <2>4, <2>5, Zenon
<1>15. ASSUME status = "cancelled", tasks[t].status = "queued"
       PROVE  Drift(d)'
  <2>1. /\ Running(d)' = Running(d)
        /\ CancelledUnstarted(d)' = CancelledUnstarted(d) \cup {t}
        /\ t \notin CancelledUnstarted(d)
    BY <1>3, <1>4, <1>15 DEF Running, CancelledUnstarted, TasksOn
  <2>2. Cardinality(CancelledUnstarted(d))' = C + 1
    BY <1>1, <1>9, <2>1, Numbers, FS_AddElement
  <2>3. Cardinality(Running(d))' = R
    BY <1>9, <2>1
  <2>4. /\ C + 1 \in Nat
        /\ used <= R + lost + (H + 1) /\ R + (H + 1) <= used + (C + 1)
    BY <1>10
  <2>5. status # "running"
    BY <1>15
  <2> QED
    BY <1>11, <1>12, <2>2, <2>3, <2>4, <2>5, Zenon
<1>16. Drift(d)'
  BY <1>3, <1>13, <1>14, <1>15
<1> QED
  BY <1>1, <1>5, <1>8, <1>16 DEF Drifting

LEMMA ReleaseDrift ==
    ASSUME DriftInv, NEW p \in Processes, Release(p)
    PROVE  Drifting
<1>1. /\ DbTypeOK /\ FleetTypeOK
      /\ method[p].step = "release"
      /\ tasks' = tasks /\ faults' = faults
      /\ Continue(p)
      /\ drones' = [drones EXCEPT
           ![method[p].target].used = Decremented(@)]
  BY DEF DriftInv, DbTypeOK, Release, At
<1>2. method[p].step \in UpdateSteps /\ Holding(method[p])
  BY <1>1 DEF UpdateSteps, Holding
<1>3. PICK d \in Registered, used \in Nat :
         d = method[p].target /\ used = drones[d].used
  <2>1. method[p].target \in Registered
    BY <1>1, <1>2, MethodTypes
  <2> QED
    BY <1>1, <2>1, Numbers
<1>4. Decremented(used) \in Nat /\ Decremented(used) <= used
      /\ used <= Decremented(used) + 1
  BY DEF Decremented
<1>5. /\ drones'[d].used = Decremented(used)
      /\ \A e \in Registered \ {d} : drones'[e] = drones[e]
      /\ Registered' = Registered
  <2>1. drones' = [drones EXCEPT ![d].used = Decremented(used)]
    BY <1>1, <1>3
  <2> QED
    BY <1>1, <1>4, <2>1, CounterChanges
<1>6. PICK new : Goto(p, new) /\ new.step = "log"
  BY <1>1, <1>2, UpdateMoves DEF StepAfter
<1>7. /\ HoldersOf(d)' = HoldersOf(d) \ {p}
      /\ p \in HoldersOf(d)
      /\ \A e : e # d => HoldersOf(e)' = HoldersOf(e)
  <2>1. ~Holding(new)
    BY <1>6 DEF Holding
  <2> QED
    BY <1>1, <1>2, <1>3, <1>6, <2>1, HoldersAfter DEF HoldersOf
<1>8. /\ Cardinality(HoldersOf(d))' = Cardinality(HoldersOf(d)) - 1
      /\ Cardinality(HoldersOf(d)) # 0
  <2>1. Cardinality(HoldersOf(d)') = Cardinality(HoldersOf(d)) - 1
    BY <1>1, <1>7, Numbers, FS_RemoveElement
  <2>2. Cardinality(HoldersOf(d)) # 0
    BY <1>1, <1>7, Numbers, FS_EmptySet
  <2> QED
    BY <2>1, <2>2
<1>9. Drift(d)'
  <2>1. PICK R \in Nat, C \in Nat, H \in Nat, lost \in Nat :
           /\ R = Cardinality(Running(d))
           /\ C = Cardinality(CancelledUnstarted(d))
           /\ H = Cardinality(HoldersOf(d))
           /\ lost = faults
    BY <1>1, Numbers
  <2>2. used <= R + lost + H /\ R + H <= used + C
    BY <1>3, <2>1 DEF DriftInv, Drift
  <2>3. /\ Decremented(used) <= R + lost + (H - 1)
        /\ R + (H - 1) <= Decremented(used) + C
    BY <1>8, <2>1, <2>2 DEF Decremented
  <2>4. /\ Cardinality(Running(d))' = R
        /\ Cardinality(CancelledUnstarted(d))' = C
        /\ Cardinality(HoldersOf(d))' = H - 1
    BY <1>1, <1>8, <2>1, RowsSame
  <2> QED
    BY <1>1, <1>5, <2>1, <2>3, <2>4 DEF Drift
<1>10. ASSUME NEW e \in Registered \ {d} PROVE Drift(e)'
  BY <1>1, <1>5, <1>7, <1>10, DriftSame, RowsSame DEF DriftInv
<1> QED
  BY <1>1, <1>5, <1>9, <1>10, RowsSame DEF Drifting, DriftInv

(* A method given up loses at most the slot it held. *)
LEMMA GiveUpDrift ==
    ASSUME DriftInv, NEW p \in Processes, GiveUp(p)
    PROVE  Drifting
<1>1. /\ DbTypeOK
      /\ Goto(p, NoMethod)
      /\ drones' = drones /\ tasks' = tasks /\ faults' = faults + 1
      /\ Registered' = Registered
  BY DEF DriftInv, GiveUp, Return, Registered
<1>2. ASSUME NEW d \in Registered PROVE Drift(d)'
  <2>1. HoldersOf(d)' = HoldersOf(d) \ {p}
    BY <1>1, HoldersAfter DEF Holding, NoMethod
  <2>2. /\ Cardinality(HoldersOf(d))' <= Cardinality(HoldersOf(d))
        /\ Cardinality(HoldersOf(d)) <= Cardinality(HoldersOf(d))' + 1
        /\ Cardinality(HoldersOf(d))' \in Nat
    <3>1. Cardinality(HoldersOf(d)) \in Nat /\ IsFiniteSet(HoldersOf(d))
      BY <1>1, Numbers
    <3>2. CASE p \notin HoldersOf(d)
      <4>1. Cardinality(HoldersOf(d))' = Cardinality(HoldersOf(d))
        BY <2>1, <3>2
      <4> QED
        BY <3>1, <4>1
    <3>3. CASE p \in HoldersOf(d)
      <4>1. Cardinality(HoldersOf(d)') = Cardinality(HoldersOf(d)) - 1
        BY <2>1, <3>1, <3>3, FS_RemoveElement
      <4>2. Cardinality(HoldersOf(d)) # 0
        BY <3>1, <3>3, FS_EmptySet
      <4> QED
        BY <3>1, <4>1, <4>2
    <3> QED
      BY <3>2, <3>3
  <2>3. PICK used \in Nat, R \in Nat, C \in Nat, H \in Nat, lost \in Nat,
             H2 \in Nat :
           /\ used = drones[d].used
           /\ R = Cardinality(Running(d))
           /\ C = Cardinality(CancelledUnstarted(d))
           /\ H = Cardinality(HoldersOf(d))
           /\ lost = faults
           /\ H2 = Cardinality(HoldersOf(d))'
    BY <1>1, <2>2, Numbers
  <2>4. used <= R + lost + H /\ R + H <= used + C
    BY <2>3 DEF DriftInv, Drift
  <2>5. used <= R + (lost + 1) + H2 /\ R + H2 <= used + C
    BY <2>2, <2>3, <2>4
  <2>6. /\ Cardinality(Running(d))' = R
        /\ Cardinality(CancelledUnstarted(d))' = C
    BY <1>1, <2>3, RowsSame
  <2> QED
    BY <1>1, <2>3, <2>5, <2>6 DEF Drift
<1> QED
  BY <1>1, <1>2, RowsSame DEF Drifting, DriftInv

LEMMA DriftStep == OneUpdater /\ DriftInv /\ [DbNext]_dbVars => DriftInv'
<1> SUFFICES ASSUME OneUpdater, DriftInv, [DbNext]_dbVars PROVE DriftInv'
  OBVIOUS
<1>0. DbTypeOK' /\ ReadHolds' /\ DbTypeOK
  BY DbTypeStep, ReadHoldsStep DEF DriftInv
<1>1. ASSUME NEW p \in Processes,
             \/ \E job \in Jobs : BeginCreate(p, job)
             \/ Widen(p)
      PROVE  Drifting
  <2>1. /\ drones' = drones /\ tasks' = tasks /\ faults' = faults
        /\ method[p].step \in {"none", "widen"}
    BY <1>1 DEF BeginCreate, Widen, At
  <2>2. \E next : /\ Goto(p, next)
                  /\ next.step \in {"insert", "widen", "none"}
    BY <1>1, CreateMoves DEF BeginCreate, Widen
  <2> QED
    BY <2>1, <2>2, DriftMoved DEF Holding
<1>2. ASSUME NEW p \in Processes, NEW t \in TaskIds, NEW status \in Statuses,
             BeginUpdate(p, t, status)
      PROVE  Drifting
  <2>1. /\ drones' = drones /\ tasks' = tasks /\ faults' = faults
        /\ method[p].step = "none"
    BY <1>2 DEF BeginUpdate, At
  <2>2. PICK new : /\ Goto(p, new)
                   /\ new.step = StepAfter("read", status)
                   /\ new.status = status
    BY <1>2 DEF BeginUpdate, UpdateOf
  <2>3. ~Holding(new) /\ ~Holding(method[p])
    BY <2>1, <2>2 DEF Holding, StepAfter
  <2> QED
    BY <2>1, <2>2, <2>3, DriftMoved
<1>3. ASSUME NEW p \in Processes, LogEvent(p) PROVE Drifting
  <2>1. /\ drones' = drones /\ tasks' = tasks /\ faults' = faults
        /\ method[p].step = "log" /\ Continue(p)
    BY <1>3 DEF LogEvent, At
  <2>2. Goto(p, NoMethod)
    BY <2>1 DEF Continue, StepAfter, Return
  <2> QED
    BY <2>1, <2>2, DriftMoved DEF Holding, NoMethod
<1>4. ASSUME UNCHANGED dbVars PROVE Drifting
  <2>1. /\ drones' = drones /\ tasks' = tasks /\ faults' = faults
        /\ method' = method /\ Registered' = Registered
    BY <1>4 DEF dbVars, Registered
  <2>2. \A d : HoldersOf(d)' = HoldersOf(d)
    BY <2>1 DEF HoldersOf, Holding
  <2>3. ASSUME NEW d \in Registered PROVE Drift(d)'
    BY <2>1, <2>2, DriftSame, RowsSame DEF DriftInv
  <2> QED
    BY <2>1, <2>3, RowsSame DEF DriftInv, Drifting
<1>5. Drifting
  BY <1>1, <1>2, <1>3, <1>4, RegisterDrift, InsertDrift, ReserveDrift,
     WriteDrift, ReleaseDrift, GiveUpDrift DEF DbNext
<1> QED
  BY <1>0, <1>5 DEF DriftInv, Drifting

(* With one process that updates tasks, every method given up half-way
   costs at most one slot, and no slot goes missing that is not accounted
   for by a task cancelled before it started. *)
THEOREM DriftBounded == OneUpdater => (DbSpec => []SlotDriftBounded)
<1> SUFFICES ASSUME OneUpdater PROVE DbSpec => []SlotDriftBounded
  OBVIOUS
<1>1. DbInit => DriftInv
  BY DbTypeInit DEF DbInit, FleetInit, DriftInv, ReadHolds, NoMethod,
     StartedOnce, Registered, TaskIds
<1>2. DriftInv /\ [DbNext]_dbVars => DriftInv'
  BY DriftStep
<1>3. DriftInv => SlotDriftBounded
  <2> SUFFICES ASSUME DriftInv, NEW d \in Registered
               PROVE  /\ drones[d].used <= Cardinality(Running(d)) + faults
                           + Cardinality(HoldersOf(d))
                      /\ Cardinality(Running(d)) <=
                           drones[d].used + Cardinality(CancelledUnstarted(d))
    BY HoldingSets DEF SlotDriftBounded, HoldersOf
  <2>1. PICK R \in Nat, C \in Nat, H \in Nat :
           /\ R = Cardinality(Running(d))
           /\ C = Cardinality(CancelledUnstarted(d))
           /\ H = Cardinality(HoldersOf(d))
    BY Numbers DEF DriftInv
  <2>2. drones[d].used \in Nat
    BY Numbers DEF DriftInv
  <2> QED
    BY <2>1, <2>2 DEF DriftInv, Drift
<1> QED
  BY <1>1, <1>2, <1>3, PTL DEF DbSpec

-----------------------------------------------------------------------------
(* The audit events *)

(* A process that has written a status of task t, or created it, and has
   not inserted the event about it. *)
ToLog(p, t) == method[p].step \in {"release", "log"} /\ method[p].task = t

InOrder(t) ==
    \A i, j \in DOMAIN log[t] :
        (i < j /\ log[t][j] # "queued" /\ log[t][i] # "queued")
            => Rank(log[t][i]) < Rank(log[t][j])

Behind(t) ==
    \A status \in Logged(t) : \/ status = tasks[t].status
                              \/ Rank(status) < Rank(tasks[t].status)

(* An event still to come is about the row as it stands, and later than all
   events that are there; only task.created may come later than that. *)
NextEvent(t) ==
    \A p \in Processes :
        ToLog(p, t) /\ method[p].status # "queued" =>
            /\ p \in Updaters
            /\ tasks[t].status = method[p].status
            /\ \A status \in Logged(t) :
                  Rank(status) < Rank(method[p].status)

(* Without a method given up, an event that is missing is still to come. *)
NoneMissing(t) ==
    faults = 0 =>
        \A status \in {"queued", tasks[t].status} :
            \/ status \in Logged(t)
            \/ \E p \in Processes : ToLog(p, t) /\ method[p].status = status

LogTold(t) == InOrder(t) /\ Behind(t) /\ NextEvent(t) /\ NoneMissing(t)

LogInv == /\ DbTypeOK
          /\ ReadHolds
          /\ \A t \in (1..MaxTasks) \ TaskIds : log[t] = << >>
          /\ \A t \in TaskIds : LogTold(t)

Logging == /\ \A t \in (1..MaxTasks) \ TaskIds' : log'[t] = << >>
           /\ \A t \in TaskIds' : LogTold(t)'

LEMMA Ranks ==
    /\ Rank("queued") = 0 /\ Rank("running") = 1
    /\ Rank("completed") = 2 /\ Rank("failed") = 2 /\ Rank("cancelled") = 2
    /\ \A status \in Statuses :
          /\ Rank(status) \in 0..2
          /\ status # "queued" => Rank("queued") < Rank(status)
BY DEF Rank, Statuses

LEMMA LogTypes ==
    ASSUME DbTypeOK, NEW t \in TaskIds
    PROVE  /\ t \in 1..MaxTasks
           /\ log[t] \in Seq(Statuses)
           /\ Logged(t) \subseteq Statuses
           /\ tasks[t].status \in Statuses
           /\ \A p \in Processes : ToLog(p, t) => method[p].status \in Statuses
<1>1. FleetTypeOK /\ Len(tasks) \in Nat /\ Len(tasks) <= MaxTasks
  BY DEF DbTypeOK, FleetTypeOK
<1>2. t \in 1..MaxTasks
  BY <1>1 DEF TaskIds
<1>3. log[t] \in Seq(Statuses)
  BY <1>2 DEF DbTypeOK
<1>4. tasks[t].status \in Statuses
  BY <1>1, RowTypes
<1>5. \A p \in Processes : ToLog(p, t) => method[p].status \in Statuses
  BY MethodTypes DEF ToLog, UpdateSteps
<1> QED
  BY <1>2, <1>3, <1>4, <1>5 DEF Logged

(* A task whose row and events are left alone, while every process keeps
   the event it has still to insert about it. *)
LEMMA LogKept ==
    ASSUME NEW t \in TaskIds, LogTold(t),
           log'[t] = log[t], tasks'[t].status = tasks[t].status,
           \A p \in Processes :
              /\ ToLog(p, t)' => ToLog(p, t)
              /\ ToLog(p, t)' => method'[p].status = method[p].status
              /\ ToLog(p, t) => ToLog(p, t)' \/ faults' # 0,
           faults' = 0 => faults = 0
    PROVE  LogTold(t)'
<1>1. Logged(t)' = Logged(t)
  BY DEF Logged
<1>2. InOrder(t)'
  BY DEF InOrder, LogTold
<1>3. Behind(t)'
  BY <1>1 DEF Behind, LogTold
<1>4. NextEvent(t)'
  BY <1>1 DEF NextEvent, LogTold
<1>5. NoneMissing(t)'
  BY <1>1 DEF NoneMissing, LogTold
<1> QED
  BY <1>2, <1>3, <1>4, <1>5 DEF LogTold

(* A process moves, rows and events are left alone. *)
LEMMA LogMoved ==
    ASSUME LogInv, NEW p \in Processes, NEW new, Goto(p, new),
           log' = log, tasks' = tasks,
           faults' = 0 => faults = 0,
           \A t \in TaskIds :
              LET after == /\ new.step \in {"release", "log"}
                           /\ new.task = t
              IN  /\ after => ToLog(p, t) /\ new.status = method[p].status
                  /\ ToLog(p, t) => after \/ faults' # 0
    PROVE  Logging
<1>1. /\ method'[p] = new
      /\ \A q \in Processes \ {p} : method'[q] = method[q]
  BY Moved DEF LogInv
<1>2. TaskIds' = TaskIds
  BY DEF TaskIds
<1>3. ASSUME NEW t \in TaskIds PROVE LogTold(t)'
  <2>1. \A q \in Processes \ {p} :
           /\ ToLog(q, t)' <=> ToLog(q, t)
           /\ method'[q].status = method[q].status
    BY <1>1 DEF ToLog
  <2>2. /\ ToLog(p, t)' => ToLog(p, t)
        /\ ToLog(p, t)' => method'[p].status = method[p].status
        /\ ToLog(p, t) => ToLog(p, t)' \/ faults' # 0
    BY <1>1 DEF ToLog
  <2>3. LogTold(t) /\ log'[t] = log[t] /\ tasks'[t].status = tasks[t].status
    BY DEF LogInv
  <2> QED
    BY <2>1, <2>2, <2>3, LogKept
<1> QED
  BY <1>2, <1>3 DEF LogInv, Logging

LEMMA InsertLog ==
    ASSUME LogInv, NEW p \in Processes, InsertTask(p)
    PROVE  Logging
<1>1. DbTypeOK /\ DbTypeOK'
  BY DbTypeStep DEF LogInv, DbNext
<1>2. PICK new : new = Len(tasks) + 1
  OBVIOUS
<1>3. /\ new \notin TaskIds
      /\ TaskIds' = TaskIds \cup {new}
      /\ \A u \in TaskIds : tasks'[u] = tasks[u]
      /\ tasks'[new].status = "queued"
  BY <1>1, <1>2, Inserting
<1>4. /\ method[p].step = "insert" /\ log' = log /\ faults' = faults
      /\ method'[p].step = "log" /\ method'[p].task = new
      /\ method'[p].status = "queued"
      /\ \A q \in Processes \ {p} : method'[q] = method[q]
  <2>1. PICK next : /\ Goto(p, next) /\ next.step = "log"
                    /\ next.task = new /\ next.status = "queued"
    BY <1>2 DEF InsertTask
  <2> QED
    BY <1>1, <2>1, Moved DEF InsertTask, At
<1>5. new \in 1..MaxTasks
  <2>1. FleetTypeOK' /\ new \in TaskIds'
    BY <1>1, <1>3 DEF DbTypeOK
  <2>2. Len(tasks)' \in Nat /\ Len(tasks)' <= MaxTasks
    BY <2>1 DEF FleetTypeOK
  <2> QED
    BY <2>1, <2>2 DEF TaskIds
<1>6. ASSUME NEW t \in TaskIds PROVE LogTold(t)'
  <2>1. \A q \in Processes :
           /\ ToLog(q, t)' <=> ToLog(q, t)
           /\ ToLog(q, t) => method'[q].status = method[q].status
    BY <1>3, <1>4 DEF ToLog
  <2>2. LogTold(t) /\ log'[t] = log[t] /\ tasks'[t].status = tasks[t].status
    BY <1>3, <1>4 DEF LogInv
  <2> QED
    BY <1>4, <2>1, <2>2, LogKept
<1>7. LogTold(new)'
  <2>1. log'[new] = << >> /\ Logged(new)' = {}
    BY <1>3, <1>4, <1>5 DEF LogInv, Logged
  <2>2. \A q \in Processes : ToLog(q, new)' => q = p
    <3>1. \A q \in Processes : ToLog(q, new) => new \in TaskIds
      BY <1>1, MethodTypes DEF ToLog, UpdateSteps
    <3> QED
      BY <1>3, <1>4, <3>1 DEF ToLog
  <2>3. ToLog(p, new)'
    BY <1>4 DEF ToLog
  <2>4. InOrder(new)' /\ Behind(new)'
    BY <2>1 DEF InOrder, Behind
  <2>5. NextEvent(new)'
    BY <1>4, <2>2 DEF NextEvent
  <2>6. NoneMissing(new)'
    BY <1>3, <1>4, <2>3 DEF NoneMissing
  <2> QED
    BY <2>4, <2>5, <2>6 DEF LogTold
<1> QED
  BY <1>3, <1>4, <1>6, <1>7 DEF LogInv, Logging

(* The updater writes a status: no event about an earlier one can still be
   to come but task.created, and the new status is above all that is told. *)
LEMMA WriteLog ==
    ASSUME OneUpdater, LogInv, NEW p \in Processes, WriteStatus(p)
    PROVE  Logging
<1>1. DbTypeOK /\ ReadHolds /\ log' = log /\ faults' = faults
  BY DEF LogInv, WriteStatus
<1>2. PICK t, status : t = method[p].task /\ status = method[p].status
  OBVIOUS
<1>3. /\ method[p].step = "write"
      /\ t \in TaskIds
      /\ status \in {"running", "completed", "failed", "cancelled"}
      /\ tasks[t].status \in {"queued", "running"}
      /\ status = "running" => tasks[t].status = "queued"
      /\ TaskIds' = TaskIds
      /\ tasks'[t].status = status
      /\ \A u \in TaskIds \ {t} : tasks'[u] = tasks[u]
  BY <1>1, <1>2, Writing
<1>4. /\ method'[p].step \in {"log", "release"}
      /\ method'[p].task = t
      /\ method'[p].status = status
      /\ \A q \in Processes \ {p} : method'[q] = method[q]
  <2>1. Continue(p) /\ method[p].step \in UpdateSteps
    BY <1>3 DEF WriteStatus, UpdateSteps
  <2>2. PICK new : /\ Goto(p, new)
                   /\ new.step = StepAfter("write", status)
                   /\ new.task = t /\ new.status = status
    BY <1>1, <1>2, <1>3, <2>1, UpdateMoves
  <2> QED
    BY <1>1, <2>2, Moved DEF StepAfter
<1>5. p \in Updaters /\ \A q \in Updaters : q = p
  BY <1>1, <1>3 DEF ReadHolds, OneUpdater
<1>6. ASSUME NEW u \in TaskIds \ {t} PROVE LogTold(u)'
  <2>1. \A q \in Processes :
           /\ ToLog(q, u)' <=> ToLog(q, u)
           /\ ToLog(q, u) => method'[q].status = method[q].status
    BY <1>2, <1>4 DEF ToLog
  <2>2. LogTold(u) /\ log'[u] = log[u] /\ tasks'[u].status = tasks[u].status
    BY <1>1, <1>3 DEF LogInv
  <2> QED
    BY <1>1, <2>1, <2>2, LogKept
<1>7. LogTold(t)'
  <2>1. /\ LogTold(t) /\ Logged(t)' = Logged(t)
        /\ Logged(t) \subseteq Statuses
    BY <1>1, <1>3, LogTypes DEF LogInv, Logged
  <2>2. Rank(tasks[t].status) < Rank(status)
    BY <1>3, Ranks
  <2>3. ASSUME NEW told \in Logged(t) PROVE Rank(told) < Rank(status)
    <3>1. /\ told = tasks[t].status \/ Rank(told) < Rank(tasks[t].status)
          /\ told \in Statuses
      BY <2>1, <2>3 DEF LogTold, Behind
    <3>2. /\ Rank(told) \in 0..2 /\ Rank(status) \in 0..2
          /\ Rank(tasks[t].status) \in 0..2
      BY <1>3, <3>1, Ranks
    <3> QED
      BY <2>2, <3>1, <3>2
  <2>4. ToLog(p, t)' /\ ~ToLog(p, t)
    BY <1>3, <1>4 DEF ToLog
  <2>5. InOrder(t)'
    BY <1>1, <2>1 DEF LogTold, InOrder
  <2>6. Behind(t)'
    BY <1>3, <2>1, <2>3 DEF Behind
  <2>7. NextEvent(t)'
    <3>1. ASSUME NEW q \in Processes, ToLog(q, t)', q # p,
                 method'[q].status # "queued"
          PROVE  FALSE
      <4>1. ToLog(q, t) /\ method[q].status # "queued"
        BY <1>4, <3>1 DEF ToLog
      <4> QED
        BY <1>5, <2>1, <3>1, <4>1 DEF LogTold, NextEvent
    <3> QED
      BY <1>3, <1>4, <1>5, <2>1, <2>3, <3>1 DEF NextEvent
  <2>8. NoneMissing(t)'
    <3> SUFFICES ASSUME faults = 0,
                        ~("queued" \in Logged(t))
                 PROVE  \E q \in Processes :
                           ToLog(q, t)' /\ method'[q].status = "queued"
      BY <1>1, <1>3, <1>4, <2>1, <2>4 DEF NoneMissing
    <3>1. PICK q \in Processes : ToLog(q, t) /\ method[q].status = "queued"
      BY <2>1 DEF LogTold, NoneMissing
    <3>2. method'[q] = method[q]
      BY <1>4, <2>4, <3>1
    <3> QED
      BY <3>1, <3>2 DEF ToLog
  <2> QED
    BY <2>5, <2>6, <2>7, <2>8 DEF LogTold
<1> QED
  BY <1>1, <1>3, <1>6, <1>7 DEF LogInv, Logging

LEMMA EventLog ==
    ASSUME OneUpdater, LogInv, NEW p \in Processes, LogEvent(p)
    PROVE  Logging
<1>1. /\ DbTypeOK /\ method[p].step = "log" /\ Continue(p)
      /\ tasks' = tasks /\ faults' = faults
      /\ log' = [log EXCEPT ![method[p].task] = Append(@, method[p].status)]
  BY DEF LogInv, LogEvent, At
<1>2. PICK t, status : t = method[p].task /\ status = method[p].status
  OBVIOUS
<1>3. t \in TaskIds /\ status \in Statuses /\ ToLog(p, t)
  BY <1>1, <1>2, MethodTypes DEF UpdateSteps, ToLog
<1>4. method'[p] = NoMethod /\ \A q \in Processes \ {p} : method'[q] = method[q]
  <2>1. Goto(p, NoMethod)
    BY <1>1 DEF Continue, StepAfter, Return
  <2> QED
    BY <1>1, <2>1, Moved
<1>5. /\ t \in 1..MaxTasks /\ TaskIds' = TaskIds
      /\ \A u \in TaskIds : /\ log[u] \in Seq(Statuses)
                            /\ u \in 1..MaxTasks
                            /\ Logged(u) \subseteq Statuses
                            /\ tasks[u].status \in Statuses
                            /\ LogTold(u)
  BY <1>1, <1>3, LogTypes DEF LogInv, TaskIds
<1>6. /\ log'[t] = Append(log[t], status)
      /\ \A u \in (1..MaxTasks) \ {t} : log'[u] = log[u]
  BY <1>1, <1>2, <1>5 DEF DbTypeOK
<1>7. ASSUME NEW u \in TaskIds \ {t} PROVE LogTold(u)'
  <2>1. \A q \in Processes :
           /\ ToLog(q, u)' <=> ToLog(q, u)
           /\ ToLog(q, u) => method'[q].status = method[q].status
    BY <1>2, <1>4 DEF ToLog, NoMethod
  <2>2. LogTold(u) /\ log'[u] = log[u] /\ tasks'[u].status = tasks[u].status
    BY <1>1, <1>5, <1>6
  <2> QED
    BY <1>1, <2>1, <2>2, LogKept
<1>8. LogTold(t)'
  <2>1. PICK old \in Seq(Statuses), told \in SUBSET Statuses :
           old = log[t] /\ told = Logged(t)
    BY <1>3, <1>5
  <2>2. /\ log'[t] = Append(old, status)
        /\ DOMAIN log'[t] = (DOMAIN old) \cup {Len(old) + 1}
        /\ Len(old) \in Nat /\ DOMAIN old = 1..Len(old)
        /\ \A i \in DOMAIN old : log'[t][i] = old[i] /\ old[i] \in told
        /\ log'[t][Len(old) + 1] = status
    BY <1>6, <2>1 DEF Logged
  <2>3. Logged(t)' = told \cup {status}
    <3>1. told = {old[i] : i \in DOMAIN old}
      BY <2>1 DEF Logged
    <3>2. Logged(t)' = {log'[t][i] : i \in DOMAIN log'[t]}
      BY DEF Logged
    <3> QED
      BY <2>2, <3>1, <3>2
  <2>4. status # "queued" =>
           /\ p \in Updaters
           /\ tasks[t].status = status
           /\ \A s \in told : Rank(s) < Rank(status)
    BY <1>2, <1>3, <1>5, <2>1 DEF LogTold, NextEvent
  <2>5. InOrder(t)'
    <3> SUFFICES ASSUME NEW i \in DOMAIN log'[t], NEW j \in DOMAIN log'[t],
                        i < j, log'[t][j] # "queued", log'[t][i] # "queued"
                 PROVE  Rank(log'[t][i]) < Rank(log'[t][j])
      BY DEF InOrder
    <3>1. CASE j \in DOMAIN old
      <4>1. i \in DOMAIN old
        BY <2>2, <3>1
      <4> QED
        BY <1>3, <1>5, <2>1, <2>2, <3>1, <4>1 DEF LogTold, InOrder
    <3>2. CASE j = Len(old) + 1
      <4>1. i \in DOMAIN old
        BY <2>2, <3>2
      <4> QED
        BY <2>2, <2>4, <3>2, <4>1
    <3> QED
      BY <2>2, <3>1, <3>2
  <2>6. Behind(t)'
    <3>1. status = tasks[t].status \/ Rank(status) < Rank(tasks[t].status)
      BY <1>5, <1>3, <2>4, Ranks
    <3> QED
      BY <1>1, <1>3, <1>5, <2>1, <2>3, <3>1 DEF LogTold, Behind
  <2>7. NextEvent(t)'
    <3> SUFFICES ASSUME NEW q \in Processes, ToLog(q, t)',
                        method'[q].status # "queued"
                 PROVE  /\ q \in Updaters
                        /\ tasks[t].status = method'[q].status
                        /\ \A s \in told \cup {status} :
                              Rank(s) < Rank(method'[q].status)
      BY <1>1, <2>3 DEF NextEvent
    <3>1. q # p /\ method'[q] = method[q]
      BY <1>4 DEF ToLog, NoMethod
    <3>2. ToLog(q, t) /\ method[q].status # "queued"
      BY <3>1 DEF ToLog
    <3>3. /\ q \in Updaters
          /\ tasks[t].status = method[q].status
          /\ \A s \in told : Rank(s) < Rank(method[q].status)
      BY <1>3, <1>5, <2>1, <3>2 DEF LogTold, NextEvent
    <3>4. status = "queued"
      BY <2>4, <3>1, <3>3 DEF OneUpdater
    <3>5. Rank(status) < Rank(method[q].status)
      BY <1>3, <1>5, <3>2, <3>3, <3>4, Ranks
    <3> QED
      BY <3>1, <3>3, <3>5
  <2>8. NoneMissing(t)'
    <3> SUFFICES ASSUME faults = 0, NEW s \in {"queued", tasks[t].status},
                        s \notin told, s # status
                 PROVE  \E q \in Processes :
                           ToLog(q, t)' /\ method'[q].status = s
      BY <1>1, <2>3 DEF NoneMissing
    <3>1. PICK q \in Processes : ToLog(q, t) /\ method[q].status = s
      BY <1>3, <1>5, <2>1 DEF LogTold, NoneMissing
    <3>2. method'[q] = method[q]
      BY <1>2, <1>4, <3>1
    <3> QED
      BY <3>1, <3>2 DEF ToLog
  <2> QED
    BY <2>5, <2>6, <2>7, <2>8 DEF LogTold
<1> QED
  BY <1>1, <1>3, <1>5, <1>6, <1>7, <1>8 DEF LogInv, Logging

LEMMA LogInvStep == OneUpdater /\ LogInv /\ [DbNext]_dbVars => LogInv'
<1> SUFFICES ASSUME OneUpdater, LogInv, [DbNext]_dbVars PROVE LogInv'
  OBVIOUS
<1>0. DbTypeOK' /\ ReadHolds' /\ DbTypeOK
  BY DbTypeStep, ReadHoldsStep DEF LogInv
<1>1. ASSUME NEW p \in Processes,
             \/ \E job \in Jobs : BeginCreate(p, job)
             \/ Widen(p)
      PROVE  Logging
  <2>1. /\ log' = log /\ tasks' = tasks /\ faults' = faults
        /\ method[p].step \in {"none", "widen"}
    BY <1>1 DEF BeginCreate, Widen, At
  <2>2. \E next : /\ Goto(p, next)
                  /\ next.step \in {"insert", "widen", "none"}
    BY <1>1, CreateMoves DEF BeginCreate, Widen
  <2> QED
    BY <2>1, <2>2, LogMoved DEF ToLog
<1>2. ASSUME NEW p \in Processes, NEW t \in TaskIds, NEW status \in Statuses,
             BeginUpdate(p, t, status)
      PROVE  Logging
  <2>1. /\ log' = log /\ tasks' = tasks /\ faults' = faults
        /\ method[p].step = "none"
    BY <1>2 DEF BeginUpdate, At
  <2>2. PICK new : /\ Goto(p, new)
                   /\ new.step = StepAfter("read", status)
    BY <1>2 DEF BeginUpdate, UpdateOf
  <2> QED
    BY <2>1, <2>2, LogMoved DEF ToLog, StepAfter
<1>3. ASSUME NEW p \in Processes, Reserve(p) \/ Release(p) PROVE Logging
  <2>1. /\ log' = log /\ tasks' = tasks /\ faults' = faults
        /\ method[p].step \in {"reserve", "release"}
        /\ Return(p) => method[p].step = "reserve" \/ Continue(p)
        /\ Return(p) \/ Continue(p)
    BY <1>3 DEF Reserve, Release, At
  <2>2. CASE Return(p) /\ method[p].step = "reserve"
    BY <2>1, <2>2, LogMoved DEF Return, ToLog, NoMethod
  <2>3. CASE Continue(p)
    <3>1. PICK new : /\ Goto(p, new)
                     /\ new.step = StepAfter(method[p].step, method[p].status)
                     /\ new.task = method[p].task
                     /\ new.status = method[p].status
      BY <1>0, <2>1, <2>3, UpdateMoves DEF UpdateSteps
    <3>2. /\ method[p].step = "release" => new.step = "log"
          /\ method[p].step = "reserve" => new.step = "write"
      BY <3>1 DEF StepAfter
    <3> QED
      BY <2>1, <3>1, <3>2, LogMoved DEF ToLog
  <2> QED
    BY <2>1, <2>2, <2>3
<1>4. ASSUME NEW p \in Processes, GiveUp(p) PROVE Logging
  <2>1. /\ log' = log /\ tasks' = tasks /\ faults' = faults + 1
        /\ Goto(p, NoMethod)
    BY <1>4 DEF GiveUp, Return
  <2>2. faults' # 0
    BY <1>0, <2>1 DEF DbTypeOK
  <2> QED
    BY <2>1, <2>2, LogMoved DEF NoMethod
<1>5. ASSUME \/ UNCHANGED dbVars
             \/ \E p \in Processes, d \in Drones : \E offer \in Offers[d] :
                   Register(p, d, offer)
      PROVE  Logging
  <2>1. /\ log' = log /\ tasks' = tasks /\ faults' = faults
        /\ method' = method /\ TaskIds' = TaskIds
    BY <1>5 DEF dbVars, Register, RegisterDrone, TaskIds
  <2>2. \A t \in TaskIds : LogTold(t)'
    BY <2>1, LogKept DEF LogInv, ToLog
  <2> QED
    BY <2>1, <2>2 DEF LogInv, Logging
<1>6. Logging
  BY <1>1, <1>2, <1>3, <1>4, <1>5, InsertLog, WriteLog, EventLog DEF DbNext
<1> QED
  BY <1>0, <1>6 DEF LogInv, Logging

(* With one process that updates tasks, the audit events of a task are in
   the order of its life and never ahead of its row, whatever is given up;
   and they are complete when nothing was. *)
THEOREM EventsFollow == OneUpdater => (DbSpec => []LogFollowsTable)
<1> SUFFICES ASSUME OneUpdater PROVE DbSpec => []LogFollowsTable
  OBVIOUS
<1>1. DbInit => LogInv
  BY DbTypeInit DEF DbInit, FleetInit, LogInv, ReadHolds, NoMethod, TaskIds
<1>2. LogInv /\ [DbNext]_dbVars => LogInv'
  BY LogInvStep
<1>3. LogInv => LogFollowsTable
  BY DEF LogInv, LogFollowsTable, LogTold, InOrder, Behind, NoneMissing,
         ToLog, UpdateSteps
<1> QED
  BY <1>1, <1>2, <1>3, PTL DEF DbSpec
=============================================================================
