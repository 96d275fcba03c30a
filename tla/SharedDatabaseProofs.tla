------------------------ MODULE SharedDatabaseProofs ------------------------
(***************************************************************************)
(* Proofs about SharedDatabase, for any number of processes: the tables    *)
(* and the methods in progress stay well formed, and as long as no two     *)
(* processes meet on one task every statement is one State method or none. *)
(***************************************************************************)
EXTENDS SharedDatabase, FleetStateProofs, SequenceTheorems

USE DronesAssumption, OffersAssumption, JobsAssumption, MaxTasksAssumption,
    ProcessesAssumption, UpdatersAssumption, MaxFaultsAssumption

-----------------------------------------------------------------------------
(* Rows *)

LEMMA RowTypes ==
    ASSUME FleetTypeOK, NEW t \in TaskIds
    PROVE  /\ tasks[t] \in TaskRow
           /\ tasks[t].target \in Registered
           /\ tasks[t].target \in Drones
           /\ tasks[t].status \in Statuses
           /\ tasks[t].started \in BOOLEAN
<1>1. tasks[t] \in TaskRow /\ tasks[t].target \in Registered
  BY DEF FleetTypeOK, TaskIds
<1> QED
  BY <1>1 DEF TaskRow

(* What a process holds in each kind of method. *)
LEMMA MethodTypes ==
    ASSUME DbTypeOK, NEW p \in Processes
    PROVE  /\ method[p] \in Methods
           /\ method[p].step \in UpdateSteps =>
                /\ method[p] \in Updating
                /\ method[p].task \in TaskIds
                /\ method[p].status \in Statuses
                /\ method[p].started \in BOOLEAN
                /\ method[p].target = tasks[method[p].task].target
                /\ method[p].target \in Registered
           /\ At(p, "insert") =>
                /\ method[p].mode \in Modes
                /\ method[p].target \in Registered
           /\ At(p, "widen") =>
                /\ method[p].mode \in Modes
                /\ method[p].required \in SUBSET Capabilities
<1>1. method[p] \in Methods /\ TargetOK(p)
  BY DEF DbTypeOK
<1>2. ASSUME method[p].step \in UpdateSteps
      PROVE  method[p] \in Updating
  BY <1>1, <1>2 DEF Methods, NoMethod, Creating, Updating, UpdateSteps
<1>3. ASSUME method[p].step \in UpdateSteps
      PROVE  /\ method[p].task \in TaskIds
             /\ method[p].status \in Statuses
             /\ method[p].started \in BOOLEAN
             /\ method[p].target = tasks[method[p].task].target
  BY <1>1, <1>2, <1>3 DEF Updating, TargetOK
<1>4. ASSUME method[p].step \in UpdateSteps
      PROVE  method[p].target \in Registered
  BY <1>3, <1>4, RowTypes DEF DbTypeOK
<1>5. ASSUME method[p].step \in {"insert", "widen"}
      PROVE  method[p] \in Creating
  BY <1>1, <1>5 DEF Methods, NoMethod, Updating, UpdateSteps
<1>6. ASSUME At(p, "insert")
      PROVE  method[p].mode \in Modes /\ method[p].target \in Registered
  BY <1>1, <1>5, <1>6 DEF At, Creating, TargetOK
<1>7. ASSUME At(p, "widen")
      PROVE  /\ method[p].mode \in Modes
             /\ method[p].required \in SUBSET Capabilities
  BY <1>5, <1>7 DEF At, Creating
<1> QED
  BY <1>1, <1>2, <1>3, <1>4, <1>6, <1>7

-----------------------------------------------------------------------------
(* Methods in progress stay well formed when the tables only grow and no
   task changes its target. *)
TablesGrow ==
    /\ Registered \subseteq Registered'
    /\ TaskIds \subseteq TaskIds'
    /\ \A t \in TaskIds : tasks'[t].target = tasks[t].target

LEMMA MethodsGrow ==
    ASSUME TablesGrow
    PROVE  Methods \subseteq Methods'
BY DEF TablesGrow, Methods, NoMethod, Creating, Updating

LEMMA MethodsKept ==
    ASSUME DbTypeOK, TablesGrow, NEW P \in SUBSET Processes,
           \A p \in P : method'[p] = method[p]
    PROVE  \A p \in P : method'[p] \in Methods' /\ TargetOK(p)'
<1> SUFFICES ASSUME NEW p \in P
             PROVE  method'[p] \in Methods' /\ TargetOK(p)'
  OBVIOUS
<1>1. method'[p] = method[p] /\ p \in Processes
  OBVIOUS
<1>2. method'[p] \in Methods'
  BY <1>1, MethodTypes, MethodsGrow
<1>3. TargetOK(p)'
  BY <1>1, MethodTypes DEF TargetOK, TablesGrow, At
<1> QED
  BY <1>2, <1>3

(* One process moves on, the others stay where they are. *)
LEMMA MethodReplaced ==
    ASSUME DbTypeOK, TablesGrow, NEW p \in Processes, NEW next,
           Goto(p, next),
           next \in Methods',
           next.step = "insert" => next.target \in Registered',
           next.step \in UpdateSteps =>
               next.target = tasks'[next.task].target
    PROVE  /\ method' \in [Processes -> Methods']
           /\ \A q \in Processes : TargetOK(q)'
<1>1. method \in [Processes -> Methods]
  BY DEF DbTypeOK
<1>2. /\ method' = [method EXCEPT ![p] = next]
      /\ method'[p] = next
      /\ \A q \in Processes \ {p} : method'[q] = method[q]
      /\ DOMAIN method' = Processes
  BY <1>1 DEF Goto
<1>3. TargetOK(p)'
  BY <1>2 DEF TargetOK, At
<1>4. \A q \in Processes \ {p} : method'[q] \in Methods' /\ TargetOK(q)'
  BY <1>2, MethodsKept
<1>5. \A q \in Processes : method'[q] \in Methods'
  BY <1>2, <1>4
<1>6. method' = [q \in Processes |-> method'[q]]
  BY <1>1, <1>2
<1> QED
  BY <1>3, <1>4, <1>5, <1>6

LEMMA MethodReturns ==
    ASSUME DbTypeOK, TablesGrow, NEW p \in Processes, Return(p)
    PROVE  /\ method' \in [Processes -> Methods']
           /\ \A q \in Processes : TargetOK(q)'
<1>1. Goto(p, NoMethod)
  BY DEF Return
<1>2. /\ NoMethod \in Methods'
      /\ NoMethod.step = "none"
  BY DEF NoMethod, Methods
<1> QED
  BY <1>1, <1>2, MethodReplaced DEF UpdateSteps

LEMMA MethodContinues ==
    ASSUME DbTypeOK, TablesGrow, NEW p \in Processes, Continue(p),
           method[p].step \in UpdateSteps
    PROVE  /\ method' \in [Processes -> Methods']
           /\ \A q \in Processes : TargetOK(q)'
<1>1. PICK next : next = StepAfter(method[p].step, method[p].status)
  OBVIOUS
<1>2. next \in UpdateSteps \cup {"end"}
  BY <1>1 DEF StepAfter, UpdateSteps
<1>3. CASE next = "end"
  BY <1>1, <1>3, MethodReturns DEF Continue
<1>4. CASE next # "end"
  <2>1. PICK new : new = [method[p] EXCEPT !.step = next]
    OBVIOUS
  <2>2. Goto(p, new)
    BY <1>1, <1>4, <2>1 DEF Continue
  <2>3. method[p] \in Updating
    BY MethodTypes
  <2>4. /\ new \in Updating
        /\ new.step = next
        /\ new.task = method[p].task
        /\ new.target = method[p].target
    BY <1>2, <1>4, <2>1, <2>3 DEF Updating
  <2>5. new \in Methods'
    BY <2>4, MethodsGrow DEF Methods
  <2>6. new.step # "insert"
    BY <1>2, <1>4, <2>4 DEF UpdateSteps
  <2>7. new.target = tasks'[new.task].target
    BY <2>4, MethodTypes DEF TablesGrow
  <2> QED
    BY <2>2, <2>5, <2>6, <2>7, MethodReplaced
<1> QED
  BY <1>3, <1>4

-----------------------------------------------------------------------------
(* The processes inside create_task *)

LEMMA CreatingFinite ==
    /\ IsFiniteSet(CreatingNow)
    /\ Cardinality(CreatingNow) \in Nat
<1>1. CreatingNow \subseteq Processes
  BY DEF CreatingNow
<1> QED
  BY <1>1, FS_Subset, FS_CardinalityType

LEMMA CreatingAfter ==
    ASSUME DbTypeOK, NEW p \in Processes, NEW next, Goto(p, next)
    PROVE  /\ next.step \notin {"widen", "insert"} =>
                /\ Cardinality(CreatingNow)' <= Cardinality(CreatingNow)
                /\ p \in CreatingNow =>
                     Cardinality(CreatingNow)' = Cardinality(CreatingNow) - 1
           /\ Cardinality(CreatingNow)' <= Cardinality(CreatingNow) + 1
           /\ p \in CreatingNow =>
                Cardinality(CreatingNow)' <= Cardinality(CreatingNow)
           /\ Cardinality(CreatingNow)' \in Nat
<1>1. /\ DOMAIN method = Processes
      /\ method' = [method EXCEPT ![p] = next]
  BY DEF DbTypeOK, Goto
<1>2. /\ method'[p] = next
      /\ \A q \in Processes \ {p} : method'[q] = method[q]
  BY <1>1
<1>3. PICK C, D : C = CreatingNow /\ D = CreatingNow'
  OBVIOUS
<1>4. D = {q \in Processes : method'[q].step \in {"widen", "insert"}}
  BY <1>3 DEF CreatingNow
<1>5. /\ next.step \notin {"widen", "insert"} => D = C \ {p}
      /\ next.step \in {"widen", "insert"} => D = C \cup {p}
  BY <1>2, <1>3, <1>4 DEF CreatingNow
<1>6. IsFiniteSet(C) /\ Cardinality(C) \in Nat
  BY <1>3, CreatingFinite
<1>7. Cardinality(C \cup {p}) =
        IF p \in C THEN Cardinality(C) ELSE Cardinality(C) + 1
  BY <1>6, FS_AddElement
<1>8. Cardinality(C \ {p}) =
        IF p \in C THEN Cardinality(C) - 1 ELSE Cardinality(C)
  BY <1>6, FS_RemoveElement
<1>9. p \in C => Cardinality(C) # 0
  BY <1>6, FS_EmptySet
<1>10. PICK c, n : c = Cardinality(C) /\ n = Cardinality(D)
  OBVIOUS
<1>11. /\ c = Cardinality(CreatingNow)
       /\ n = Cardinality(CreatingNow)'
       /\ p \in CreatingNow <=> p \in C
  BY <1>3, <1>10
<1>12. CASE next.step \in {"widen", "insert"}
  <2>1. c \in Nat /\ n = IF p \in C THEN c ELSE c + 1
    BY ONLY <1>5, <1>6, <1>7, <1>10, <1>12
  <2> QED
    BY ONLY <1>11, <1>12, <2>1
<1>13. CASE next.step \notin {"widen", "insert"}
  <2>1. /\ c \in Nat
        /\ n = IF p \in C THEN c - 1 ELSE c
        /\ p \in C => c # 0
    BY ONLY <1>5, <1>6, <1>8, <1>9, <1>10, <1>13
  <2> QED
    BY ONLY <1>11, <1>13, <2>1
<1> QED
  BY <1>12, <1>13

-----------------------------------------------------------------------------
(* Type correctness, one lemma for each kind of step *)

(* Steps that leave both tables alone. *)
LEMMA SameTables ==
    ASSUME FleetTypeOK, UNCHANGED <<drones, tasks>>
    PROVE  FleetTypeOK' /\ TablesGrow /\ Len(tasks)' = Len(tasks)
BY DEF FleetTypeOK, TablesGrow, Registered, TaskIds

(* A change of the slot counter of one drone. *)
LEMMA CounterChanges ==
    ASSUME FleetTypeOK, NEW d \in Registered, NEW used \in Nat,
           drones' = [drones EXCEPT ![d].used = used],
           tasks' = tasks
    PROVE  /\ FleetTypeOK' /\ TablesGrow
           /\ drones'[d].used = used
           /\ \A e \in Registered \ {d} : drones'[e] = drones[e]
           /\ Registered' = Registered
<1>1. drones[d] \in DroneRow
  BY DEF FleetTypeOK
<1>2. [drones[d] EXCEPT !.used = used] \in DroneRow
  BY <1>1 DEF DroneRow
<1>3. /\ DOMAIN drones' = Registered
      /\ drones'[d] = [drones[d] EXCEPT !.used = used]
      /\ \A e \in Registered \ {d} : drones'[e] = drones[e]
      /\ drones' \in [Registered -> DroneRow]
  BY <1>1, <1>2 DEF FleetTypeOK, Registered
<1>4. drones'[d].used = used
  BY <1>1, <1>3 DEF DroneRow
<1> QED
  BY <1>3, <1>4 DEF FleetTypeOK, TablesGrow, Registered, TaskIds

(* What WriteStatus does to the tasks table. *)
LEMMA RowWritten ==
    ASSUME DbTypeOK, NEW p \in Processes, WriteStatus(p)
    PROVE  /\ FleetTypeOK' /\ TablesGrow
           /\ TaskIds' = TaskIds
           /\ Len(tasks') = Len(tasks)
           /\ tasks'[method[p].task] =
                [tasks[method[p].task] EXCEPT
                   !.status = method[p].status,
                   !.started = method[p].started
                                 \/ method[p].status = "running"]
           /\ \A t \in TaskIds \ {method[p].task} : tasks'[t] = tasks[t]
<1>1. PICK t \in TaskIds, status \in Statuses, started \in BOOLEAN :
         /\ t = method[p].task
         /\ status = method[p].status
         /\ started = (method[p].started \/ method[p].status = "running")
  <2>1. method[p].step \in UpdateSteps
    BY DEF WriteStatus, At, UpdateSteps
  <2> QED
    BY <2>1, MethodTypes
<1>2. tasks \in Seq(TaskRow) /\ Len(tasks) \in Nat
  BY DEF DbTypeOK, FleetTypeOK
<1>3. tasks[t] \in TaskRow
  BY RowTypes DEF DbTypeOK
<1>4. PICK row \in TaskRow :
         row = [tasks[t] EXCEPT !.status = status, !.started = started]
  BY <1>3 DEF TaskRow
<1>5. row.target = tasks[t].target
  BY <1>3, <1>4 DEF TaskRow
<1>6. tasks' = [tasks EXCEPT ![t] = row]
  BY <1>1, <1>2, <1>3, <1>4 DEF WriteStatus, TaskIds
<1>7. /\ tasks' \in Seq(TaskRow)
      /\ Len(tasks') = Len(tasks)
      /\ tasks'[t] = row
      /\ \A u \in TaskIds \ {t} : tasks'[u] = tasks[u]
  BY <1>2, <1>6 DEF TaskIds
<1>8. /\ TaskIds' = TaskIds
      /\ \A u \in TaskIds : tasks'[u].target = tasks[u].target
  BY <1>5, <1>7 DEF TaskIds
<1>9. drones' = drones
  BY DEF WriteStatus
<1>10. FleetTypeOK' /\ TablesGrow
  BY <1>7, <1>8, <1>9 DEF DbTypeOK, FleetTypeOK, TablesGrow, Registered
<1> QED
  BY <1>1, <1>4, <1>7, <1>8, <1>10

(* The part of DbTypeOK that a step of process p establishes by moving p to
   a well-formed point and keeping the tables well formed. *)
MethodsOK == /\ method \in [Processes -> Methods]
             /\ \A p \in Processes : TargetOK(p)

LEMMA ContinueKeepsCount ==
    ASSUME DbTypeOK, NEW p \in Processes, Continue(p),
           method[p].step \in UpdateSteps
    PROVE  Cardinality(CreatingNow)' <= Cardinality(CreatingNow)
<1>1. PICK next : next = StepAfter(method[p].step, method[p].status)
  OBVIOUS
<1>2. next \in UpdateSteps \cup {"end"}
  BY <1>1 DEF StepAfter, UpdateSteps
<1>3. PICK new : /\ new = IF next = "end" THEN NoMethod
                          ELSE [method[p] EXCEPT !.step = next]
                 /\ Goto(p, new)
  BY <1>1 DEF Continue, Return
<1>4. method[p] \in Updating
  BY MethodTypes
<1>5. new.step \notin {"widen", "insert"}
  BY <1>2, <1>3, <1>4 DEF Updating, UpdateSteps, NoMethod
<1> QED
  BY <1>3, <1>5, CreatingAfter

LEMMA ReturnKeepsCount ==
    ASSUME DbTypeOK, NEW p \in Processes, Return(p)
    PROVE  Cardinality(CreatingNow)' <= Cardinality(CreatingNow)
<1>1. Goto(p, NoMethod) /\ NoMethod.step \notin {"widen", "insert"}
  BY DEF Return, NoMethod
<1> QED
  BY <1>1, CreatingAfter

(* Steps of update_task. *)
LEMMA UpdateTypeStep ==
    ASSUME DbTypeOK, NEW p \in Processes,
           Reserve(p) \/ WriteStatus(p) \/ Release(p) \/ LogEvent(p)
    PROVE  /\ FleetTypeOK' /\ MethodsOK' /\ TablesGrow
           /\ Len(tasks)' = Len(tasks)
           /\ Cardinality(CreatingNow)' <= Cardinality(CreatingNow)
<1> USE DEF MethodsOK
<1>0. FleetTypeOK
  BY DEF DbTypeOK
<1>1. method[p].step \in UpdateSteps
  BY DEF Reserve, WriteStatus, Release, LogEvent, At, UpdateSteps
<1>2. PICK d \in Registered : d = method[p].target
  BY <1>1, MethodTypes
<1>3. PICK used \in Nat : used = drones[d].used
  BY <1>0 DEF FleetTypeOK, DroneRow
<1>4. CASE Reserve(p) /\ HasSlot(method[p].target)
  <2>0. PICK more \in Nat : more = used + 1
    OBVIOUS
  <2>1. drones' = [drones EXCEPT ![d].used = more] /\ tasks' = tasks
    BY <1>2, <1>3, <1>4, <2>0 DEF Reserve
  <2>2. FleetTypeOK' /\ TablesGrow
    BY <1>0, <2>1, CounterChanges
  <2>3. Continue(p)
    BY <1>4 DEF Reserve
  <2>4. Len(tasks)' = Len(tasks)
    BY <2>1
  <2> QED
    BY <1>1, <2>2, <2>3, <2>4, MethodContinues, ContinueKeepsCount
<1>5. CASE Reserve(p) /\ ~HasSlot(method[p].target)
  BY <1>0, <1>5, SameTables, MethodReturns, ReturnKeepsCount DEF Reserve
<1>6. CASE WriteStatus(p)
  <2>1. FleetTypeOK' /\ TablesGrow /\ Len(tasks)' = Len(tasks)
    BY <1>6, RowWritten
  <2> QED
    BY <1>1, <1>6, <2>1, MethodContinues, ContinueKeepsCount
       DEF WriteStatus
<1>7. CASE Release(p)
  <2>1. PICK less \in Nat : less = Decremented(used)
    BY DEF Decremented
  <2>2. drones' = [drones EXCEPT ![d].used = less] /\ tasks' = tasks
    BY <1>2, <1>3, <1>7, <2>1 DEF Release
  <2>3. FleetTypeOK' /\ TablesGrow
    BY <1>0, <2>2, CounterChanges
  <2> QED
    BY <1>1, <1>7, <2>2, <2>3, MethodContinues, ContinueKeepsCount
       DEF Release
<1>8. CASE LogEvent(p)
  BY <1>0, <1>1, <1>8, SameTables, MethodContinues, ContinueKeepsCount
     DEF LogEvent
<1> QED
  BY <1>4, <1>5, <1>6, <1>7, <1>8

LEMMA BeginUpdateTypeStep ==
    ASSUME DbTypeOK, NEW p \in Processes, NEW t \in TaskIds,
           NEW status \in Statuses, BeginUpdate(p, t, status)
    PROVE  /\ FleetTypeOK' /\ MethodsOK' /\ TablesGrow
           /\ Len(tasks)' = Len(tasks)
           /\ Cardinality(CreatingNow)' <= Cardinality(CreatingNow)
<1> USE DEF MethodsOK
<1>0. FleetTypeOK
  BY DEF DbTypeOK
<1>1. PICK step : step = StepAfter("read", status)
  OBVIOUS
<1>2. step \in {"reserve", "write"}
  BY <1>1 DEF StepAfter
<1>3. PICK new : new = UpdateOf(t, status, step)
  OBVIOUS
<1>4. Goto(p, new)
  BY <1>1, <1>3 DEF BeginUpdate
<1>5. /\ new \in Updating
      /\ new.step \in {"reserve", "write"}
      /\ new.target = tasks[t].target
      /\ new.task = t
  BY <1>0, <1>2, <1>3, RowTypes DEF UpdateOf, Updating, UpdateSteps
<1>6. FleetTypeOK' /\ TablesGrow /\ tasks' = tasks
  BY <1>0, SameTables DEF BeginUpdate
<1>7. new \in Methods'
  BY <1>5, <1>6, MethodsGrow DEF Methods
<1>8. MethodsOK'
  BY <1>4, <1>5, <1>6, <1>7, MethodReplaced
<1>9. Cardinality(CreatingNow)' <= Cardinality(CreatingNow)
  BY <1>4, <1>5, CreatingAfter
<1> QED
  BY <1>6, <1>8, <1>9

(* A process moves to the insertion of a task for a registered drone. *)
LEMMA InsertionOK ==
    ASSUME DbTypeOK, NEW p \in Processes, NEW mode \in Modes,
           NEW d \in Registered, Goto(p, Insertion(mode, d)),
           UNCHANGED <<drones, tasks>>
    PROVE  MethodsOK'
<1>0. FleetTypeOK
  BY DEF DbTypeOK
<1>1. PICK new : new = Insertion(mode, d)
  OBVIOUS
<1>2. d \in Drones
  BY <1>0 DEF FleetTypeOK
<1>3. new \in Creating /\ new.step = "insert" /\ new.target = d
  BY <1>1, <1>2 DEF Insertion, Creating
<1>4. TablesGrow /\ d \in Registered'
  BY <1>0, SameTables DEF TablesGrow
<1>5. new \in Methods'
  BY <1>3, <1>4, MethodsGrow DEF Methods
<1>6. Goto(p, new)
  BY <1>1
<1>7. new.step \notin UpdateSteps
  BY <1>3 DEF UpdateSteps
<1> QED
  BY <1>3, <1>4, <1>5, <1>6, <1>7, MethodReplaced DEF MethodsOK

(* Steps of create_task. *)
LEMMA BeginCreateTypeStep ==
    ASSUME DbTypeOK, NEW p \in Processes, NEW job \in Jobs,
           BeginCreate(p, job)
    PROVE  /\ FleetTypeOK' /\ MethodsOK' /\ TablesGrow
           /\ Len(tasks)' = Len(tasks)
           /\ Len(tasks)' + Cardinality(CreatingNow)' <= MaxTasks
<1>0. FleetTypeOK /\ Len(tasks) \in Nat
  BY DEF DbTypeOK, FleetTypeOK
<1>1. FleetTypeOK' /\ TablesGrow /\ Len(tasks)' = Len(tasks)
  BY <1>0, SameTables DEF BeginCreate
<1>2. job.mode \in Modes /\ job.required \in SUBSET Capabilities
  BY DEF BeginCreate
<1>3. \A required : Best(Available(required)) \subseteq Registered
  BY DEF Best, Available, Capable
<1>4. MethodsOK'
  <2>1. CASE \E d \in Registered : Goto(p, Insertion(job.mode, d))
    BY <1>2, <2>1, InsertionOK DEF BeginCreate
  <2>2. CASE Goto(p, [step |-> "widen", mode |-> job.mode,
                      required |-> job.required])
    <3>1. PICK new : new = [step |-> "widen", mode |-> job.mode,
                            required |-> job.required]
      OBVIOUS
    <3>2. new \in Creating /\ new.step = "widen"
      BY <1>2, <3>1 DEF Creating
    <3>3. new \in Methods'
      BY <1>1, <3>2, MethodsGrow DEF Methods
    <3> QED
      BY <1>1, <2>2, <3>1, <3>2, <3>3, MethodReplaced
         DEF MethodsOK, UpdateSteps
  <2> QED
    BY <1>3, <2>1, <2>2 DEF BeginCreate
<1>5. Cardinality(CreatingNow)' <= Cardinality(CreatingNow) + 1
  <2>1. \E next : Goto(p, next)
    BY DEF BeginCreate
  <2> QED
    BY <2>1, CreatingAfter
<1>6. Cardinality(CreatingNow)' \in Nat
  <2>1. \E next : Goto(p, next)
    BY DEF BeginCreate
  <2> QED
    BY <2>1, CreatingAfter
<1>7. Len(tasks) + Cardinality(CreatingNow) < MaxTasks
  BY DEF BeginCreate
<1> QED
  BY <1>0, <1>1, <1>4, <1>5, <1>6, <1>7, CreatingFinite

LEMMA WidenTypeStep ==
    ASSUME DbTypeOK, NEW p \in Processes, Widen(p)
    PROVE  /\ FleetTypeOK' /\ MethodsOK' /\ TablesGrow
           /\ Len(tasks)' = Len(tasks)
           /\ Cardinality(CreatingNow)' <= Cardinality(CreatingNow)
<1>0. FleetTypeOK
  BY DEF DbTypeOK
<1>1. FleetTypeOK' /\ TablesGrow /\ Len(tasks)' = Len(tasks)
  BY <1>0, SameTables DEF Widen
<1>2. method[p].mode \in Modes
  BY MethodTypes DEF Widen
<1>3. CASE Return(p)
  BY <1>1, <1>3, MethodReturns, ReturnKeepsCount DEF MethodsOK
<1>4. ASSUME NEW d \in Registered, Goto(p, Insertion(method[p].mode, d))
      PROVE  /\ MethodsOK'
             /\ Cardinality(CreatingNow)' <= Cardinality(CreatingNow)
  <2>1. MethodsOK'
    BY <1>2, <1>4, InsertionOK DEF Widen
  <2>2. p \in CreatingNow
    BY DEF CreatingNow, Widen, At
  <2> QED
    BY <1>4, <2>1, <2>2, CreatingAfter
<1>5. Best(Capable(method[p].required)) \subseteq Registered
  BY DEF Best, Capable
<1> QED
  BY <1>1, <1>3, <1>4, <1>5 DEF Widen

LEMMA InsertTypeStep ==
    ASSUME DbTypeOK, NEW p \in Processes, InsertTask(p)
    PROVE  /\ FleetTypeOK' /\ MethodsOK' /\ TablesGrow
           /\ Len(tasks)' + Cardinality(CreatingNow)' <= MaxTasks
<1>0. FleetTypeOK /\ Len(tasks) \in Nat
  BY DEF DbTypeOK, FleetTypeOK
<1>1. PICK d \in Registered, mode \in Modes :
         d = method[p].target /\ mode = method[p].mode
  BY MethodTypes DEF InsertTask
<1>2. PICK row : row = [target |-> d, mode |-> mode, status |-> "queued",
                        started |-> FALSE]
  OBVIOUS
<1>3. d \in Drones
  BY <1>0 DEF FleetTypeOK
<1>4. row \in TaskRow /\ row.target = d
  BY <1>2, <1>3 DEF TaskRow, Statuses
<1>5. tasks \in Seq(TaskRow) /\ tasks' = Append(tasks, row)
  BY <1>0, <1>1, <1>2 DEF InsertTask, FleetTypeOK
<1>6. PICK new : new = Len(tasks) + 1
  OBVIOUS
<1>7. /\ tasks' \in Seq(TaskRow)
      /\ Len(tasks') = new
      /\ tasks'[new] = row
      /\ \A t \in TaskIds : tasks'[t] = tasks[t]
      /\ TaskIds' = TaskIds \cup {new}
  BY <1>0, <1>4, <1>5, <1>6 DEF TaskIds
<1>8. drones' = drones /\ Registered' = Registered
  BY DEF InsertTask, Registered
<1>9. TablesGrow
  BY <1>7, <1>8 DEF TablesGrow
<1>10. PICK next : next = [step |-> "log", task |-> new, status |-> "queued",
                           started |-> FALSE, target |-> d]
  OBVIOUS
<1>11. Goto(p, next)
  BY <1>1, <1>6, <1>10 DEF InsertTask
<1>12. new \in TaskIds'
  BY <1>7
<1>13. next \in Updating' /\ next.step = "log"
  BY <1>3, <1>10, <1>12 DEF Updating, UpdateSteps, Statuses
<1>14. next \in Methods'
  BY <1>13 DEF Methods
<1>15. next.target = tasks'[next.task].target
  BY <1>4, <1>7, <1>10
<1>16. MethodsOK'
  BY <1>9, <1>11, <1>13, <1>14, <1>15, MethodReplaced DEF MethodsOK
<1>17. p \in CreatingNow
  BY DEF CreatingNow, InsertTask, At
<1>18. Cardinality(CreatingNow)' = Cardinality(CreatingNow) - 1
  BY <1>11, <1>13, <1>17, CreatingAfter
<1>19. Len(tasks) + Cardinality(CreatingNow) <= MaxTasks
  BY DEF DbTypeOK
<1>20. Len(tasks)' + Cardinality(CreatingNow)' <= MaxTasks
  BY <1>0, <1>6, <1>7, <1>18, <1>19, CreatingFinite
<1>21. Cardinality(CreatingNow)' \in Nat
  BY <1>11, CreatingAfter
<1>22. Len(tasks') <= MaxTasks
  BY <1>0, <1>6, <1>7, <1>20, <1>21
<1>23. \A t \in TaskIds' : tasks'[t].target \in Registered'
  BY <1>0, <1>4, <1>7, <1>8 DEF FleetTypeOK
<1>24. FleetTypeOK'
  BY <1>0, <1>7, <1>8, <1>22, <1>23 DEF FleetTypeOK
<1> QED
  BY <1>9, <1>16, <1>20, <1>24

(* register_drone. *)
LEMMA RegisterTypeStep ==
    ASSUME DbTypeOK, NEW p \in Processes, NEW d \in Drones,
           NEW offer \in Offers[d], Register(p, d, offer)
    PROVE  /\ FleetTypeOK' /\ MethodsOK' /\ TablesGrow
           /\ Len(tasks)' = Len(tasks)
           /\ CreatingNow' = CreatingNow
<1>0. FleetTypeOK
  BY DEF DbTypeOK
<1>1. RegisterDrone(d, offer) /\ method' = method /\ tasks' = tasks
  BY DEF Register, RegisterDrone
<1>2. /\ offer.address \in Addresses
      /\ offer.capabilities \in SUBSET Capabilities
      /\ offer.slots \in Nat \ {0}
  BY <1>1 DEF RegisterDrone
<1>3. UsedSlots(d) \in Nat
  BY <1>0 DEF UsedSlots, FleetTypeOK, DroneRow, Registered
<1>4. Row(d, offer) \in DroneRow
  BY <1>2, <1>3 DEF Row, DroneRow
<1>5. drones' = [e \in Registered \cup {d} |->
                   IF e = d THEN Row(d, offer) ELSE drones[e]]
  BY <1>1 DEF RegisterDrone
<1>6. Registered' = Registered \cup {d}
  BY <1>5 DEF Registered
<1>7. drones' \in [Registered \cup {d} -> DroneRow]
  BY <1>0, <1>4, <1>5 DEF FleetTypeOK
<1>8. FleetTypeOK' /\ TablesGrow
  BY <1>0, <1>1, <1>6, <1>7 DEF FleetTypeOK, TablesGrow, TaskIds
<1>9. \A q \in Processes : method'[q] \in Methods' /\ TargetOK(q)'
  BY <1>1, <1>8, MethodsKept
<1>10. method' = [q \in Processes |-> method'[q]]
  BY <1>1 DEF DbTypeOK
<1>11. MethodsOK'
  BY <1>9, <1>10 DEF MethodsOK
<1> QED
  BY <1>1, <1>8, <1>11 DEF CreatingNow

-----------------------------------------------------------------------------
(* The log and the fault counter *)

LEMMA LogStep ==
    ASSUME DbTypeOK, [DbNext]_dbVars
    PROVE  /\ log' \in [1..MaxTasks -> Seq(Statuses)]
           /\ faults' \in 0..MaxFaults
<1>1. log \in [1..MaxTasks -> Seq(Statuses)] /\ faults \in 0..MaxFaults
  BY DEF DbTypeOK
<1>2. ASSUME NEW p \in Processes, LogEvent(p)
      PROVE  log' \in [1..MaxTasks -> Seq(Statuses)] /\ faults' = faults
  <2>1. PICK t \in TaskIds, status \in Statuses :
           t = method[p].task /\ status = method[p].status
    <3>1. method[p].step \in UpdateSteps
      BY <1>2 DEF LogEvent, At, UpdateSteps
    <3> QED
      BY <3>1, MethodTypes
  <2>2. t \in 1..MaxTasks
    BY DEF DbTypeOK, FleetTypeOK, TaskIds
  <2>3. Append(log[t], status) \in Seq(Statuses)
    BY <1>1, <2>2
  <2>4. log' = [log EXCEPT ![t] = Append(log[t], status)]
    BY <1>2, <2>1 DEF LogEvent
  <2> QED
    BY <1>1, <1>2, <2>2, <2>3, <2>4 DEF LogEvent
<1>3. ASSUME NEW p \in Processes, GiveUp(p)
      PROVE  log' = log /\ faults' \in 0..MaxFaults
  BY <1>1, <1>3 DEF GiveUp
<1>4. CASE UNCHANGED <<log, faults>>
  BY <1>1, <1>4
<1> QED
  BY <1>1, <1>2, <1>3, <1>4
     DEF DbNext, dbVars, Register, BeginCreate, Widen, InsertTask,
         BeginUpdate, Reserve, WriteStatus, Release

LEMMA DbTypeStep == DbTypeOK /\ [DbNext]_dbVars => DbTypeOK'
<1> SUFFICES ASSUME DbTypeOK, [DbNext]_dbVars PROVE DbTypeOK'
  OBVIOUS
<1>0. /\ Len(tasks) \in Nat
      /\ Len(tasks) + Cardinality(CreatingNow) <= MaxTasks
      /\ Cardinality(CreatingNow) \in Nat
  BY CreatingFinite DEF DbTypeOK, FleetTypeOK
<1> DEFINE Goal == /\ FleetTypeOK' /\ MethodsOK'
                   /\ Len(tasks)' + Cardinality(CreatingNow)' <= MaxTasks
<1>1. ASSUME FleetTypeOK', MethodsOK', Len(tasks)' = Len(tasks),
             Cardinality(CreatingNow)' <= Cardinality(CreatingNow),
             Cardinality(CreatingNow)' \in Nat
      PROVE  Goal
  BY <1>0, <1>1
<1>2. Cardinality(CreatingNow)' \in Nat
  <2>1. CreatingNow' \subseteq Processes
    BY DEF CreatingNow
  <2> QED
    BY <2>1, FS_Subset, FS_CardinalityType
<1>3. ASSUME NEW p \in Processes,
             Reserve(p) \/ WriteStatus(p) \/ Release(p) \/ LogEvent(p)
      PROVE  Goal
  BY <1>1, <1>2, <1>3, UpdateTypeStep
<1>4. ASSUME NEW p \in Processes, NEW t \in TaskIds, NEW status \in Statuses,
             BeginUpdate(p, t, status)
      PROVE  Goal
  BY <1>1, <1>2, <1>4, BeginUpdateTypeStep
<1>5. ASSUME NEW p \in Processes, NEW job \in Jobs, BeginCreate(p, job)
      PROVE  Goal
  BY <1>5, BeginCreateTypeStep
<1>6. ASSUME NEW p \in Processes, Widen(p) PROVE Goal
  BY <1>1, <1>2, <1>6, WidenTypeStep
<1>7. ASSUME NEW p \in Processes, InsertTask(p) PROVE Goal
  BY <1>7, InsertTypeStep
<1>8. ASSUME NEW p \in Processes, NEW d \in Drones, NEW offer \in Offers[d],
             Register(p, d, offer)
      PROVE  Goal
  BY <1>0, <1>1, <1>8, RegisterTypeStep
<1>9. ASSUME NEW p \in Processes, GiveUp(p) PROVE Goal
  <2>1. FleetTypeOK' /\ TablesGrow /\ Len(tasks)' = Len(tasks)
    BY <1>9, SameTables DEF GiveUp, DbTypeOK
  <2>2. Return(p)
    BY <1>9 DEF GiveUp
  <2> QED
    BY <1>1, <1>2, <2>1, <2>2, MethodReturns, ReturnKeepsCount DEF MethodsOK
<1>10. ASSUME UNCHANGED dbVars PROVE Goal
  <2>1. FleetTypeOK' /\ TablesGrow /\ Len(tasks)' = Len(tasks)
    BY <1>10, SameTables DEF dbVars, DbTypeOK
  <2>2. method' = method /\ CreatingNow' = CreatingNow
    BY <1>10 DEF dbVars, CreatingNow
  <2>3. \A q \in Processes : method'[q] \in Methods' /\ TargetOK(q)'
    BY <2>1, <2>2, MethodsKept
  <2>4. method' = [q \in Processes |-> method'[q]]
    BY <2>2 DEF DbTypeOK
  <2>5. MethodsOK'
    BY <2>3, <2>4 DEF MethodsOK
  <2>6. Cardinality(CreatingNow)' = Cardinality(CreatingNow)
    BY <2>2
  <2> QED
    BY <1>0, <2>1, <2>5, <2>6
<1>11. ASSUME NEW p \in Processes,
              \/ \E d \in Drones : \E offer \in Offers[d] :
                    Register(p, d, offer)
              \/ \E job \in Jobs : BeginCreate(p, job)
              \/ Widen(p) \/ InsertTask(p)
              \/ \E t \in TaskIds, status \in Statuses :
                    BeginUpdate(p, t, status)
              \/ Reserve(p) \/ WriteStatus(p) \/ Release(p) \/ LogEvent(p)
              \/ GiveUp(p)
       PROVE  Goal
  <2> HIDE DEF Goal
  <2> QED
    BY <1>3, <1>4, <1>5, <1>6, <1>7, <1>8, <1>9, <1>11
<1>12. Goal
  <2> HIDE DEF Goal
  <2> QED
    BY <1>10, <1>11 DEF DbNext
<1> QED
  BY <1>12, LogStep DEF DbTypeOK, MethodsOK

LEMMA DbTypeInit == DbInit => DbTypeOK
<1> SUFFICES ASSUME DbInit PROVE DbTypeOK
  OBVIOUS
<1>1. FleetTypeOK /\ Len(tasks) = 0
  BY DEF DbInit, FleetInit, FleetTypeOK, Registered, TaskIds
<1>2. method = [p \in Processes |-> NoMethod]
  BY DEF DbInit
<1>3. \A p \in Processes : method[p] = NoMethod /\ method[p].step = "none"
  BY <1>2 DEF NoMethod
<1>4. method \in [Processes -> Methods] /\ \A p \in Processes : TargetOK(p)
  BY <1>2, <1>3 DEF Methods, TargetOK, At, UpdateSteps
<1>5. CreatingNow = {}
  BY <1>3 DEF CreatingNow
<1>6. Cardinality(CreatingNow) = 0
  BY <1>5, FS_EmptySet
<1>7. log \in [1..MaxTasks -> Seq(Statuses)] /\ faults \in 0..MaxFaults
  BY DEF DbInit
<1> QED
  BY <1>1, <1>4, <1>6, <1>7 DEF DbTypeOK

(* Type correctness for any number of processes, updaters and faults: what
   a process remembers between two statements still refers to rows of the
   tables, whatever the others have done meanwhile. *)
THEOREM DbTypeCorrect == DbSpec => []DbTypeOK
BY DbTypeInit, DbTypeStep, PTL DEF DbSpec

-----------------------------------------------------------------------------
(* What update_task holds, for any number of updaters *)

(* A method changes a task along the transition that the row it has read
   allowed, whatever the row has become. *)
Sound(p) ==
    AtWork(p) => /\ method[p].status \in Transitions[Was(method[p].started)]
                 /\ At(p, "reserve") => method[p].status = "running"
                 /\ At(p, "release") => method[p].status # "running"

SoundInv == /\ DbTypeOK
            /\ StartedOnce
            /\ \A p \in Processes : Sound(p)

LEMMA CreateMoves ==
    ASSUME NEW p \in Processes,
           \/ \E mode, d : Goto(p, Insertion(mode, d))
           \/ \E mode, required :
                 Goto(p, [step |-> "widen", mode |-> mode,
                          required |-> required])
           \/ Return(p)
    PROVE  \E next : /\ Goto(p, next)
                     /\ next.step \in {"insert", "widen", "none"}
<1>1. ASSUME NEW mode, NEW d, Goto(p, Insertion(mode, d))
      PROVE  \E next : Goto(p, next) /\ next.step \in {"insert"}
  <2>1. Insertion(mode, d).step = "insert"
    BY DEF Insertion
  <2> QED
    BY <1>1, <2>1
<1>2. ASSUME NEW mode, NEW required,
             Goto(p, [step |-> "widen", mode |-> mode, required |-> required])
      PROVE  \E next : Goto(p, next) /\ next.step \in {"widen"}
  <2>1. PICK next : next = [step |-> "widen", mode |-> mode,
                            required |-> required]
    OBVIOUS
  <2>2. Goto(p, next) /\ next.step = "widen"
    BY <1>2, <2>1
  <2> QED
    BY <2>2
<1>3. ASSUME Return(p)
      PROVE  \E next : Goto(p, next) /\ next.step \in {"none"}
  BY <1>3 DEF Return, NoMethod
<1> QED
  BY <1>1, <1>2, <1>3

(* A row that update_task accepts is as started_at says. *)
LEMMA Accepted ==
    ASSUME DbTypeOK, StartedOnce, NEW t \in TaskIds, NEW status \in Statuses,
           status \in Transitions[tasks[t].status]
    PROVE  tasks[t].status = Was(tasks[t].started)
<1>1. tasks[t].status \in Statuses /\ tasks[t].started \in BOOLEAN
  BY RowTypes DEF DbTypeOK
<1>2. tasks[t].status \in {"queued", "running"}
  BY <1>1 DEF Transitions, Statuses
<1> QED
  BY <1>1, <1>2 DEF StartedOnce, Was

(* A process that moves to a point outside update_task's statements. *)
LEMMA SoundMoved ==
    ASSUME SoundInv, NEW p \in Processes, NEW next, Goto(p, next),
           next.step \notin {"reserve", "write", "release"}
    PROVE  \A q \in Processes : Sound(q)'
<1>1. /\ method'[p] = next
      /\ \A q \in Processes \ {p} : method'[q] = method[q]
  BY DEF Goto, SoundInv, DbTypeOK
<1> QED
  BY <1>1 DEF SoundInv, Sound, AtWork, At

LEMMA SoundKept ==
    ASSUME SoundInv, method' = method
    PROVE  \A q \in Processes : Sound(q)'
BY DEF SoundInv, Sound, AtWork, At

LEMMA SoundContinues ==
    ASSUME SoundInv, NEW p \in Processes, AtWork(p), Continue(p)
    PROVE  \A q \in Processes : Sound(q)'
<1>1. method[p] \in Updating /\ DOMAIN method = Processes
  BY MethodTypes DEF SoundInv, DbTypeOK, AtWork, UpdateSteps
<1>2. PICK next : next = StepAfter(method[p].step, method[p].status)
  OBVIOUS
<1>3. /\ next \in {"write", "release", "log"}
      /\ next = "release" => method[p].status # "running"
  BY <1>2 DEF StepAfter, AtWork
<1>4. PICK new : new = [method[p] EXCEPT !.step = next]
  OBVIOUS
<1>5. Goto(p, new)
  BY <1>2, <1>3, <1>4 DEF Continue
<1>6. /\ new.step = next
      /\ new.status = method[p].status
      /\ new.started = method[p].started
  BY <1>1, <1>4 DEF Updating
<1>7. /\ method'[p] = new
      /\ \A q \in Processes \ {p} : method'[q] = method[q]
  BY <1>1, <1>5 DEF Goto
<1>8. Sound(p) /\ \A q \in Processes : Sound(q)
  BY DEF SoundInv
<1>9. Sound(p)'
  BY <1>3, <1>6, <1>7, <1>8 DEF Sound, AtWork, At
<1> QED
  BY <1>7, <1>8, <1>9 DEF Sound, AtWork, At

LEMMA SoundStep == SoundInv /\ [DbNext]_dbVars => SoundInv'
<1> SUFFICES ASSUME SoundInv, [DbNext]_dbVars PROVE SoundInv'
  OBVIOUS
<1>0. DbTypeOK /\ FleetTypeOK /\ StartedOnce
  BY DEF SoundInv, DbTypeOK
<1> DEFINE Goal == StartedOnce' /\ \A q \in Processes : Sound(q)'
<1>1. ASSUME tasks' = tasks PROVE StartedOnce'
  BY <1>0, <1>1 DEF StartedOnce, TaskIds
<1>2. ASSUME NEW p \in Processes, NEW d \in Drones, NEW offer \in Offers[d],
             Register(p, d, offer)
      PROVE  Goal
  BY <1>1, <1>2, SoundKept DEF Register, RegisterDrone
<1>3. ASSUME NEW p \in Processes,
             Widen(p) \/ \E job \in Jobs : BeginCreate(p, job)
      PROVE  Goal
  <2>1. \E next : /\ Goto(p, next)
                  /\ next.step \in {"insert", "widen", "none"}
    BY <1>3, CreateMoves DEF Widen, BeginCreate
  <2>2. tasks' = tasks
    BY <1>3 DEF Widen, BeginCreate
  <2> QED
    BY <1>1, <2>1, <2>2, SoundMoved
<1>4. ASSUME NEW p \in Processes, InsertTask(p) PROVE Goal
  <2>1. PICK row : /\ tasks' = Append(tasks, row)
                   /\ row.status = "queued" /\ row.started = FALSE
    <3>1. PICK row : row = [target |-> method[p].target,
                            mode |-> method[p].mode,
                            status |-> "queued", started |-> FALSE]
      OBVIOUS
    <3> QED
      BY <1>4, <3>1 DEF InsertTask
  <2>2. \A t \in TaskIds' : \/ t \in TaskIds /\ tasks'[t] = tasks[t]
                            \/ tasks'[t] = row
    BY <1>0, <2>1 DEF FleetTypeOK, TaskIds
  <2>3. StartedOnce'
    BY <1>0, <2>1, <2>2 DEF StartedOnce
  <2>4. \E next : Goto(p, next) /\ next.step = "log"
    <3>1. PICK next : next = [step |-> "log", task |-> Len(tasks) + 1,
                              status |-> "queued", started |-> FALSE,
                              target |-> method[p].target]
      OBVIOUS
    <3> QED
      BY <1>4, <3>1 DEF InsertTask
  <2> QED
    BY <2>3, <2>4, SoundMoved
<1>5. ASSUME NEW p \in Processes, NEW t \in TaskIds, NEW status \in Statuses,
             BeginUpdate(p, t, status)
      PROVE  Goal
  <2>1. PICK step : step = StepAfter("read", status)
    OBVIOUS
  <2>2. PICK new : new = UpdateOf(t, status, step)
    OBVIOUS
  <2>3. /\ method'[p] = new
        /\ \A q \in Processes \ {p} : method'[q] = method[q]
        /\ tasks' = tasks
    BY <1>0, <1>5, <2>1, <2>2 DEF BeginUpdate, Goto, DbTypeOK
  <2>4. /\ status \in Transitions[tasks[t].status]
        /\ step = "reserve" => status = "running"
        /\ step \in {"reserve", "write"}
    BY <1>5, <2>1 DEF BeginUpdate, StepAfter
  <2>5. /\ new.step = step /\ new.status = status
        /\ new.task = t /\ new.started = tasks[t].started
    BY <2>2 DEF UpdateOf
  <2>6. tasks[t].status = Was(tasks[t].started)
    BY <1>0, <2>4, Accepted
  <2>7. Sound(p)'
    BY <2>3, <2>4, <2>5, <2>6 DEF Sound, At
  <2>8. \A q \in Processes \ {p} : Sound(q)'
    BY <2>3 DEF SoundInv, Sound, AtWork, At
  <2> QED
    BY <1>1, <2>3, <2>7, <2>8
<1>6. ASSUME NEW p \in Processes, Reserve(p) PROVE Goal
  <2>1. AtWork(p) /\ tasks' = tasks /\ (Return(p) \/ Continue(p))
    BY <1>6 DEF Reserve, AtWork, At
  <2> QED
    BY <1>1, <2>1, SoundContinues, SoundMoved DEF Return, NoMethod
<1>7. ASSUME NEW p \in Processes, WriteStatus(p) PROVE Goal
  <2>1. AtWork(p) /\ Continue(p)
    BY <1>7 DEF WriteStatus, AtWork, At
  <2>2. /\ method[p].task \in TaskIds
        /\ method[p].status \in Statuses
        /\ method[p].started \in BOOLEAN
        /\ method[p].status \in Transitions[Was(method[p].started)]
    BY <1>0, <2>1, MethodTypes DEF SoundInv, Sound, AtWork, UpdateSteps
  <2>3. method[p].status # "queued"
    BY <2>2 DEF Transitions, Was
  <2>4. PICK t \in TaskIds, status \in Statuses, started \in BOOLEAN :
           /\ t = method[p].task
           /\ status = method[p].status
           /\ started = (method[p].started \/ method[p].status = "running")
    BY <2>2
  <2>5. tasks[t] \in TaskRow
    BY <1>0, RowTypes
  <2>6. tasks'[t] = [tasks[t] EXCEPT !.status = status, !.started = started]
    BY <1>0, <1>7, <2>4, RowWritten
  <2>7. tasks'[t].status = status /\ tasks'[t].started = started
    BY <2>5, <2>6 DEF TaskRow
  <2>8. /\ TaskIds' = TaskIds
        /\ \A u \in TaskIds \ {t} : tasks'[u] = tasks[u]
    BY <1>0, <1>7, <2>4, RowWritten
  <2>9. StartedOnce'
    BY <1>0, <2>3, <2>4, <2>7, <2>8 DEF StartedOnce
  <2> QED
    BY <2>1, <2>9, SoundContinues
<1>8. ASSUME NEW p \in Processes, Release(p) PROVE Goal
  <2>1. AtWork(p) /\ Continue(p) /\ tasks' = tasks
    BY <1>8 DEF Release, AtWork, At
  <2> QED
    BY <1>1, <2>1, SoundContinues
<1>9. ASSUME NEW p \in Processes, LogEvent(p) \/ GiveUp(p) PROVE Goal
  <2>1. Goto(p, NoMethod) /\ tasks' = tasks
    BY <1>9 DEF LogEvent, GiveUp, Continue, StepAfter, Return, At
  <2>2. NoMethod.step = "none"
    BY DEF NoMethod
  <2> QED
    BY <1>1, <2>1, <2>2, SoundMoved
<1>10. ASSUME UNCHANGED dbVars PROVE Goal
  BY <1>1, <1>10, SoundKept DEF dbVars
<1>11. Goal
  <2> HIDE DEF Goal
  <2>1. ASSUME DbNext PROVE Goal
    <3>1. PICK p \in Processes :
             \/ \E d \in Drones : \E offer \in Offers[d] :
                   Register(p, d, offer)
             \/ \E job \in Jobs : BeginCreate(p, job)
             \/ Widen(p) \/ InsertTask(p)
             \/ \E t \in TaskIds, status \in Statuses :
                   BeginUpdate(p, t, status)
             \/ Reserve(p) \/ WriteStatus(p) \/ Release(p) \/ LogEvent(p)
             \/ GiveUp(p)
      BY <2>1 DEF DbNext
    <3> QED
      BY <1>2, <1>3, <1>4, <1>5, <1>6, <1>7, <1>8, <1>9, <3>1
  <2> QED
    BY <1>10, <2>1
<1> QED
  BY <1>0, <1>11, DbTypeStep DEF SoundInv

LEMMA SoundInit == DbInit => SoundInv
<1> SUFFICES ASSUME DbInit PROVE SoundInv
  OBVIOUS
<1>1. \A p \in Processes : method[p].step = "none"
  BY DEF DbInit, NoMethod
<1>2. TaskIds = {}
  BY DEF DbInit, FleetInit, TaskIds
<1> QED
  BY <1>1, <1>2, DbTypeInit DEF SoundInv, StartedOnce, Sound, AtWork

LEMMA SoundAlways == DbSpec => []SoundInv
BY SoundInit, SoundStep, PTL DEF DbSpec

-----------------------------------------------------------------------------
(* One updater *)

OneUpdater == \A p, q \in Updaters : p = q

(* Only the updater is inside update_task, and what it has read still holds
   when it comes to write: a start of a queued task with started_at as in
   the row, an outcome of one that may still get it. *)
ReadHolds ==
    \A p \in Processes :
        /\ method[p].step \in {"reserve", "write", "release"}
             => p \in Updaters
        /\ method[p].step \in {"reserve", "write"} =>
             /\ method[p].status \in Transitions[tasks[method[p].task].status]
             /\ method[p].started = tasks[method[p].task].started
        /\ method[p].step = "reserve" => method[p].status = "running"

(* A process that moves to a point outside update_task. *)
LEMMA ReadHoldsMoved ==
    ASSUME DbTypeOK, ReadHolds, NEW p \in Processes, NEW next,
           Goto(p, next),
           next.step \notin {"reserve", "write", "release"},
           \A t \in TaskIds : tasks'[t] = tasks[t]
    PROVE  ReadHolds'
<1>1. /\ method'[p] = next
      /\ \A q \in Processes \ {p} : method'[q] = method[q]
  BY DEF Goto, DbTypeOK
<1>2. ASSUME NEW q \in Processes \ {p},
             method[q].step \in {"reserve", "write"}
      PROVE  tasks'[method[q].task] = tasks[method[q].task]
  BY <1>2, MethodTypes DEF UpdateSteps
<1> QED
  BY <1>1, <1>2 DEF ReadHolds

LEMMA ReadHoldsStep ==
    ASSUME OneUpdater, DbTypeOK, ReadHolds, [DbNext]_dbVars
    PROVE  ReadHolds'
<1>0. /\ FleetTypeOK
      /\ DOMAIN method = Processes
  BY DEF DbTypeOK
<1>1. ASSUME NEW p \in Processes, NEW d \in Drones, NEW offer \in Offers[d],
             Register(p, d, offer)
      PROVE  ReadHolds'
  BY <1>1 DEF Register, RegisterDrone, ReadHolds
<1>2. ASSUME NEW p \in Processes, NEW job \in Jobs, BeginCreate(p, job)
      PROVE  ReadHolds'
  <2>1. tasks' = tasks
    BY <1>2 DEF BeginCreate
  <2>2. \E next : /\ Goto(p, next)
                  /\ next.step \in {"insert", "widen", "none"}
    BY <1>2, CreateMoves DEF BeginCreate
  <2> QED
    BY <2>1, <2>2, ReadHoldsMoved
<1>3. ASSUME NEW p \in Processes, Widen(p) PROVE ReadHolds'
  <2>1. tasks' = tasks
    BY <1>3 DEF Widen
  <2>2. \E next : /\ Goto(p, next)
                  /\ next.step \in {"insert", "widen", "none"}
    BY <1>3, CreateMoves DEF Widen
  <2> QED
    BY <2>1, <2>2, ReadHoldsMoved
<1>4. ASSUME NEW p \in Processes, InsertTask(p) PROVE ReadHolds'
  <2>1. PICK row : tasks' = Append(tasks, row)
    BY <1>4 DEF InsertTask
  <2>2. \A t \in TaskIds : tasks'[t] = tasks[t]
    BY <1>0, <2>1 DEF FleetTypeOK, TaskIds
  <2>3. \E next : /\ Goto(p, next)
                  /\ next.step \notin {"reserve", "write", "release"}
    BY <1>4 DEF InsertTask
  <2> QED
    BY <2>2, <2>3, ReadHoldsMoved
<1>5. ASSUME NEW p \in Processes, NEW t \in TaskIds, NEW status \in Statuses,
             BeginUpdate(p, t, status)
      PROVE  ReadHolds'
  <2>1. PICK step : step = StepAfter("read", status)
    OBVIOUS
  <2>2. PICK new : new = UpdateOf(t, status, step)
    OBVIOUS
  <2>3. /\ method'[p] = new
        /\ \A q \in Processes \ {p} : method'[q] = method[q]
        /\ tasks' = tasks
    BY <1>0, <1>5, <2>1, <2>2 DEF BeginUpdate, Goto
  <2>4. /\ p \in Updaters
        /\ status \in Transitions[tasks[t].status]
        /\ step = "reserve" => status = "running"
    BY <1>5, <2>1 DEF BeginUpdate, StepAfter
  <2>5. /\ new.step = step /\ new.status = status
        /\ new.task = t /\ new.started = tasks[t].started
    BY <2>2 DEF UpdateOf
  <2> QED
    BY <2>3, <2>4, <2>5 DEF ReadHolds
<1>6. ASSUME NEW p \in Processes, Reserve(p) PROVE ReadHolds'
  <2>1. CASE Return(p)
    BY <1>6, <2>1, ReadHoldsMoved DEF Reserve, Return, NoMethod
  <2>2. CASE Continue(p)
    <3>1. method[p] \in Updating /\ method[p].step = "reserve"
      BY <1>6, MethodTypes DEF Reserve, At, UpdateSteps
    <3>2. PICK new : new = [method[p] EXCEPT !.step = "write"]
      OBVIOUS
    <3>3. /\ new.step = "write" /\ new.task = method[p].task
          /\ new.status = method[p].status
          /\ new.started = method[p].started
      BY <3>1, <3>2 DEF Updating
    <3>4. method' = [method EXCEPT ![p] = new]
      BY <2>2, <3>1, <3>2 DEF Continue, StepAfter, Goto
    <3>5. /\ method'[p] = new
          /\ \A q \in Processes \ {p} : method'[q] = method[q]
      BY <1>0, <3>4
    <3>6. tasks' = tasks
      BY <1>6 DEF Reserve
    <3> QED
      BY <3>1, <3>3, <3>5, <3>6 DEF ReadHolds
  <2> QED
    BY <1>6, <2>1, <2>2 DEF Reserve
<1>7. ASSUME NEW p \in Processes, WriteStatus(p) PROVE ReadHolds'
  <2>1. method[p] \in Updating /\ method[p].step = "write" /\ p \in Updaters
    BY <1>7, MethodTypes DEF WriteStatus, At, UpdateSteps, ReadHolds
  <2>2. PICK next \in {"log", "release"} :
           method' = [method EXCEPT ![p] = [method[p] EXCEPT !.step = next]]
    BY <1>7, <2>1 DEF WriteStatus, Continue, StepAfter, Goto
  <2>3. /\ method'[p].step = next
        /\ \A q \in Processes \ {p} : method'[q] = method[q]
    BY <1>0, <2>1, <2>2 DEF Updating
  <2>4. \A q \in Processes \ {p} :
           method[q].step \notin {"reserve", "write", "release"}
    BY <2>1 DEF OneUpdater, ReadHolds
  <2> QED
    BY <2>1, <2>3, <2>4 DEF ReadHolds
<1>8. ASSUME NEW p \in Processes, Release(p) \/ LogEvent(p)
      PROVE  ReadHolds'
  <2>1. method[p] \in Updating /\ method[p].step \in {"release", "log"}
    BY <1>8, MethodTypes DEF Release, LogEvent, At, UpdateSteps
  <2>2. tasks' = tasks /\ Continue(p)
    BY <1>8 DEF Release, LogEvent
  <2>3. \E next : /\ Goto(p, next)
                  /\ next.step \notin {"reserve", "write", "release"}
    BY <2>1, <2>2 DEF Continue, StepAfter, Return, NoMethod, Updating
  <2> QED
    BY <2>2, <2>3, ReadHoldsMoved
<1>9. ASSUME NEW p \in Processes, GiveUp(p) PROVE ReadHolds'
  BY <1>9, ReadHoldsMoved DEF GiveUp, Return, NoMethod
<1>10. CASE UNCHANGED dbVars
  BY <1>10 DEF dbVars, ReadHolds
<1>11. ASSUME NEW p \in Processes,
              \/ \E d \in Drones : \E offer \in Offers[d] :
                    Register(p, d, offer)
              \/ \E job \in Jobs : BeginCreate(p, job)
              \/ Widen(p) \/ InsertTask(p)
              \/ \E t \in TaskIds, status \in Statuses :
                    BeginUpdate(p, t, status)
              \/ Reserve(p) \/ WriteStatus(p) \/ Release(p) \/ LogEvent(p)
              \/ GiveUp(p)
       PROVE  ReadHolds'
  BY <1>1, <1>2, <1>3, <1>4, <1>5, <1>6, <1>7, <1>8, <1>9, <1>11
<1> QED
  BY <1>10, <1>11 DEF DbNext

(* A process that is about to release a slot finds its task as it has
   written it. *)
RowWasWritten ==
    \A p \in Processes : At(p, "release") =>
        /\ tasks[method[p].task].status = method[p].status
        /\ tasks[method[p].task].started = method[p].started

LEMMA WrittenMoved ==
    ASSUME DbTypeOK, RowWasWritten, NEW p \in Processes, NEW next,
           Goto(p, next), next.step # "release",
           \A t \in TaskIds : tasks'[t] = tasks[t]
    PROVE  RowWasWritten'
<1>1. /\ method'[p] = next
      /\ \A q \in Processes \ {p} : method'[q] = method[q]
  BY DEF Goto, DbTypeOK
<1>2. ASSUME NEW q \in Processes, method[q].step = "release"
      PROVE  tasks'[method[q].task] = tasks[method[q].task]
  BY <1>2, MethodTypes DEF UpdateSteps
<1> QED
  BY <1>1, <1>2 DEF RowWasWritten, At

LEMMA RowWasWrittenStep ==
    ASSUME OneUpdater, SoundInv, ReadHolds, RowWasWritten, [DbNext]_dbVars
    PROVE  RowWasWritten'
<1>0. DbTypeOK /\ FleetTypeOK
  BY DEF SoundInv, DbTypeOK
<1>1. ASSUME NEW p \in Processes, WriteStatus(p) PROVE RowWasWritten'
  <2>1. /\ method[p].step = "write" /\ p \in Updaters
        /\ method[p].task \in TaskIds
        /\ method[p] \in Updating /\ Continue(p)
    BY <1>0, <1>1, MethodTypes
       DEF WriteStatus, At, ReadHolds, UpdateSteps
  <2>2. PICK t \in TaskIds, status \in Statuses, started \in BOOLEAN :
           /\ t = method[p].task
           /\ status = method[p].status
           /\ started = method[p].started
    BY <1>0, <2>1, MethodTypes DEF UpdateSteps
  <2>3. tasks[t] \in TaskRow
    BY <1>0, RowTypes
  <2>4. status # "running" =>
          tasks'[t] = [tasks[t] EXCEPT !.status = status,
                                       !.started = started]
    BY <1>0, <1>1, <2>2, RowWritten
  <2>5. status # "running" =>
          tasks'[t].status = status /\ tasks'[t].started = started
    BY <2>3, <2>4 DEF TaskRow
  <2>6. \A q \in Processes \ {p} : method[q].step # "release"
    BY <2>1 DEF OneUpdater, ReadHolds
  <2>7. PICK step : step = IF status = "running" THEN "log" ELSE "release"
    OBVIOUS
  <2>8. PICK next : next = [method[p] EXCEPT !.step = step]
    OBVIOUS
  <2>9. Goto(p, next)
    BY <2>1, <2>2, <2>7, <2>8 DEF Continue, StepAfter
  <2>10. /\ next.step = step /\ next.status = status /\ next.task = t
         /\ next.started = started
    BY <2>1, <2>2, <2>8 DEF Updating
  <2>11. /\ method'[p] = next
         /\ \A q \in Processes \ {p} : method'[q] = method[q]
    BY <1>0, <2>9 DEF Goto, DbTypeOK
  <2>12. At(p, "release")' => status # "running"
    BY <2>7, <2>10, <2>11 DEF At
  <2> QED
    BY <2>5, <2>6, <2>10, <2>11, <2>12 DEF RowWasWritten, At
<1>2. ASSUME NEW p \in Processes, NEW t \in TaskIds, NEW status \in Statuses,
             BeginUpdate(p, t, status)
      PROVE  RowWasWritten'
  <2>1. PICK new : new = UpdateOf(t, status, StepAfter("read", status))
    OBVIOUS
  <2>2. Goto(p, new) /\ new.step # "release" /\ tasks' = tasks
    BY <1>2, <2>1 DEF BeginUpdate, UpdateOf, StepAfter
  <2> QED
    BY <1>0, <2>2, WrittenMoved
<1>3. ASSUME NEW p \in Processes, Reserve(p) PROVE RowWasWritten'
  <2>1. tasks' = tasks /\ method[p].step = "reserve" /\ method[p] \in Updating
    BY <1>0, <1>3, MethodTypes DEF Reserve, At, UpdateSteps
  <2>2. CASE Return(p)
    BY <1>0, <2>1, <2>2, WrittenMoved DEF Return, NoMethod
  <2>3. CASE Continue(p)
    <3>1. PICK next : next = [method[p] EXCEPT !.step = "write"]
      OBVIOUS
    <3>2. Goto(p, next) /\ next.step = "write"
      BY <2>1, <2>3, <3>1 DEF Continue, StepAfter, Updating
    <3> QED
      BY <1>0, <2>1, <3>2, WrittenMoved
  <2> QED
    BY <1>3, <2>2, <2>3 DEF Reserve
<1>4. ASSUME NEW p \in Processes, Release(p) \/ LogEvent(p)
      PROVE  RowWasWritten'
  <2>1. method[p] \in Updating /\ method[p].step \in {"release", "log"}
    BY <1>0, <1>4, MethodTypes DEF Release, LogEvent, At, UpdateSteps
  <2>2. tasks' = tasks /\ Continue(p)
    BY <1>4 DEF Release, LogEvent
  <2>3. \E next : Goto(p, next) /\ next.step # "release"
    BY <2>1, <2>2 DEF Continue, StepAfter, Return, NoMethod, Updating
  <2> QED
    BY <1>0, <2>2, <2>3, WrittenMoved
<1>5. ASSUME NEW p \in Processes, GiveUp(p) PROVE RowWasWritten'
  BY <1>0, <1>5, WrittenMoved DEF GiveUp, Return, NoMethod
<1>6. ASSUME NEW p \in Processes,
             Widen(p) \/ \E job \in Jobs : BeginCreate(p, job)
      PROVE  RowWasWritten'
  <2>1. tasks' = tasks
    BY <1>6 DEF Widen, BeginCreate
  <2>2. \E next : Goto(p, next) /\ next.step \in {"insert", "widen", "none"}
    BY <1>6, CreateMoves DEF Widen, BeginCreate
  <2> QED
    BY <1>0, <2>1, <2>2, WrittenMoved
<1>7. ASSUME NEW p \in Processes, InsertTask(p) PROVE RowWasWritten'
  <2>1. PICK row : tasks' = Append(tasks, row)
    BY <1>7 DEF InsertTask
  <2>2. \A t \in TaskIds : tasks'[t] = tasks[t]
    BY <1>0, <2>1 DEF FleetTypeOK, TaskIds
  <2>3. \E next : Goto(p, next) /\ next.step # "release"
    BY <1>7 DEF InsertTask
  <2> QED
    BY <1>0, <2>2, <2>3, WrittenMoved
<1>8. ASSUME NEW p \in Processes, NEW d \in Drones, NEW offer \in Offers[d],
             Register(p, d, offer)
      PROVE  RowWasWritten'
  BY <1>8 DEF Register, RegisterDrone, RowWasWritten, At
<1>9. CASE UNCHANGED dbVars
  BY <1>9 DEF dbVars, RowWasWritten, At
<1>10. CASE DbNext
  <2>1. PICK p \in Processes :
           \/ \E d \in Drones : \E offer \in Offers[d] : Register(p, d, offer)
           \/ \E job \in Jobs : BeginCreate(p, job)
           \/ Widen(p) \/ InsertTask(p)
           \/ \E t \in TaskIds, status \in Statuses :
                 BeginUpdate(p, t, status)
           \/ Reserve(p) \/ WriteStatus(p) \/ Release(p) \/ LogEvent(p)
           \/ GiveUp(p)
    BY <1>10 DEF DbNext
  <2> QED
    BY <1>1, <1>2, <1>3, <1>4, <1>5, <1>6, <1>7, <1>8, <2>1
<1> QED
  BY <1>9, <1>10

LEMMA ApartNow ==
    ASSUME OneUpdater, SoundInv, ReadHolds, RowWasWritten
    PROVE  Apart
<1> SUFFICES ASSUME NEW p \in Processes, AtWork(p)
             PROVE  /\ KnowsRow(p)
                    /\ \A q \in Processes :
                          AtWork(q) /\ method[q].task = method[p].task
                             => q = p
  BY DEF Apart
<1>1. DbTypeOK /\ StartedOnce
  BY DEF SoundInv
<1>2. method[p].task \in TaskIds /\ method[p].status \in Statuses
  BY <1>1, MethodTypes DEF AtWork, UpdateSteps
<1>3. \A q \in Processes : AtWork(q) => q = p
  BY DEF OneUpdater, ReadHolds, AtWork
<1>4. CASE At(p, "release")
  BY <1>3, <1>4 DEF KnowsRow, RowWasWritten
<1>5. CASE ~At(p, "release")
  <2>1. /\ method[p].status \in Transitions[tasks[method[p].task].status]
        /\ method[p].started = tasks[method[p].task].started
    BY <1>5 DEF ReadHolds, AtWork, At
  <2>2. tasks[method[p].task].status = Was(tasks[method[p].task].started)
    BY <1>1, <1>2, <2>1, Accepted
  <2> QED
    BY <1>3, <1>5, <2>1, <2>2 DEF KnowsRow
<1> QED
  BY <1>3, <1>4, <1>5

-----------------------------------------------------------------------------
(* The tasks as if methods took effect at once *)

(* A point of a method at which the tables lag behind or run ahead. *)
Holding(m) == \/ m.step = "write" /\ m.status = "running"
              \/ m.step = "release"

LEMMA HoldingSets ==
    /\ Starting = {p \in Processes : method[p].step = "write"
                                       /\ method[p].status = "running"}
    /\ Finishing = {p \in Processes : method[p].step = "release"}
    /\ Starting \cup Finishing = {p \in Processes : Holding(method[p])}
BY DEF Starting, Finishing, At, Holding

(* The mapped tables have the same ids and are as long. *)
LEMMA MappedShape ==
    ASSUME DbTypeOK
    PROVE  /\ TasksAtOnce \in Seq(TaskRow)
           /\ Len(TasksAtOnce) = Len(tasks)
           /\ AtOnce!TaskIds = TaskIds
           /\ AtOnce!Registered = Registered
<1>1. tasks \in Seq(TaskRow) /\ Len(tasks) \in Nat
  BY DEF DbTypeOK, FleetTypeOK
<1>2. ASSUME NEW t \in TaskIds PROVE TasksAtOnce[t] \in TaskRow
  <2>1. tasks[t] \in TaskRow
    BY RowTypes DEF DbTypeOK
  <2>2. TaskAfter(tasks[t], "running") \in TaskRow
    BY <2>1 DEF TaskAfter, TaskRow, Statuses
  <2>3. [tasks[t] EXCEPT !.status = Was(tasks[t].started)] \in TaskRow
    BY <2>1 DEF Was, TaskRow, Statuses
  <2> QED
    BY <2>1, <2>2, <2>3 DEF TasksAtOnce
<1>3. TasksAtOnce \in [1..Len(tasks) -> TaskRow]
  <2>1. TasksAtOnce = [t \in TaskIds |-> TasksAtOnce[t]]
    BY DEF TasksAtOnce
  <2> QED
    BY <1>2, <2>1 DEF TaskIds
<1>4. TasksAtOnce \in Seq(TaskRow) /\ Len(TasksAtOnce) = Len(tasks)
  <2>1. PICK n \in Nat : n = Len(tasks)
    BY <1>1
  <2>2. PICK s : s = TasksAtOnce
    OBVIOUS
  <2>3. s \in [1..n -> TaskRow]
    BY <1>3, <2>1, <2>2
  <2>4. s \in Seq(TaskRow)
    BY ONLY <2>1, <2>3, SeqDef
  <2>5. Len(s) = n
    <3>1. /\ Len(s) \in Nat
          /\ DOMAIN s = 1..Len(s)
      BY ONLY <2>4, LenProperties
    <3>2. DOMAIN s = 1..n
      BY <2>3
    <3>3. PICK m \in Nat : m = Len(s)
      BY <3>1
    <3>4. 1..m = 1..n
      BY <3>1, <3>2, <3>3
    <3>5. m < n => n \in 1..n /\ n \notin 1..m
      BY ONLY <2>1, <3>3
    <3>6. n < m => m \in 1..m /\ m \notin 1..n
      BY ONLY <2>1, <3>3
    <3>7. m = n
      BY ONLY <2>1, <3>3, <3>4, <3>5, <3>6
    <3> QED
      BY <3>3, <3>7
  <2> QED
    BY <2>1, <2>2, <2>4, <2>5
<1>5. AtOnce!TaskIds = TaskIds
  BY <1>4 DEF AtOnce!TaskIds, TaskIds
<1>6. AtOnce!Registered = Registered
  BY DEF AtOnce!Registered, Registered
<1> QED
  BY <1>4, <1>5, <1>6

(* A step outside the points of Holding that leaves the tables alone does
   not show. *)
LEMMA Aside ==
    ASSUME DbTypeOK, NEW p \in Processes, NEW next, Goto(p, next),
           ~Holding(method[p]), ~Holding(next),
           UNCHANGED <<drones, tasks>>
    PROVE  UNCHANGED <<drones, TasksAtOnce>>
<1>1. /\ method'[p] = next
      /\ \A q \in Processes \ {p} : method'[q] = method[q]
  BY DEF Goto, DbTypeOK
<1>2. /\ Starting' = Starting /\ Finishing' = Finishing
      /\ p \notin Starting /\ p \notin Finishing
  BY <1>1 DEF Starting, Finishing, At, Holding
<1>3. \A q \in Starting \cup Finishing : method'[q] = method[q]
  BY <1>1, <1>2 DEF Starting, Finishing
<1>4. TaskIds' = TaskIds
  BY DEF TaskIds
<1> QED
  BY <1>2, <1>3, <1>4 DEF TasksAtOnce

(* The others hold what they held, and none of them task t, on which p is
   at work: only the entry of t can show the step. *)
LEMMA OnlyItsTask ==
    ASSUME DbTypeOK, Apart, NEW p \in Processes, AtWork(p), NEW next,
           Goto(p, next), next.task = method[p].task,
           TaskIds' = TaskIds,
           \A u \in TaskIds \ {method[p].task} : tasks'[u] = tasks[u]
    PROVE  LET t == method[p].task IN
           /\ t \in TaskIds
           /\ \A u \in TaskIds \ {t} : TasksAtOnce'[u] = TasksAtOnce[u]
           /\ TasksAtOnce[t] =
                IF At(p, "write") /\ method[p].status = "running"
                THEN TaskAfter(tasks[t], "running")
                ELSE IF At(p, "release")
                THEN [tasks[t] EXCEPT !.status = Was(tasks[t].started)]
                ELSE tasks[t]
           /\ TasksAtOnce'[t] =
                IF next.step = "write" /\ next.status = "running"
                THEN TaskAfter(tasks'[t], "running")
                ELSE IF next.step = "release"
                THEN [tasks'[t] EXCEPT !.status = Was(tasks'[t].started)]
                ELSE tasks'[t]
           /\ TasksAtOnce = [u \in TaskIds |-> TasksAtOnce[u]]
           /\ TasksAtOnce' = [u \in TaskIds |-> TasksAtOnce'[u]]
<1> DEFINE t == method[p].task
<1>1. t \in TaskIds
  BY MethodTypes DEF AtWork, UpdateSteps
<1>2. /\ method'[p] = next
      /\ \A q \in Processes \ {p} : method'[q] = method[q]
  BY DEF Goto, DbTypeOK
<1>3. \A q \in Processes \ {p} : AtWork(q) => method[q].task # t
  BY DEF Apart
<1>4. \A q \in Processes \ {p} :
         /\ q \in Starting' <=> q \in Starting
         /\ q \in Finishing' <=> q \in Finishing
         /\ q \in Starting \cup Finishing =>
              method'[q].task = method[q].task /\ method[q].task # t
  BY <1>2, <1>3 DEF Starting, Finishing, At, AtWork
<1>5. /\ p \in Starting <=> At(p, "write") /\ method[p].status = "running"
      /\ p \in Finishing <=> At(p, "release")
      /\ p \in Starting' <=> next.step = "write" /\ next.status = "running"
      /\ p \in Finishing' <=> next.step = "release"
  BY <1>2 DEF Starting, Finishing, At
<1>6. /\ Starting \subseteq Processes /\ Finishing \subseteq Processes
      /\ Starting' \subseteq Processes /\ Finishing' \subseteq Processes
  BY DEF Starting, Finishing
<1>7. method'[p].task = t
  BY <1>2
<1>8. ASSUME NEW u \in TaskIds \ {t}
      PROVE  TasksAtOnce'[u] = TasksAtOnce[u]
  <2>1. /\ (\E q \in Starting' : method'[q].task = u)
             <=> (\E q \in Starting : method[q].task = u)
        /\ (\E q \in Finishing' : method'[q].task = u)
             <=> (\E q \in Finishing : method[q].task = u)
    BY <1>4, <1>6, <1>7
  <2> QED
    BY <2>1 DEF TasksAtOnce
<1>9. /\ (\E q \in Starting : method[q].task = t) <=> p \in Starting
      /\ (\E q \in Finishing : method[q].task = t) <=> p \in Finishing
      /\ (\E q \in Starting' : method'[q].task = t) <=> p \in Starting'
      /\ (\E q \in Finishing' : method'[q].task = t) <=> p \in Finishing'
  BY <1>4, <1>6, <1>7
<1>10. /\ TasksAtOnce[t] =
            IF p \in Starting THEN TaskAfter(tasks[t], "running")
            ELSE IF p \in Finishing
            THEN [tasks[t] EXCEPT !.status = Was(tasks[t].started)]
            ELSE tasks[t]
       /\ TasksAtOnce'[t] =
            IF p \in Starting' THEN TaskAfter(tasks'[t], "running")
            ELSE IF p \in Finishing'
            THEN [tasks'[t] EXCEPT !.status = Was(tasks'[t].started)]
            ELSE tasks'[t]
  BY <1>1, <1>9 DEF TasksAtOnce
<1>11. /\ TasksAtOnce = [u \in TaskIds |-> TasksAtOnce[u]]
       /\ TasksAtOnce' = [u \in TaskIds |-> TasksAtOnce'[u]]
  BY DEF TasksAtOnce
<1> QED
  BY <1>1, <1>5, <1>8, <1>10, <1>11

-----------------------------------------------------------------------------
(* Each statement is one State method on the mapped tables, or none. *)

LEMMA RegisterAtOnce ==
    ASSUME NEW p \in Processes, NEW d \in Drones,
           NEW offer \in Offers[d], Register(p, d, offer)
    PROVE  AtOnce!RegisterDrone(d, offer)
<1>1. RegisterDrone(d, offer) /\ method' = method /\ tasks' = tasks
  BY DEF Register, RegisterDrone
<1>2. TasksAtOnce' = TasksAtOnce
  BY <1>1 DEF TasksAtOnce, Starting, Finishing, At, TaskIds
<1> QED
  BY <1>1, <1>2
     DEF RegisterDrone, AtOnce!RegisterDrone, Registered, AtOnce!Registered,
         Row, AtOnce!Row, UsedSlots, AtOnce!UsedSlots

LEMMA InsertAtOnce ==
    ASSUME DbTypeOK, NEW p \in Processes, InsertTask(p)
    PROVE  \E job \in PlacedJobs : AtOnce!CreateTask(job)
<1>0. /\ tasks \in Seq(TaskRow) /\ Len(tasks) \in Nat
      /\ FleetTypeOK
      /\ Len(tasks) + Cardinality(CreatingNow) <= MaxTasks
  BY DEF DbTypeOK, FleetTypeOK
<1>1. PICK d \in Registered, mode \in Modes :
         d = method[p].target /\ mode = method[p].mode
  BY MethodTypes DEF InsertTask
<1>2. d \in Drones
  BY <1>0 DEF FleetTypeOK
<1>3. PICK row : row = [target |-> d, mode |-> mode, status |-> "queued",
                        started |-> FALSE]
  OBVIOUS
<1>4. row \in TaskRow
  BY <1>2, <1>3 DEF TaskRow, Statuses
<1>5. tasks' = Append(tasks, row) /\ drones' = drones
  BY <1>1, <1>3 DEF InsertTask
<1>6. PICK next : /\ Goto(p, next)
                  /\ next.step = "log"
  <2>1. PICK next : next = [step |-> "log", task |-> Len(tasks) + 1,
                      status |-> "queued", started |-> FALSE,
                      target |-> method[p].target]
    OBVIOUS
  <2> QED
    BY <2>1 DEF InsertTask
<1>7. /\ method'[p].step = "log"
      /\ \A q \in Processes \ {p} : method'[q] = method[q]
  BY <1>6 DEF Goto, DbTypeOK
<1>8. /\ Starting' = Starting /\ Finishing' = Finishing
      /\ \A q \in Starting \cup Finishing : method'[q] = method[q]
  BY <1>7 DEF Starting, Finishing, At, InsertTask
<1>10. PICK new : new = Len(tasks) + 1
  OBVIOUS
<1>11. /\ TaskIds' = TaskIds \cup {new}
       /\ new \notin TaskIds
       /\ tasks'[new] = row
       /\ \A t \in TaskIds : tasks'[t] = tasks[t]
  BY <1>0, <1>4, <1>5, <1>10 DEF TaskIds
<1>12. \A q \in Starting \cup Finishing : method[q].task \in TaskIds
  BY MethodTypes DEF Starting, Finishing, At, UpdateSteps
<1>13. TasksAtOnce'[new] = row
  BY <1>8, <1>11, <1>12 DEF TasksAtOnce
<1>14. \A t \in TaskIds : TasksAtOnce'[t] = TasksAtOnce[t]
  BY <1>8, <1>11 DEF TasksAtOnce
<1>15. TasksAtOnce \in Seq(TaskRow) /\ Len(TasksAtOnce) = Len(tasks)
  BY MappedShape
<1>16. TasksAtOnce' = [t \in 1..new |-> TasksAtOnce'[t]]
  BY <1>0, <1>10, <1>11 DEF TasksAtOnce, TaskIds
<1>17. TasksAtOnce' = Append(TasksAtOnce, row)
  <2>1. PICK f, s, a : /\ f = TasksAtOnce' /\ s = TasksAtOnce
                       /\ a = Append(s, row)
    OBVIOUS
  <2>2. s \in Seq(TaskRow) /\ Len(s) = Len(tasks) /\ new = Len(s) + 1
    BY <1>10, <1>15, <2>1
  <2>3. /\ a \in Seq(TaskRow) /\ Len(a) = new
        /\ a[new] = row
        /\ \A t \in 1..Len(s) : a[t] = s[t]
    BY ONLY <1>4, <2>1, <2>2, AppendProperties
  <2>4. a = [t \in 1..new |-> a[t]]
    BY ONLY <2>3, LenProperties
  <2>5. \A t \in 1..new : f[t] = a[t]
    <3>1. \A t \in 1..new : t = new \/ t \in TaskIds
      BY <1>0, <1>10 DEF TaskIds
    <3>2. \A t \in TaskIds : f[t] = s[t] /\ s[t] = a[t]
      BY <1>14, <2>1, <2>2, <2>3 DEF TaskIds
    <3>3. f[new] = a[new]
      BY <1>13, <2>1, <2>3
    <3> QED
      BY <3>1, <3>2, <3>3
  <2>6. f = [t \in 1..new |-> f[t]]
    BY <1>16, <2>1
  <2>7. f = a
    BY ONLY <2>4, <2>5, <2>6
  <2> QED
    BY <2>1, <2>7
<1>18. p \in CreatingNow
  BY DEF CreatingNow, InsertTask, At
<1>19. Cardinality(CreatingNow) # 0 /\ Cardinality(CreatingNow) \in Nat
  BY <1>18, CreatingFinite, FS_EmptySet
<1>20. Len(TasksAtOnce) < MaxTasks
  BY <1>0, <1>15, <1>19
<1>21. PICK job : job = [mode |-> mode, required |-> {}, target |-> d]
  OBVIOUS
<1>22. /\ job \in PlacedJobs /\ job.mode = mode
       /\ job.target = d /\ d # AnyDrone
  BY <1>2, <1>21 DEF PlacedJobs
<1>23. d \in AtOnce!TargetsOf(job)
  BY <1>1, <1>22, MappedShape DEF AtOnce!TargetsOf, AtOnce!AnyDrone, AnyDrone
<1>24. \E e \in AtOnce!TargetsOf(job) :
          TasksAtOnce' = Append(TasksAtOnce,
                           [target |-> e, mode |-> job.mode,
                            status |-> "queued", started |-> FALSE])
  BY <1>3, <1>17, <1>22, <1>23
<1>25. AtOnce!CreateTask(job)
  BY <1>1, <1>5, <1>20, <1>22, <1>24
     DEF AtOnce!CreateTask, AtOnce!Modes, Modes
<1> QED
  BY <1>22, <1>25

(* What a process at work knows of its task while the processes are apart. *)
LEMMA Working ==
    ASSUME SoundInv, Apart, NEW p \in Processes, AtWork(p)
    PROVE  \E t \in TaskIds, status \in Statuses :
              /\ t = method[p].task
              /\ status = method[p].status
              /\ tasks[t] \in TaskRow
              /\ method[p].target = tasks[t].target
              /\ tasks[t].target \in Registered
              /\ method[p].started = tasks[t].started
              /\ status \in Transitions[Was(tasks[t].started)]
              /\ ~At(p, "release") => tasks[t].status = Was(tasks[t].started)
              /\ At(p, "release") => tasks[t].status = status
              /\ At(p, "reserve") => status = "running"
              /\ At(p, "release") => status # "running"
<1>1. method[p].step \in UpdateSteps /\ DbTypeOK /\ FleetTypeOK
  BY DEF SoundInv, DbTypeOK, AtWork, UpdateSteps
<1>2. Sound(p) /\ KnowsRow(p)
  BY DEF SoundInv, Apart
<1> QED
  BY <1>1, <1>2, MethodTypes, RowTypes DEF Sound, KnowsRow

LEMMA ReserveAtOnce ==
    ASSUME SoundInv, Apart, NEW p \in Processes, Reserve(p)
    PROVE  \/ \E t \in TaskIds, status \in Statuses :
                 AtOnce!UpdateTask(t, status)
           \/ UNCHANGED <<drones, TasksAtOnce>>
<1>0. /\ FleetTypeOK /\ DbTypeOK
      /\ method[p].step = "reserve" /\ AtWork(p)
  BY DEF SoundInv, DbTypeOK, Reserve, At, AtWork
<1>1. PICK t \in TaskIds :
         /\ t = method[p].task
         /\ method[p].status = "running"
         /\ tasks[t] \in TaskRow
         /\ method[p].target = tasks[t].target
         /\ tasks[t].target \in Registered
         /\ "running" \in Transitions[tasks[t].status]
  BY <1>0, Working DEF At
<1>2. CASE ~HasSlot(method[p].target)
  <2>1. Goto(p, NoMethod) /\ UNCHANGED <<drones, tasks>>
    BY <1>2 DEF Reserve, Return
  <2>2. ~Holding(NoMethod) /\ ~Holding(method[p])
    BY <1>0 DEF Holding, NoMethod
  <2> QED
    BY <1>0, <2>1, <2>2, Aside
<1>3. CASE HasSlot(method[p].target)
  <2>1. PICK d \in Registered : d = tasks[t].target
    BY <1>1
  <2>2. /\ HasSlot(d)
        /\ drones' = [drones EXCEPT ![d].used = @ + 1]
        /\ tasks' = tasks
        /\ Continue(p)
    BY <1>1, <1>3, <2>1 DEF Reserve
  <2>3. method[p] \in Updating
    BY <1>0, MethodTypes DEF UpdateSteps
  <2>4. PICK next : next = [method[p] EXCEPT !.step = "write"]
    OBVIOUS
  <2>5. Goto(p, next)
    BY <1>0, <2>2, <2>4 DEF Continue, StepAfter
  <2>6. next.step = "write" /\ next.status = "running" /\ next.task = t
    BY <1>1, <2>3, <2>4 DEF Updating
  <2>7. /\ \A u \in TaskIds \ {t} : TasksAtOnce'[u] = TasksAtOnce[u]
        /\ TasksAtOnce[t] = tasks[t]
        /\ TasksAtOnce'[t] = TaskAfter(tasks[t], "running")
        /\ TasksAtOnce = [u \in TaskIds |-> TasksAtOnce[u]]
        /\ TasksAtOnce' = [u \in TaskIds |-> TasksAtOnce'[u]]
    BY <1>0, <1>1, <2>2, <2>5, <2>6, OnlyItsTask DEF At, TaskIds
  <2>8. TasksAtOnce' = [TasksAtOnce EXCEPT ![t] =
                          AtOnce!TaskAfter(@, "running")]
    BY <2>7 DEF TaskAfter, AtOnce!TaskAfter
  <2>9. AtOnce!CanUpdate(t, "running")
    BY <1>1, <2>1, <2>2, <2>7
       DEF AtOnce!CanUpdate, AtOnce!Transitions, Transitions,
           AtOnce!HasSlot, HasSlot
  <2>10. drones' = [drones EXCEPT ![TasksAtOnce[t].target].used =
                      AtOnce!SlotsAfter(@, "running")]
    BY <2>1, <2>2, <2>7 DEF AtOnce!SlotsAfter
  <2>11. AtOnce!UpdateTask(t, "running")
    BY <2>8, <2>9, <2>10 DEF AtOnce!UpdateTask
  <2> QED
    BY <2>11 DEF Statuses
<1> QED
  BY <1>2, <1>3

LEMMA WriteAtOnce ==
    ASSUME SoundInv, Apart, NEW p \in Processes, WriteStatus(p)
    PROVE  UNCHANGED <<drones, TasksAtOnce>>
<1>0. /\ FleetTypeOK /\ DbTypeOK
      /\ method[p].step = "write" /\ AtWork(p)
  BY DEF SoundInv, DbTypeOK, WriteStatus, At, AtWork
<1>1. PICK t \in TaskIds, status \in Statuses :
         /\ t = method[p].task
         /\ status = method[p].status
         /\ tasks[t] \in TaskRow
         /\ method[p].started = tasks[t].started
         /\ tasks[t].status = Was(tasks[t].started)
  BY <1>0, Working DEF At
<1>2. PICK row : row = TaskAfter(tasks[t], status)
  OBVIOUS
<1>3. /\ TaskIds' = TaskIds
      /\ tasks'[t] = row
      /\ \A u \in TaskIds \ {t} : tasks'[u] = tasks[u]
      /\ drones' = drones
  BY <1>0, <1>1, <1>2, RowWritten DEF WriteStatus, TaskAfter
<1>4. method[p] \in Updating /\ Continue(p)
  BY <1>0, MethodTypes DEF UpdateSteps, WriteStatus
<1>5. PICK step : step = IF status = "running" THEN "log" ELSE "release"
  OBVIOUS
<1>6. PICK next : next = [method[p] EXCEPT !.step = step]
  OBVIOUS
<1>7. Goto(p, next)
  BY <1>0, <1>1, <1>4, <1>5, <1>6 DEF Continue, StepAfter
<1>8. next.step = step /\ next.status = status /\ next.task = t
  BY <1>1, <1>4, <1>6 DEF Updating
<1>9. /\ \A u \in TaskIds \ {t} : TasksAtOnce'[u] = TasksAtOnce[u]
      /\ TasksAtOnce[t] =
           IF status = "running" THEN TaskAfter(tasks[t], "running")
           ELSE tasks[t]
      /\ TasksAtOnce'[t] =
           IF status = "running" THEN row
           ELSE [row EXCEPT !.status = Was(row.started)]
      /\ TasksAtOnce = [u \in TaskIds |-> TasksAtOnce[u]]
      /\ TasksAtOnce' = [u \in TaskIds |-> TasksAtOnce'[u]]
  <2>1. /\ \A u \in TaskIds \ {t} : TasksAtOnce'[u] = TasksAtOnce[u]
        /\ TasksAtOnce[t] =
             IF status = "running" THEN TaskAfter(tasks[t], "running")
             ELSE tasks[t]
        /\ TasksAtOnce'[t] =
             IF step = "release"
             THEN [tasks'[t] EXCEPT !.status = Was(tasks'[t].started)]
             ELSE tasks'[t]
        /\ TasksAtOnce = [u \in TaskIds |-> TasksAtOnce[u]]
        /\ TasksAtOnce' = [u \in TaskIds |-> TasksAtOnce'[u]]
    <3>1. step # "write"
      BY <1>5
    <3>2. /\ \A u \in TaskIds \ {t} : TasksAtOnce'[u] = TasksAtOnce[u]
          /\ TasksAtOnce[t] =
               IF At(p, "write") /\ method[p].status = "running"
               THEN TaskAfter(tasks[t], "running")
               ELSE IF At(p, "release")
               THEN [tasks[t] EXCEPT !.status = Was(tasks[t].started)]
               ELSE tasks[t]
          /\ TasksAtOnce'[t] =
               IF next.step = "write" /\ next.status = "running"
               THEN TaskAfter(tasks'[t], "running")
               ELSE IF next.step = "release"
               THEN [tasks'[t] EXCEPT !.status = Was(tasks'[t].started)]
               ELSE tasks'[t]
          /\ TasksAtOnce = [u \in TaskIds |-> TasksAtOnce[u]]
          /\ TasksAtOnce' = [u \in TaskIds |-> TasksAtOnce'[u]]
      BY <1>0, <1>1, <1>3, <1>7, <1>8, OnlyItsTask
    <3>3. At(p, "write") /\ ~At(p, "release")
      BY <1>0 DEF At
    <3> QED
      BY <1>1, <1>8, <3>1, <3>2, <3>3
  <2>2. step = "release" <=> status # "running"
    BY <1>5
  <2> QED
    BY <1>3, <2>1, <2>2
<1>10. TasksAtOnce'[t] = TasksAtOnce[t]
  <2>1. CASE status = "running"
    BY <1>2, <1>9, <2>1
  <2>2. CASE status # "running"
    <3>1. row = [tasks[t] EXCEPT !.status = status]
      BY <1>1, <1>2, <2>2 DEF TaskAfter, TaskRow
    <3>2. [row EXCEPT !.status = Was(row.started)] = tasks[t]
      BY <1>1, <3>1 DEF TaskRow
    <3> QED
      BY <1>9, <2>2, <3>2
  <2> QED
    BY <2>1, <2>2
<1> QED
  BY <1>3, <1>9, <1>10

LEMMA ReleaseAtOnce ==
    ASSUME SoundInv, Apart, NEW p \in Processes, Release(p)
    PROVE  \E t \in TaskIds, status \in Statuses :
              AtOnce!UpdateTask(t, status)
<1>0. /\ FleetTypeOK /\ DbTypeOK /\ tasks' = tasks
      /\ method[p].step = "release" /\ AtWork(p)
  BY DEF SoundInv, DbTypeOK, Release, At, AtWork
<1>1. PICK t \in TaskIds, status \in Statuses :
         /\ t = method[p].task
         /\ tasks[t] \in TaskRow
         /\ method[p].target = tasks[t].target
         /\ tasks[t].target \in Registered
         /\ status \in Transitions[Was(tasks[t].started)]
         /\ tasks[t].status = status
         /\ status # "running"
  BY <1>0, Working DEF At
<1>2. method[p] \in Updating /\ Continue(p)
  BY <1>0, MethodTypes DEF UpdateSteps, Release
<1>3. PICK next : next = [method[p] EXCEPT !.step = "log"]
  OBVIOUS
<1>4. Goto(p, next)
  BY <1>0, <1>2, <1>3 DEF Continue, StepAfter
<1>5. next.step = "log" /\ next.task = t
  BY <1>1, <1>2, <1>3 DEF Updating
<1>6. /\ \A u \in TaskIds \ {t} : TasksAtOnce'[u] = TasksAtOnce[u]
      /\ TasksAtOnce[t] = [tasks[t] EXCEPT !.status = Was(tasks[t].started)]
      /\ TasksAtOnce'[t] = tasks[t]
      /\ TasksAtOnce = [u \in TaskIds |-> TasksAtOnce[u]]
      /\ TasksAtOnce' = [u \in TaskIds |-> TasksAtOnce'[u]]
  BY <1>0, <1>1, <1>4, <1>5, OnlyItsTask DEF At, TaskIds
<1>7. PICK was \in TaskRow : was = TasksAtOnce[t]
  BY <1>1, <1>6 DEF TaskRow, Was, Statuses
<1>8. /\ was.status = Was(tasks[t].started)
      /\ was.target = tasks[t].target
      /\ was.started = tasks[t].started
      /\ tasks[t] = [was EXCEPT !.status = status, !.started = was.started]
  <2>1. PICK row, open :
           row \in TaskRow /\ row = tasks[t] /\ open = Was(tasks[t].started)
    BY <1>1
  <2>2. was = [row EXCEPT !.status = open] /\ row.status = status
    BY <1>1, <1>6, <1>7, <2>1
  <2>3. row \in TaskRow
    BY <2>1
  <2>4. /\ was.status = open
        /\ was.target = row.target
        /\ was.started = row.started
        /\ row = [was EXCEPT !.status = status, !.started = was.started]
    BY <2>2, <2>3 DEF TaskRow
  <2> QED
    BY <2>1, <2>4
<1>9. AtOnce!TaskAfter(was, status) = tasks[t]
  <2>1. was.started \in BOOLEAN
    BY <1>7 DEF TaskRow
  <2>2. PICK started \in BOOLEAN :
           started = (was.started \/ status = "running")
    OBVIOUS
  <2>3. started = was.started
    BY <1>1, <2>1, <2>2
  <2> QED
    BY <1>8, <2>2, <2>3 DEF AtOnce!TaskAfter
<1>10. TasksAtOnce' = [TasksAtOnce EXCEPT ![t] =
                         AtOnce!TaskAfter(@, status)]
  BY <1>6, <1>7, <1>9
<1>11. AtOnce!CanUpdate(t, status)
  BY <1>1, <1>7, <1>8
     DEF AtOnce!CanUpdate, AtOnce!Transitions, Transitions
<1>12. drones' = [drones EXCEPT ![TasksAtOnce[t].target].used =
                    AtOnce!SlotsAfter(@, status)]
  BY <1>1, <1>7, <1>8 DEF Release, Decremented, AtOnce!SlotsAfter
<1>13. AtOnce!UpdateTask(t, status)
  BY <1>10, <1>11, <1>12 DEF AtOnce!UpdateTask
<1> QED
  BY <1>13

LEMMA LogAtOnce ==
    ASSUME DbTypeOK, NEW p \in Processes, LogEvent(p)
    PROVE  UNCHANGED <<drones, TasksAtOnce>>
<1>1. method[p].step = "log" /\ UNCHANGED <<drones, tasks>> /\ Continue(p)
  BY DEF LogEvent, At
<1>2. Goto(p, NoMethod)
  BY <1>1 DEF Continue, StepAfter, Return
<1>3. ~Holding(method[p]) /\ ~Holding(NoMethod)
  BY <1>1 DEF Holding, NoMethod
<1> QED
  BY <1>1, <1>2, <1>3, Aside

LEMMA BeginUpdateAtOnce ==
    ASSUME DbTypeOK, NEW p \in Processes, NEW t \in TaskIds,
           NEW status \in Statuses, BeginUpdate(p, t, status)
    PROVE  UNCHANGED <<drones, TasksAtOnce>>
<1>1. PICK step : step = StepAfter("read", status)
  OBVIOUS
<1>2. PICK new : new = UpdateOf(t, status, step)
  OBVIOUS
<1>3. Goto(p, new) /\ UNCHANGED <<drones, tasks>>
  BY <1>1, <1>2 DEF BeginUpdate
<1>4. ~Holding(new)
  BY <1>1, <1>2 DEF Holding, UpdateOf, StepAfter
<1>5. ~Holding(method[p])
  BY DEF BeginUpdate, At, Holding
<1> QED
  BY <1>3, <1>4, <1>5, Aside

LEMMA CreateAtOnce ==
    ASSUME DbTypeOK, NEW p \in Processes,
           Widen(p) \/ \E job \in Jobs : BeginCreate(p, job)
    PROVE  UNCHANGED <<drones, TasksAtOnce>>
<1>1. ~Holding(method[p]) /\ UNCHANGED <<drones, tasks>>
  BY DEF Widen, BeginCreate, At, Holding
<1>2. PICK next : /\ Goto(p, next)
                  /\ next.step \in {"insert", "widen", "none"}
  BY CreateMoves DEF Widen, BeginCreate
<1>3. ~Holding(next)
  BY <1>2 DEF Holding
<1> QED
  BY <1>1, <1>2, <1>3, Aside

LEMMA AtOnceStep ==
    ASSUME SoundInv, Apart, [DbNext]_dbVars, faults' = faults
    PROVE  [AtOnce!FleetNext]_(AtOnce!fleetVars)
<1> SUFFICES AtOnce!FleetNext \/ UNCHANGED <<drones, TasksAtOnce>>
  BY DEF AtOnce!fleetVars
<1>0. DbTypeOK
  BY DEF SoundInv
<1> DEFINE Goal == AtOnce!FleetNext \/ UNCHANGED <<drones, TasksAtOnce>>
<1>1. ASSUME NEW p \in Processes, NEW d \in Drones, NEW offer \in Offers[d],
             Register(p, d, offer)
      PROVE  Goal
  BY <1>1, RegisterAtOnce DEF AtOnce!FleetNext
<1>2. ASSUME NEW p \in Processes, InsertTask(p) PROVE Goal
  BY <1>0, <1>2, InsertAtOnce DEF AtOnce!FleetNext
<1>3. ASSUME NEW t \in TaskIds, NEW status \in Statuses,
             AtOnce!UpdateTask(t, status)
      PROVE  Goal
  <2>1. AtOnce!TaskIds = TaskIds /\ AtOnce!Statuses = Statuses
    BY <1>0, MappedShape DEF AtOnce!Statuses, Statuses
  <2> QED
    BY <1>3, <2>1 DEF AtOnce!FleetNext
<1>4. ASSUME NEW p \in Processes, Reserve(p) \/ WriteStatus(p) \/ Release(p)
      PROVE  Goal
  BY <1>3, <1>4, ReserveAtOnce, WriteAtOnce, ReleaseAtOnce
<1>5. ASSUME NEW p \in Processes,
             \/ Widen(p) \/ \E job \in Jobs : BeginCreate(p, job)
             \/ \E t \in TaskIds, status \in Statuses :
                   BeginUpdate(p, t, status)
             \/ LogEvent(p)
      PROVE  Goal
  BY <1>0, <1>5, CreateAtOnce, BeginUpdateAtOnce, LogAtOnce
<1>6. ASSUME NEW p \in Processes PROVE ~GiveUp(p)
  BY <1>0 DEF GiveUp, DbTypeOK
<1>7. CASE UNCHANGED dbVars
  BY <1>7 DEF dbVars, TasksAtOnce, TaskIds, Starting, Finishing, At
<1>8. CASE DbNext
  <2> HIDE DEF Goal
  <2>1. PICK p \in Processes :
           \/ \E d \in Drones : \E offer \in Offers[d] : Register(p, d, offer)
           \/ \E job \in Jobs : BeginCreate(p, job)
           \/ Widen(p) \/ InsertTask(p)
           \/ \E t \in TaskIds, status \in Statuses :
                 BeginUpdate(p, t, status)
           \/ Reserve(p) \/ WriteStatus(p) \/ Release(p) \/ LogEvent(p)
           \/ GiveUp(p)
    BY <1>8 DEF DbNext
  <2>2. Goal
    BY <1>1, <1>2, <1>4, <1>5, <1>6, <2>1
  <2> QED
    BY <2>2 DEF Goal
<1> QED
  BY <1>7, <1>8

(* For any number of processes, all of which may update tasks: from a state
   in which no two of them are at work on the same task, every statement of
   a method is one whole State method or invisible, whatever the
   interleaving, unless a method is given up. *)
THEOREM ApartIsAtomic == DbSpec => MethodsAreAtomic
<1>1. SoundInv /\ [DbNext]_dbVars =>
        [Apart /\ faults' = faults
           => [AtOnce!FleetNext]_(AtOnce!fleetVars)]_dbVars
  BY AtOnceStep
<1> QED
  BY <1>1, SoundAlways, PTL DEF DbSpec, MethodsAreAtomic

(* Processes can only meet when two of them update tasks: with a single
   updating process, whatever the others register and create and however
   often methods are given up, they are always apart. *)
THEOREM OneUpdaterStaysApart == OneUpdater => (DbSpec => []Apart)
<1> SUFFICES ASSUME OneUpdater PROVE DbSpec => []Apart
  OBVIOUS
<1>1. DbInit => ReadHolds /\ RowWasWritten
  <2>1. ASSUME DbInit PROVE \A p \in Processes : method[p].step = "none"
    BY <2>1 DEF DbInit, NoMethod
  <2> QED
    BY <2>1 DEF ReadHolds, RowWasWritten, At
<1>2. SoundInv /\ ReadHolds /\ [DbNext]_dbVars => ReadHolds'
  BY ReadHoldsStep DEF SoundInv
<1>3. SoundInv /\ ReadHolds /\ RowWasWritten /\ [DbNext]_dbVars
        => RowWasWritten'
  BY RowWasWrittenStep
<1>4. SoundInv /\ ReadHolds /\ RowWasWritten => Apart
  BY ApartNow
<1> QED
  BY <1>1, <1>2, <1>3, <1>4, SoundAlways, PTL DEF DbSpec
=============================================================================
