--------------------------- MODULE SharedDatabase ---------------------------
(***************************************************************************)
(* State as several processes see it that have the same database file      *)
(* open: a gateway for each MCP client, the dashboard.  State.lock keeps   *)
(* the methods of one process apart; between processes every SQL statement *)
(* commits by itself (isolation_level=None), so here one action is one     *)
(* statement.  FleetState is the view from inside one process, where a     *)
(* whole method is one step.                                               *)
(*                                                                         *)
(* A statement may also raise (the database stays locked by another writer *)
(* beyond SQLite's timeout) or the process may die: the rest of the method *)
(* is not executed and nothing is rolled back.                             *)
(*                                                                         *)
(* Also here: the events table, of which FleetState knows nothing.         *)
(***************************************************************************)
EXTENDS FleetState

CONSTANTS
    Processes,    \* programs that have the database open
    Updaters,     \* those that dispatch, reconcile or cancel tasks
    MaxFaults     \* bound: how often a method is given up half-way

ASSUME ProcessesAssumption == IsFiniteSet(Processes)
ASSUME UpdatersAssumption == Updaters \subseteq Processes
ASSUME MaxFaultsAssumption == MaxFaults \in Nat

VARIABLES
    method,       \* method[p]: the State method p is in the middle of
    log,          \* log[t]: the statuses of the events about task t, in order
    faults

dbVars == <<drones, tasks, method, log, faults>>

-----------------------------------------------------------------------------
(* Methods in progress *)

NoMethod == [step |-> "none"]

(* create_task: about to choose among all drones, no available one having
   matched, or about to insert the task for the chosen target. *)
Creating == [step: {"widen"}, mode: Modes, required: SUBSET Capabilities]
              \cup [step: {"insert"}, mode: Modes, target: Drones]

(* update_task with the row it has read; create_task about to log. *)
UpdateSteps == {"reserve", "write", "release", "log"}

Updating == [step: UpdateSteps, task: TaskIds, status: Statuses,
             started: BOOLEAN, target: Drones]

Methods == {NoMethod} \cup Creating \cup Updating

At(p, step) == method[p].step = step

Goto(p, next) == method' = [method EXCEPT ![p] = next]

Return(p) == Goto(p, NoMethod)

(* What a process holds while it updates task t, at the given step. *)
UpdateOf(t, status, step) ==
    [step |-> step, task |-> t, status |-> status,
     started |-> tasks[t].started, target |-> tasks[t].target]

-----------------------------------------------------------------------------
(* update_task: the order of its statements *)

(* Faulty variant: a failed task keeps its slot. *)
FailedKeepsSlot(step, status) ==
    CASE step = "read"    -> IF status = "running" THEN "reserve" ELSE "write"
      [] step = "reserve" -> "write"
      [] step = "write"   -> IF status \in {"running", "failed"} THEN "log"
                             ELSE "release"
      [] step = "release" -> "log"
      [] step = "log"     -> "end"

(* Faulty variant: the event is inserted before the row is written. *)
LogFirst(step, status) ==
    CASE step = "read"    -> IF status = "running" THEN "reserve" ELSE "log"
      [] step = "reserve" -> "log"
      [] step = "log"     -> IF status = "queued" THEN "end" ELSE "write"
      [] step = "write"   -> IF status = "running" THEN "end" ELSE "release"
      [] step = "release" -> "end"

StepAfter(step, status) ==
    CASE step = "read"    -> IF status = "running" THEN "reserve" ELSE "write"
      [] step = "reserve" -> "write"
      [] step = "write"   -> IF status = "running" THEN "log" ELSE "release"
      [] step = "release" -> "log"
      [] step = "log"     -> "end"

Continue(p) ==
    LET next == StepAfter(method[p].step, method[p].status)
    IN  IF next = "end" THEN Return(p)
        ELSE Goto(p, [method[p] EXCEPT !.step = next])

(* SELECT, and the transition check on the row it returned. *)
BeginUpdate(p, t, status) ==
    /\ p \in Updaters
    /\ At(p, "none")
    /\ status \in Transitions[tasks[t].status]
    /\ Goto(p, UpdateOf(t, status, StepAfter("read", status)))
    /\ UNCHANGED <<drones, tasks, log, faults>>

(* Faulty variant: the increment does not look at the counter. *)
ReserveAnyway(p) ==
    /\ At(p, "reserve")
    /\ drones' = [drones EXCEPT ![method[p].target].used = @ + 1]
    /\ Continue(p)
    /\ UNCHANGED <<tasks, log, faults>>

(* The conditional increment; when it changes no row, the method raises
   "drone has no available slot". *)
Reserve(p) ==
    /\ At(p, "reserve")
    /\ \/ /\ HasSlot(method[p].target)
          /\ drones' = [drones EXCEPT ![method[p].target].used = @ + 1]
          /\ Continue(p)
       \/ /\ ~HasSlot(method[p].target)
          /\ Return(p)
          /\ UNCHANGED drones
    /\ UNCHANGED <<tasks, log, faults>>

(* started_at is written back from the row that was read. *)
WriteStatus(p) ==
    /\ At(p, "write")
    /\ tasks' = [tasks EXCEPT
         ![method[p].task].status = method[p].status,
         ![method[p].task].started =
            method[p].started \/ method[p].status = "running"]
    /\ Continue(p)
    /\ UNCHANGED <<drones, log, faults>>

(* Faulty variant: the counter is not clamped at zero. *)
Unclamped(used) == used - 1

Decremented(used) == IF used = 0 THEN 0 ELSE used - 1

Release(p) ==
    /\ At(p, "release")
    /\ drones' = [drones EXCEPT ![method[p].target].used = Decremented(@)]
    /\ Continue(p)
    /\ UNCHANGED <<tasks, log, faults>>

(* The event of either method: task.created stands as "queued". *)
LogEvent(p) ==
    /\ At(p, "log")
    /\ log' = [log EXCEPT ![method[p].task] = Append(@, method[p].status)]
    /\ Continue(p)
    /\ UNCHANGED <<drones, tasks, faults>>

-----------------------------------------------------------------------------
(* create_task *)

Available(required) == {d \in Capable(required) : HasSlot(d)}

Best(candidates) == {d \in candidates : \A e \in candidates : Before(d, e)}

Insertion(mode, d) == [step |-> "insert", mode |-> mode, target |-> d]

CreatingNow == {p \in Processes : method[p].step \in {"widen", "insert"}}

(* The given drone if it is registered, else the best one with a slot; when
   there is none, the second query comes later. *)
BeginCreate(p, job) ==
    /\ At(p, "none")
    /\ Len(tasks) + Cardinality(CreatingNow) < MaxTasks
    /\ job.mode \in Modes
    /\ \/ /\ job.target \in Registered
          /\ Goto(p, Insertion(job.mode, job.target))
       \/ /\ job.target = AnyDrone
          /\ \E d \in Best(Available(job.required)) :
                Goto(p, Insertion(job.mode, d))
       \/ /\ job.target = AnyDrone
          /\ Available(job.required) = {}
          /\ Goto(p, [step |-> "widen", mode |-> job.mode,
                      required |-> job.required])
    /\ UNCHANGED <<drones, tasks, log, faults>>

(* Among all drones, full or not; without a match create_task raises. *)
Widen(p) ==
    /\ At(p, "widen")
    /\ \/ \E d \in Best(Capable(method[p].required)) :
             Goto(p, Insertion(method[p].mode, d))
       \/ Capable(method[p].required) = {} /\ Return(p)
    /\ UNCHANGED <<drones, tasks, log, faults>>

InsertTask(p) ==
    /\ At(p, "insert")
    /\ tasks' = Append(tasks, [target |-> method[p].target,
                               mode |-> method[p].mode,
                               status |-> "queued", started |-> FALSE])
    /\ Goto(p, [step |-> "log", task |-> Len(tasks) + 1, status |-> "queued",
                started |-> FALSE, target |-> method[p].target])
    /\ UNCHANGED <<drones, log, faults>>

-----------------------------------------------------------------------------
(* register_drone is a single upsert. *)
Register(p, d, offer) ==
    /\ At(p, "none")
    /\ RegisterDrone(d, offer)
    /\ UNCHANGED <<method, log, faults>>

(* A statement raises, or the process dies and is started again: what was
   committed stays, the rest is never done. *)
GiveUp(p) ==
    /\ ~At(p, "none")
    /\ faults < MaxFaults
    /\ faults' = faults + 1
    /\ Return(p)
    /\ UNCHANGED <<drones, tasks, log>>

-----------------------------------------------------------------------------
DbInit == /\ FleetInit
          /\ method = [p \in Processes |-> NoMethod]
          /\ log = [t \in 1..MaxTasks |-> << >>]
          /\ faults = 0

DbNext ==
    \E p \in Processes :
        \/ \E d \in Drones : \E offer \in Offers[d] : Register(p, d, offer)
        \/ \E job \in Jobs : BeginCreate(p, job)
        \/ Widen(p) \/ InsertTask(p)
        \/ \E t \in TaskIds, status \in Statuses : BeginUpdate(p, t, status)
        \/ Reserve(p) \/ WriteStatus(p) \/ Release(p) \/ LogEvent(p)
        \/ GiveUp(p)

DbSpec == DbInit /\ [][DbNext]_dbVars

-----------------------------------------------------------------------------
TargetOK(p) ==
    /\ At(p, "insert") => method[p].target \in Registered
    /\ method[p].step \in UpdateSteps
         => method[p].target = tasks[method[p].task].target

(* The tables keep their types, a method in progress refers to rows that
   exist, and no more tasks are about to be inserted than the bound allows. *)
DbTypeOK ==
    /\ FleetTypeOK
    /\ method \in [Processes -> Methods]
    /\ \A p \in Processes : TargetOK(p)
    /\ Len(tasks) + Cardinality(CreatingNow) <= MaxTasks
    /\ log \in [1..MaxTasks -> Seq(Statuses)]
    /\ faults \in 0..MaxFaults

(* Processes that have reserved a slot and not yet written the row. *)
Starting == {p \in Processes : At(p, "write") /\ method[p].status = "running"}

(* Processes that have written an outcome and not yet released the slot. *)
Finishing == {p \in Processes : At(p, "release")}

(* The status of a task that is not over. *)
Was(started) == IF started THEN "running" ELSE "queued"

(* The tasks as they would be if a method took effect in one step: a start
   when its slot is counted, an outcome when its slot is released. *)
TasksAtOnce ==
    [t \in TaskIds |->
        IF \E p \in Starting : method[p].task = t
        THEN TaskAfter(tasks[t], "running")
        ELSE IF \E p \in Finishing : method[p].task = t
        THEN [tasks[t] EXCEPT !.status = Was(tasks[t].started)]
        ELSE tasks[t]]

(* By the time a task is inserted its placement may be a choice that the
   tables no longer justify: as if the caller had named the drone. *)
PlacedJobs == [mode: Modes, required: {{}}, target: Drones]

AtOnce == INSTANCE FleetState WITH tasks <- TasksAtOnce, Jobs <- PlacedJobs

(* Inside update_task, its slot and its row not both dealt with. *)
AtWork(p) == method[p].step \in {"reserve", "write", "release"}

(* The row is still as p has read it, or written it. *)
KnowsRow(p) ==
    /\ tasks[method[p].task].started = method[p].started
    /\ tasks[method[p].task].status =
         IF At(p, "release") THEN method[p].status ELSE Was(method[p].started)

(* No two processes are at work on the same task, nor has another one been
   since the row was read. *)
Apart ==
    \A p \in Processes : AtWork(p) =>
        /\ KnowsRow(p)
        /\ \A q \in Processes :
              AtWork(q) /\ method[q].task = method[p].task => q = p

(* Processes that do not meet on one task do not disturb each other, though
   they start and end tasks of the same drone, register it again and create
   tasks between any two statements: every statement then is one whole State
   method or none, unless a method is given up. *)
MethodsAreAtomic ==
    [][Apart /\ faults' = faults
         => [AtOnce!FleetNext]_(AtOnce!fleetVars)]_dbVars

(* update_task raises "invalid task transition" (state.py:150-151): whoever
   changes the status of a task, it changes along the table. *)
StatusesFollowTransitions ==
    [][\A t \in TaskIds :
          tasks'[t].status = tasks[t].status
            \/ tasks'[t].status \in Transitions[tasks[t].status]]_dbVars

(* What a method given up half-way may cost: each time at most one slot that
   nobody holds any more, and never a slot that is missing beyond those of
   tasks cancelled before they started. *)
SlotDriftBounded ==
    \A d \in Registered :
        /\ drones[d].used <= Cardinality(Running(d)) + faults
             + Cardinality({p \in Starting \cup Finishing :
                              method[p].target = d})
        /\ Cardinality(Running(d)) <=
             drones[d].used + Cardinality(CancelledUnstarted(d))

Rank(status) == CASE status = "queued"  -> 0
                  [] status = "running" -> 1
                  [] OTHER              -> 2

Logged(t) == {log[t][i] : i \in DOMAIN log[t]}

(* The audit events of a task tell its life in order and never ahead of its
   row; when nobody is at work on it and no method was given up, they tell
   all of it.  Only task.created may come late, after events of a process
   that has picked the new task up already. *)
LogFollowsTable ==
    \A t \in TaskIds :
        /\ \A i, j \in DOMAIN log[t] :
              (i < j /\ log[t][j] # "queued" /\ log[t][i] # "queued")
                  => Rank(log[t][i]) < Rank(log[t][j])
        /\ \A status \in Logged(t) : \/ status = tasks[t].status
                                     \/ Rank(status) < Rank(tasks[t].status)
        /\ (faults = 0 /\ \A p \in Processes :
               method[p].step \in UpdateSteps => method[p].task # t)
              => {"queued", tasks[t].status} \subseteq Logged(t)
=============================================================================
