---------------------------- MODULE Coordinator ----------------------------
(***************************************************************************)
(* One coordinator process driving a fleet of drones: the methods of       *)
(* coordinator.py, run by the threads of the dashboard or by the single    *)
(* thread of the MCP gateway, over the database of FleetState, the SSH     *)
(* connections of SSHDrones and the agents and units of DroneAgent.        *)
(*                                                                         *)
(* Each call to State is one atomic step (State.lock).  Between two of     *)
(* them, and within every request, other threads and the drones move.      *)
(***************************************************************************)
EXTENDS FleetState

CONSTANTS
    Threads,       \* threads that call the coordinator
    Processes,     \* bound: SSH processes there may be at a time
    None,          \* no SSH process
    Limits,        \* values of dispatch_pending's limit
    ExitCodes,     \* how the commands of tasks may end: 0, 1 or both
    FaultKinds,    \* which faults the environment may inject
    MaxFaults      \* bound: number of faults

ASSUME LimitsAssumption == Limits \subseteq Nat \ {0}
ASSUME ExitCodesAssumption == ExitCodes \subseteq {0, 1}
ASSUME FaultsAssumption ==
    /\ FaultKinds \subseteq {"disconnect", "reboot", "poweroff", "restart",
                             "stop"}
    /\ MaxFaults \in Nat
ASSUME ProcessesAssumption == None \notin Processes

VARIABLES
    transports,    \* drone id -> address of the SSHDrone this process holds
    call,          \* call[th]: the coordinator method thread th is in
    process, ssh, place,    \* the SSH connections, see SSHDrones
    unit,          \* the units on the drones
    off,           \* drones that are powered off for good
    faults         \* number of faults so far

INSTANCE SSHDrones
INSTANCE DroneAgent

connVars == <<process, ssh, place>>

vars == <<drones, tasks, transports, call, connVars, unit, off, faults>>

-----------------------------------------------------------------------------
(* Calls in progress *)

Ops == {"idle", "dispatch", "reconcile", "cancel"}

(* next: at the head of the loop over todo.  request: about to make the
   request of the current task, or inside it.  fail: the launch raised.
   update: cancel_task is about to record the cancellation. *)
Steps == {"next", "request", "fail", "update"}

Calls == [op: Ops, step: Steps, todo: SUBSET (1..MaxTasks), quota: Nat]

NewCall(op, step, todo, quota) ==
    [op |-> op, step |-> step, todo |-> todo, quota |-> quota]

NoCall == NewCall("idle", "next", {}, 0)

Idle(th) == call[th] = NoCall

At(th, op, step) == call[th].op = op /\ call[th].step = step

(* tasks() returns the rows ORDER BY created_at. *)
Oldest(todo) == CHOOSE t \in todo : \A u \in todo : t <= u

Current(th) == Oldest(call[th].todo)

CurrentDrone(th) == tasks[Current(th)].target

Connected(t) == tasks[t].target \in DOMAIN transports

WithStatus(status) == {t \in TaskIds : tasks[t].status = status}

Begin(th, new) == Idle(th) /\ call' = [call EXCEPT ![th] = new]

Goto(th, step) == call' = [call EXCEPT ![th].step = step]

NextTask(th, spent) ==
    call' = [call EXCEPT ![th].todo = @ \ {Current(th)},
                         ![th].step = "next",
                         ![th].quota = @ - spent]

Return(th) == call' = [call EXCEPT ![th] = NoCall]

(* Faulty variant: the outcome is written whatever the status is. *)
ForceUpdate(t, status) ==
    /\ drones' = [drones EXCEPT ![tasks[t].target].used =
                    SlotsAfter(@, status)]
    /\ tasks' = [tasks EXCEPT ![t] = TaskAfter(@, status)]

(* update_task, where the caller catches or ignores what it raises. *)
TryUpdate(t, status) == IF CanUpdate(t, status) THEN UpdateTask(t, status)
                        ELSE UNCHANGED fleetVars

-----------------------------------------------------------------------------
(* Registration and submission: one State call by an idle thread *)

RegisterByGateway(th, d, offer) ==
    /\ Idle(th)
    /\ RegisterDrone(d, offer)
    /\ transports' =
         IF offer.address # NoAddress /\ d \notin DOMAIN transports
         THEN [e \in DOMAIN transports \cup {d} |->
                 IF e = d THEN offer.address ELSE transports[e]]
         ELSE transports
    /\ UNCHANGED <<call, connVars, unit, off, faults>>

(* The register route of the dashboard writes the row only, at any time. *)
RegisterByDashboard(d, offer) ==
    /\ RegisterDrone(d, offer)
    /\ UNCHANGED <<transports, call, connVars, unit, off, faults>>

(* run_jobs, one job of the batch; its dispatch is BeginDispatch. *)
SubmitJob(th, job) ==
    /\ Idle(th)
    /\ CreateTask(job)
    /\ UNCHANGED <<transports, call, connVars, unit, off, faults>>

-----------------------------------------------------------------------------
(* The loops of dispatch_pending and reconcile_running over a snapshot *)

BeginDispatch(th, limit) ==
    /\ Begin(th, NewCall("dispatch", "next", WithStatus("queued"), limit))
    /\ UNCHANGED <<fleetVars, transports, connVars, unit, off, faults>>

BeginReconcile(th) ==
    /\ Begin(th, NewCall("reconcile", "next", WithStatus("running"), 0))
    /\ UNCHANGED <<fleetVars, transports, connVars, unit, off, faults>>

AtNext(th, op) == At(th, op, "next") /\ call[th].todo # {}

CanDispatch(th) == /\ call[th].quota > 0
                   /\ Connected(Current(th))
                   /\ CanUpdate(Current(th), "running")

CanPoll(th) == /\ Connected(Current(th))
               /\ tasks[Current(th)].status = "running"

(* Faulty variant: the launch is sent first, the slot reserved later. *)
ReserveLater(th) ==
    /\ AtNext(th, "dispatch")
    /\ CanDispatch(th)
    /\ Goto(th, "request")
    /\ UNCHANGED <<fleetVars, transports, connVars, unit, off, faults>>

(* "Reserve the slot before sending the remote launch." *)
Reserve(th) ==
    /\ AtNext(th, "dispatch")
    /\ CanDispatch(th)
    /\ UpdateTask(Current(th), "running")
    /\ Goto(th, "request")
    /\ UNCHANGED <<transports, connVars, unit, off, faults>>

Poll(th) ==
    /\ AtNext(th, "reconcile")
    /\ CanPoll(th)
    /\ Goto(th, "request")
    /\ UNCHANGED <<fleetVars, transports, connVars, unit, off, faults>>

SkipTask(th) ==
    /\ \/ AtNext(th, "dispatch") /\ ~CanDispatch(th)
       \/ AtNext(th, "reconcile") /\ ~CanPoll(th)
    /\ NextTask(th, 0)
    /\ UNCHANGED <<fleetVars, transports, connVars, unit, off, faults>>

(* Faulty variant: the heartbeat does not dispatch. *)
EndLoopOnly(th) ==
    /\ call[th].todo = {}
    /\ call[th].op \in {"dispatch", "reconcile"}
    /\ call[th].step = "next"
    /\ Return(th)
    /\ UNCHANGED <<fleetVars, transports, connVars, unit, off, faults>>

(* The heartbeat goes on with dispatch_pending(), whose default limit of
   100 is above MaxTasks. *)
EndLoop(th) ==
    /\ call[th].todo = {}
    /\ \/ At(th, "dispatch", "next") /\ Return(th)
       \/ /\ At(th, "reconcile", "next")
          /\ call' = [call EXCEPT ![th] =
               NewCall("dispatch", "next", WithStatus("queued"), MaxTasks)]
    /\ UNCHANGED <<fleetVars, transports, connVars, unit, off, faults>>

-----------------------------------------------------------------------------
(* cancel_task, and the dashboard's cancellation, which branches on the
   same read of the status *)

BeginCancel(th, t) ==
    /\ \/ /\ tasks[t].status = "queued"
          /\ Begin(th, NewCall("cancel", "update", {t}, 0))
       \/ /\ tasks[t].status = "running"
          /\ Connected(t)
          /\ Begin(th, NewCall("cancel", "request", {t}, 0))
    /\ UNCHANGED <<fleetVars, transports, connVars, unit, off, faults>>

RecordCancelled(th) ==
    /\ At(th, "cancel", "update")
    /\ TryUpdate(Current(th), "cancelled")
    /\ Return(th)
    /\ UNCHANGED <<transports, connVars, unit, off, faults>>

-----------------------------------------------------------------------------
(* Requests: launch, status and cancel *)

Requests == [op: Ops, task: 1..MaxTasks]

(* Where the drone is now; the transport keeps the address it was created
   with. *)
Reachable(d) == /\ d \notin off
                /\ d \in DOMAIN transports
                /\ transports[d] = drones[d].address

Line(th) == [op |-> call[th].op, task |-> Current(th)]

SendRequest(th) ==
    /\ call[th].step = "request"
    /\ BeginRequest(th, CurrentDrone(th))
    /\ UNCHANGED <<fleetVars, transports, call, unit, off, faults>>

(* Inside request(), which SSHDrones takes in steps. *)
Requesting(th) ==
    /\ call[th].step = "request"
    /\ Proceed(th, CurrentDrone(th), Line(th), Reachable(CurrentDrone(th)))
    /\ UNCHANGED <<fleetVars, transports, call, unit, off, faults>>

GetReply(th, op) == At(th, op, "request") /\ ReadLine(th)

Reply(th) == Head(ssh[place[th].of].outbox)

Launched(th) ==
    /\ GetReply(th, "dispatch")
    /\ IF Reply(th).ok THEN NextTask(th, 1) ELSE Goto(th, "fail")
    /\ UNCHANGED <<fleetVars, transports, unit, off, faults>>

Outcome(reply) == IF reply.exit_code = 0 THEN "completed" ELSE "failed"

StillRunning(th) ==
    /\ GetReply(th, "reconcile")
    /\ ~(Reply(th).ok /\ Reply(th).active = "inactive")
    /\ NextTask(th, 0)
    /\ UNCHANGED <<fleetVars, transports, unit, off, faults>>

(* An inactive unit ends the task.  When another thread has recorded an
   outcome meanwhile, update_task raises and ends reconcile_running. *)
RecordOutcome(th) ==
    /\ GetReply(th, "reconcile")
    /\ Reply(th).ok /\ Reply(th).active = "inactive"
    /\ TryUpdate(Current(th), Outcome(Reply(th)))
    /\ IF CanUpdate(Current(th), Outcome(Reply(th)))
       THEN NextTask(th, 0) ELSE Return(th)
    /\ UNCHANGED <<transports, unit, off, faults>>

Stopped(th) ==
    /\ GetReply(th, "cancel")
    /\ IF Reply(th).ok THEN Goto(th, "update") ELSE Return(th)
    /\ UNCHANGED <<fleetVars, transports, unit, off, faults>>

(* The request raised.  Only dispatch_task handles the exception; it ends a
   reconcile_running or a cancel_task. *)
RequestRaised(th) ==
    /\ call[th].step = "request"
    /\ Raise(th, CurrentDrone(th))
    /\ IF call[th].op = "dispatch" THEN Goto(th, "fail") ELSE Return(th)
    /\ UNCHANGED <<fleetVars, transports, unit, off, faults>>

(* The launch was rejected or raised.  Should update_task raise in turn,
   the dispatch loop catches that too. *)
FailLaunch(th) ==
    /\ At(th, "dispatch", "fail")
    /\ TryUpdate(Current(th), "failed")
    /\ NextTask(th, 0)
    /\ UNCHANGED <<transports, connVars, unit, off, faults>>

-----------------------------------------------------------------------------
(* The drones *)

Fault(kind) == /\ kind \in FaultKinds
               /\ faults < MaxFaults
               /\ faults' = faults + 1

(* serve() takes one line.  A launch may be rejected for a malformed spec or
   an account that does not exist, and "systemctl stop" may fail. *)
Serve(p) ==
    /\ ssh[p].inbox # << >>
    /\ LET op == Head(ssh[p].inbox).op
           t == Head(ssh[p].inbox).task
       IN  \/ /\ op = "dispatch"
              /\ Launch(t, tasks[t].mode)
              /\ Answer(p, Plain(TRUE))
              /\ UNCHANGED faults
           \/ /\ op = "dispatch"
              /\ Answer(p, Plain(FALSE))
              /\ UNCHANGED <<unit, faults>>
           \/ /\ op = "reconcile"
              /\ Answer(p, StatusReply(t))
              /\ UNCHANGED <<unit, faults>>
           \/ /\ op = "cancel"
              /\ Cancel(t)
              /\ Answer(p, Plain(TRUE))
              /\ UNCHANGED faults
           \/ /\ op = "cancel"
              /\ Fault("stop")
              /\ CancelFailed(t)
              /\ Answer(p, Plain(TRUE))
    /\ UNCHANGED <<fleetVars, transports, call, off>>

Exit(t) ==
    /\ \E code \in ExitCodes : UnitExit(t, code)
    /\ UNCHANGED <<fleetVars, transports, call, connVars, off, faults>>

(* The loose ends of connections that have ended or been replaced. *)
Wither(p) ==
    /\ Lose(p) \/ Retire(p)
    /\ UNCHANGED <<fleetVars, transports, call, unit, off, faults>>

-----------------------------------------------------------------------------
(* Faults *)

(* A connection breaks, maybe with a request or its reply in transit. *)
Disconnect(p) ==
    /\ Fault("disconnect")
    /\ Break(p)
    /\ UNCHANGED <<fleetVars, transports, call, unit, off>>

(* A drone goes down with its agents and units, for a while or for good. *)
DroneDown(d) ==
    /\ d \in Registered
    /\ LoseUnits({t \in TaskIds : tasks[t].target = d})
    /\ LoseAgents(d)
    /\ \E kind \in {"reboot", "poweroff"} :
          /\ Fault(kind)
          /\ off' = IF kind = "poweroff" THEN off \cup {d} ELSE off
    /\ UNCHANGED <<fleetVars, transports, call>>

(* __init__: one lazy transport per registration with an address. *)
Hydrated == [d \in {e \in Registered : drones[e].address # NoAddress} |->
               drones[d].address]

(* The coordinator process dies and starts again on the same database.  The
   lines it has written may still reach the agents. *)
Restart ==
    /\ Fault("restart")
    /\ transports' = Hydrated
    /\ call' = [th \in Threads |-> NoCall]
    /\ Reset
    /\ UNCHANGED <<fleetVars, unit, off>>

-----------------------------------------------------------------------------
Init == /\ FleetInit
        /\ ConnInit
        /\ AgentInit
        /\ transports = << >>
        /\ call = [th \in Threads |-> NoCall]
        /\ off = {}
        /\ faults = 0

(* A thread picks up a new call ... *)
StartCall(th) ==
    \/ \E d \in Drones : \E offer \in Offers[d] : RegisterByGateway(th, d, offer)
    \/ \E job \in Jobs : SubmitJob(th, job)
    \/ \E limit \in Limits : BeginDispatch(th, limit)
    \/ BeginReconcile(th)
    \/ \E t \in TaskIds : BeginCancel(th, t)

(* ... and goes on with the one it is in. *)
Step(th) ==
    \/ Reserve(th) \/ Poll(th) \/ SkipTask(th) \/ EndLoop(th)
    \/ SendRequest(th) \/ Requesting(th) \/ Launched(th)
    \/ StillRunning(th) \/ RecordOutcome(th) \/ Stopped(th)
    \/ RequestRaised(th) \/ FailLaunch(th) \/ RecordCancelled(th)

Next == \/ \E th \in Threads : StartCall(th) \/ Step(th)
        \/ \E p \in Processes : Serve(p) \/ Wither(p) \/ Disconnect(p)
        \/ \E t \in TaskIds : Exit(t)
        \/ \E d \in Drones : \/ \E offer \in Offers[d] : RegisterByDashboard(d, offer)
                            \/ DroneDown(d)
        \/ Restart

Spec == Init /\ [][Next]_vars

(* The agents answer, commands end, threads go on with their calls, and a
   client keeps calling reconcile_running: the coordinator has no timer of
   its own. *)
Fairness ==
    /\ \A th \in Threads : WF_vars(Step(th)) /\ SF_vars(BeginReconcile(th))
    /\ \A p \in Processes : WF_vars(Serve(p))
    /\ \A t \in 1..MaxTasks : WF_vars(t \in TaskIds /\ Exit(t))

FairSpec == Spec /\ Fairness

-----------------------------------------------------------------------------
(* A call that works on a task has it in its todo, and a dispatch that has
   reserved a slot has quota left for it. *)
CallOK(th) ==
    /\ call[th].todo \subseteq TaskIds
    /\ call[th].step # "next" => call[th].todo # {}
    /\ call[th].op = "idle" => Idle(th)
    /\ call[th].op = "dispatch" /\ call[th].step # "next"
         => call[th].quota > 0

(* Tables, calls and units have their types, transports lead to registered
   drones, and the connections carry well-formed lines. *)
CoordTypeOK ==
    /\ FleetTypeOK
    /\ DOMAIN transports \subseteq Registered
    /\ transports \in [DOMAIN transports -> Addresses]
    /\ call \in [Threads -> Calls]
    /\ \A th \in Threads : CallOK(th)
    /\ ConnTypeOK(Requests, Replies)
    /\ \A th \in Threads : In(th, "out") \/ call[th].step = "request"
    /\ unit \in [1..MaxTasks -> UnitStates]
    /\ off \subseteq Drones
    /\ faults \in 0..MaxFaults

(* Whatever its threads, its connections and the faults do, the coordinator
   changes the database by State's operations only: everything proved of
   FleetState holds of it. *)
UsesStateOnly == FleetSpec

Launches(th, t) == /\ call[th].op = "dispatch"
                   /\ call[th].step # "next"
                   /\ Current(th) = t

Launching(t) == {th \in Threads : Launches(th, t)}

LaunchSent(t) ==
    \E p \in Processes : \E i \in DOMAIN ssh[p].inbox :
        ssh[p].inbox[i] = [op |-> "dispatch", task |-> t]

(* A task is launched by at most one thread, and only once its slot has
   been reserved: two threads dispatching from snapshots that both hold the
   task never both send it, and no unit exists for a task still queued. *)
LaunchedOnceReserved ==
    \A t \in TaskIds :
        /\ \A th, other \in Launching(t) : th = other
        /\ (Launching(t) # {} \/ LaunchSent(t) \/ unit[t] # "none")
             => tasks[t].status # "queued"

(* A one-shot task is recorded completed only after its command has ended
   or was stopped: never before its launch, while it runs, or when it has
   failed ("so reconciliation can read its final status and exit code",
   drone_agent.py:52-53). *)
CompletedAfterRun ==
    \A t \in TaskIds :
        (tasks[t].status = "completed" /\ tasks[t].mode = "once")
            => unit[t] \in {"exited", "stopped"}

(* A command that runs although its task is not recorded running. *)
Orphans == {t \in TaskIds : unit[t] = "active" /\ tasks[t].status # "running"}

(* The gateway alone leaves no process behind: each command that outlives
   its task is owed to a fault of its own, be it a connection that broke
   with the launch or its reply in transit, a coordinator restarted over a
   launch that came late, or a unit that could not be stopped. *)
OrphansBounded == Cardinality(Orphans) <= faults

HeldByFailedUnit(d) ==
    \E t \in Running(d) : unit[t] = "failed"

(* With a client that keeps reconciling, a queued task whose drone has a
   transport is dispatched or cancelled, unless a unit that has failed
   keeps its slot ("fills slots as work finishes", README.md:185). *)
QueuedWorkDrains ==
    \A t \in 1..MaxTasks :
        (t \in WithStatus("queued") /\ Connected(t)) ~>
            \/ t \notin WithStatus("queued")
            \/ HeldByFailedUnit(tasks[t].target)

(* The same for the drones that stay up while another one is lost for good
   ("any slots released by completed tasks are immediately offered to the
   oldest queued work", coordinator.py:108-110). *)
LiveDronesAreServed ==
    \A t \in 1..MaxTasks :
        (t \in WithStatus("queued") /\ Connected(t)) ~>
            \/ t \notin WithStatus("queued")
            \/ HeldByFailedUnit(tasks[t].target)
            \/ tasks[t].target \in off

(* A running task whose command has ended gets its outcome recorded. *)
EndedWorkIsRecorded ==
    \A t \in 1..MaxTasks :
        (t \in WithStatus("running") /\ unit[t] \in {"exited", "stopped"})
            ~> t \notin WithStatus("running")

(* The same for every end, failure included. *)
EveryEndIsRecorded ==
    \A t \in 1..MaxTasks :
        (t \in WithStatus("running")
            /\ unit[t] \in {"exited", "stopped", "failed"})
            ~> t \notin WithStatus("running")
=============================================================================
