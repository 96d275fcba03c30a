# Verification of mcp-drone-os

TLA+ models, TLC runs and TLAPS proofs about the coordinator of `mcp-drone-os`
and the drones it drives. Paths below are relative to the repository; Python
files without a directory are in `src/mcp_drone_os/`.

## 1. The system

A *coordinator* keeps a SQLite database of drones and tasks and sends work to
*drones* over SSH. On a drone an *agent* turns requests into systemd units. Two
programs embed the coordinator: the MCP gateway, one thread that reads requests
from stdin, and the dashboard, an HTTP server with one thread per request. They
may run as two processes on one database (`coordinator.py:17-18`).

| part | state | operations | talks to |
|---|---|---|---|
| `state.py`, class `State` | tables drones (`slots`, `used_slots`), tasks (`status`), events, artifacts | `register_drone`, `choose_drone`, `create_task`, `update_task`, artifact and event methods | everybody; one lock per process |
| `coordinator.py`, class `Coordinator` | `transports`: drone id -> `SSHDrone` | `register_drone`, `run_jobs`, `dispatch_pending`, `reconcile_running`, `cancel_task`, logs, artifacts, staging, promotion | State, SSHDrone |
| `ssh_transport.py`, `SSHDrone` | one SSH process per drone | `request`, `close`, `fetch`, `push` | the agent, JSON lines over stdin and stdout |
| `drone_agent.py` | none of its own; systemd units, Quadlet files, task directories | `launch`, `apply_service`, `status`, `cancel`, `logs`, `artifacts`, `promote_persistent` | systemd |
| `dashboard.py` | none of its own | dispatch, reconcile, cancel, register, enroll, events | State, Coordinator |
| `mcp_stdio.py` | none | one coordinator method per line | Coordinator |
| `enroll.py`, `certificates.py` | accounts, keys, certificate of a drone | `enroll`, `issue_host_certificate` | dashboard |
| `persistence.py`, `tools/install-persistent.sh` | data root, configuration | `promote`, the installer | file system |
| `cli.py`, `manifest.py`, `shares.py`, `events.py` | a device, documents, a JSONL file | guarded USB write, validation, rendering, append | file system |

How they interact, and what is hard about it:

* **Slots are a counter, tasks are rows.** `update_task` moves both. Any path
  that moves one without the other loses or invents capacity
  (`state.py:145-164`). Correct when the counter equals the tasks running.
* **A task is reserved before it is launched** (`coordinator.py:58-63`). Between
  the two, and around every request, other threads, the drone and faults move.
  Correct when a task is launched once, by whoever reserved it, and its recorded
  outcome is what happened to its unit.
* **Requests and replies share a stream without identifiers or a lock**
  (`ssh_transport.py:27-40`), and `self.process` is read anew at each use.
  Correct when nobody waits for a reply that somebody else has consumed.
* **There is no timer.** Slots are released and the queue served only when a
  client calls `reconcile_running` (`coordinator.py:103-112`). Correct when a
  client that keeps calling it drains the queue.
* **Two processes on one database**, each with a lock of its own, and every SQL
  statement committed by itself (`state.py:48`). Correct when a method of one
  process acts as if it were a single step between those of the others.
* **An enrollment is repeated at every boot over what earlier boots left**, and
  may break off anywhere (`enroll.py:95-118`). Correct when one that completes
  leaves exactly what its configuration says, and one that is refused nothing
  that depends on what was refused.
* **A result is listed, copied and compared at different times**, while the
  command may still write and other clients fetch (`coordinator.py:139-172`).
  Correct when an unverified copy does not pass for a result.
* Lost replies, drones that disappear or change address, power cuts.

`PROJECT.json` lists every hazard at its line with the properties that watch it.

## 2. The modules

```
TaskLifecycle            what the coordinator promises about one task
   ^ refined by
FleetState               class State: both tables, one action per method
   ^ EXTENDS, and refined by
   |-- SharedDatabase    the same, statement by statement, several processes
   `-- Coordinator  --INSTANCE--> SSHDrones      the SSH connections of all drones
                    --INSTANCE--> DroneAgent     the agent and its units
WorkerStream             what one SSHDrone is meant to be: a shared stream
   ^ refined by, until threads race
SSHTransport             class SSHDrone, between any two uses of self.process
Enrollment               enroll() on a drone, the dashboard's two drone routes
Artifacts                listing, copying and verifying the results of a task

FleetStateProofs, SharedDatabaseProofs,
SharedDatabaseFaultProofs, CoordinatorProofs,
GatewayProofs, SSHTransportProofs, EnrollmentProofs,
ArtifactsProofs                                            theorems
MCFleetState, MCSharedDatabase, MCCoordinator,
MCSSHTransport, MCEnrollment, MCArtifacts                  constants for TLC
```

**TaskLifecycle** is the abstract specification: a status and a target per task,
submitted for one drone, started at most once, its outcome never rewritten.

**FleetState** models `register_drone` (an upsert that keeps `used_slots`),
`create_task` with the placement of `choose_drone` (available drones first, by
load, then by id), and `update_task` with its transition table, the guarded
increment of the counter and its clamped release. Each method holds
`State.lock` throughout, so within a process each is one action. A task id is
its position in the order of `created_at`, and drone ids are ordered as their
strings. `started` stands for `started_at IS NOT NULL`.

**SSHDrones** models the `SSHDrone` objects of a process, one per drone, and
what is at the other end. `process[d]` is `self.process`, `ssh[p]` an SSH
process with its drone and the lines in both directions, `place[th]` where in
`request()` a thread is. An action is the code between two uses of
`self.process`: the check (`BeginRequest`), `connect()` (`Connect`), the write
(`WriteLine`, `WriteRefused`), the second evaluation for the read
(`BeginRead`), the wait in `readline` (`ReadLine`, `ReadEnd`), and `close()` as
terminate and forget (`Terminate`, `Clear`). Two threads may both connect,
write to one process and read from the other, or close what a third has just
opened. A line is a request or a reply, whoever wrote it; a thread reads
whichever is next. When a connection ends its replies are lost, but requests
that were on their way stay in `inbox`: an agent may still read and execute
them (`serve()` goes on until the end of its input) or never see them
(`Lose`). The same goes for a restart of the coordinator.

**DroneAgent** models `launch`, `apply_service`, `status`, `cancel` and what
they rely on from systemd, marked external: a transient unit that exited with 0
or was stopped is unloaded, and an unloaded unit, like one that never existed,
is shown as `inactive` with `ExecMainStatus` 0; a unit that failed stays loaded
in state `failed`. `systemctl stop` may fail, and `cancel` answers ok in any case
(`CancelFailed`). A service is a unit of the user manager under another name,
so `status` and `cancel` do not see it.

**Coordinator** puts them together. `call[th]` is the method thread `th` is in:
`op` (dispatch, reconcile or cancel), the rest of its snapshot (`todo`), the
`quota` left of dispatch's limit, and a `step`:

| step | code |
|---|---|
| `next` | head of the loop of `dispatch_pending` or `reconcile_running` |
| `request` | about to call `SSHDrone.request`, or inside it at `place[th]`: after the reservation in `dispatch_task`, the status read in `reconcile_task` or `cancel_task` |
| `fail` | in the `except` of `dispatch_task` |
| `update` | `cancel_task` about to record the cancellation |

Each action is the code between two points where another actor can step in.
`Reserve` re-reads the task and calls `update_task`; `SkipTask` is what the loop
does when the limit is reached, there is no transport, the task has left the
queue, or `update_task` raises; `RecordOutcome` includes the case where
`update_task` raises and so ends `reconcile_running`; `RequestRaised` fails a
dispatch and ends the other methods; `EndLoop` includes the `dispatch_pending`
at the end of `reconcile_running`. `run_jobs` is a sequence of `SubmitJob` and a
`BeginDispatch`. Registrations and submissions of another process are the
actions of an idle thread.

Faults are counted and bounded by `MaxFaults`, and `FaultKinds` says which may
occur: a connection breaks (`Disconnect`), a `systemctl stop` fails (in
`Serve`), a drone reboots or is switched off for good, with its units and its
agents (`DroneDown`), or the coordinator process restarts on the same database
(`Restart`). `Reachable` says whether a new connection finds an agent: not when
the drone is off or its address has changed.

**SharedDatabase** is `State` as several processes see it. `method[p]` is the
method process `p` is in, with the row it has read; one action is one statement:

| action | statement |
|---|---|
| `BeginUpdate` | `update_task`: the `SELECT` and the transition check |
| `Reserve` | the conditional increment; no row changed raises |
| `WriteStatus` | the row, with `started_at` written back from the row read |
| `Release` | the clamped decrement |
| `LogEvent` | the insertion into `events` |
| `BeginCreate`, `Widen`, `InsertTask` | `create_task`: the query for a drone with a slot, the one for any drone, the insertion |
| `Register` | the upsert |
| `GiveUp` | a statement raises or the process dies: nothing is undone |

`StepAfter` holds the order of the statements of `update_task`. `Updaters` are
the processes that dispatch, reconcile or cancel; the others register drones and
submit tasks. The refinement `AtOnce` shows the tables as if a method took
effect where it changes the counter: a start when its slot is counted
(`Reserve`), an outcome when its slot is released (`Release`). `Apart` says that
no two processes are at work on one task, and none has been since the other
read the row.

**SSHTransport** looks at one `SSHDrone` by itself, in the same steps as
SSHDrones and with `push()`'s connect; its question is how far threads that
share it get the stream of **WorkerStream**: lines written and read, one reply
owed to each reader, all readers raised when the stream ends. SSH processes are
a small set that is reused; a line is told by the thread that wrote it. `raced`
remembers that a connect, or a `close()`, has replaced or dropped a process
between another thread's write and its read, or one that another thread had
opened. WorkerStream is used for nothing else: Coordinator has the races.

**Enrollment** is one drone. `step` and `at` are the place in `enroll()`; the
rest of the state is what is on the disk (`accounts`, `authorized`, `owned`,
`control`, the host key and certificate) and whether the coordinator has a row.
`write_text` is two steps, since it truncates before it writes. `Valid` is what
`load_manifest` demands; a name, key or number is good or bad, so a manifest is
a record and every kind of refusal has a member of `RefusedConfigs`. `Answer` is
the dashboard's `do_POST` for the two routes. The unit runs in a sandbox that
leaves `/etc/passwd` read-only (`ProtectSystem=strict` and `ReadWritePaths` of
`mcp-drone-enroll.service`): while `sandboxed`, `useradd` creates no account,
`enroll.py:59` ignores that, and `HandOver` fails at `getpwnam`. Accounts come
from `RunByHand`, the command `mcp-drone-enroll` run by root outside of the
unit. The environment may make any step raise (`Fail`), cut the power, reboot,
lose an answer (`Post`) or exchange the configuration between two boots
(`Edit`).

**Artifacts** is one task, its files, its rows in the `artifacts` table and the
copies at the clients' destinations. The digest of a content is the content.
Listing reads file by file and records row by row; a fetch is the read of the
row, the start of `scp` (which truncates the destination), its end, the
comparison, and the mark or the unlink. `Disturbed` says when a copy may be
neither the old nor the new content: the file was written meanwhile, or another
`scp` had the same destination.

Every module also defines a few operators commented *Faulty variant*: each is a
plausible mistake in the definition that follows it. None is used by the
specification; they are put in place of that definition to show that the
property named for them in `PROJECT.json` notices.

## 3. The runs

Run any of them with `tlc -config X.cfg <module>`.

| cfg | module | states | what it shows |
|---|---|---|---|
| `FleetState.cfg` | MCFleetState | 260,934 | no slot is lost; the counter errs only by cancelled queued tasks; every task follows TaskLifecycle |
| `Threads.cfg` | MCCoordinator | 2,465,510 | two threads at every point of `request()`, a drone switched off or a coordinator restarted: typing, one launch per task after its reservation, only State operations change the tables |
| `Gateway.cfg` | MCCoordinator | 191,798 | one thread, a broken connection or a failed stop: truthful outcomes, at most one command left behind by that fault, the queue drains, ended commands are recorded |
| `SharedDatabase.cfg` | MCSharedDatabase | 102,091 | two processes, one of which updates tasks, one method given up half-way: every statement is one whole method or none; the counter drifts by at most the method given up; the events of a task follow its row |
| `SSHTransport.cfg` | MCSSHTransport | 30,528 | two threads in one `SSHDrone`: no reply is left for a later request; short of a race on `self.process`, the object is a `WorkerStream` and every request ends |
| `Enrollment.cfg` | MCEnrollment | 23,023 | nine configurations that change between boots, in the sandbox or by hand, two faults anywhere: what a completed, refused or interrupted enrollment leaves; rebooting repairs it where the accounts are there |
| `Artifacts.cfg` | MCArtifacts | 89,035 | two gateways, two files, one destination, one broken call: unverified copies are accounted for; a client that keeps listing and fetching gets every result |
| `CompletedEarly.cfg` | MCCoordinator | violation | a reconcile between reservation and launch completes a task that has not started |
| `FailedUnit.cfg` | MCCoordinator | violation | a task whose command fails is never recorded and keeps its slot |
| `LostDrone.cfg` | MCCoordinator | violation | one drone switched off stops the scheduling of all |
| `UpdatersMeet.cfg` | MCSharedDatabase | violation | two processes that update one task start it after it was cancelled |
| `Certificate.cfg` | MCEnrollment | violation | no drone ever receives a host certificate |

**Bounds.** `MaxTasks` caps the tasks ever created: four in the database model,
so that two drones with two slots and one can be full with work queued behind;
two or three under the coordinator, so that one task runs, one waits and one is
cancelled or reported twice. Two threads suffice for every race on one stream
or one task listed above, since each is between two calls. `MaxFaults` is 1: a
fault can fall at every point of every behaviour, and after it the drone or
process is used again. A second fault during the recovery from a first is not
checked by these runs; the theorems hold for any number and every kind. Two
larger instances were checked once, with no error: `Threads.cfg` with reboots
as well (5.9 million states), and `OrphansBounded` in the gateway with a drone
that changes its address, services, and any two faults of every kind (0.4
million). `Gateway.cfg` has no restarts and no drones that go down because
`CompletedAfterRun` is false with them (section 4, item 1). `MaxTasks` also
stands for the default limit 100 of the heartbeat's dispatch, which it stays
below.

In `SharedDatabase.cfg` only one process updates tasks, because its two invariants
are false with two; `UpdatersMeet.cfg` has two (section 4, item 4).
Two drones and two tasks let a task be placed while the other is between two
statements, on a drone that fills or changes meanwhile. In `SSHTransport.cfg`
three processes are one more than two threads can hold on to, so a connect is
never held up for want of one. `Enrollment.cfg` has two agents, so that an
interruption can hit one after the other was done, and two faults, so that a
repair can be interrupted as well. In `Artifacts.cfg` one file is written twice
and both gateways copy to the same place, where every interference happens; two
destinations were checked once as well (1.3 million states, the same result).
Deadlock is checked in every run.

**Fairness**, used by the liveness properties only. In `Coordinator!Fairness`:

* a thread inside a call goes on with it, and starts `reconcile_running` again
  and again. The second is an assumption about the client, not about the code:
  the code has no timer, and the repository's README tells the client to use
  `reconcile_running` for progress. It is strong fairness because a thread with
  other calls to make is idle only from time to time.
* an agent answers the requests it has received; a thread inside `request()`
  goes on, and one whose connection has ended meets the end of the file.
* a command that runs ends. Nothing is assumed of services.

No fairness is assumed of registrations, submissions, cancellations or faults.
`QueuedWorkDrains` excuses a drone whose slot is held by a failed unit, which is
the defect `FailedUnit.cfg` shows by itself.

`SSHFairness`: threads are scheduled and agents answer; of the threads waiting
in `readline` none is overtaken for ever, because the first of them holds the
lock of the buffer. `EnrollFairness`: the unit is started at every boot and
runs, and a drone whose enrollment failed is switched off and on; faults are
bounded, configurations may change for ever. That somebody runs the command by
hand is not assumed: `RepairedByReboot` and `ReceivesCertificate` have the
accounts in their premise. `ArtFairness`: a call goes on, and
the clients in `Collectors` list and fetch each file again and again: nothing in
the code retries for them.

## 4. What the violations say

1. *Completed before it started* (`CompletedEarly.cfg`). The row says running
   from the reservation on, and a unit that does not exist yet looks like one
   that has ended (`coordinator.py:61`, `:95`). Needs two threads:
   `CompletedHasRun` proves that in the gateway it cannot happen while drones
   and coordinator stay up. A drone that reboots under a running task, or a
   coordinator restarted between reservation and launch, brings it back, with no
   second thread: the agent says `inactive` of a unit it does not have.
2. *Failed commands* (`FailedUnit.cfg`). systemd keeps a failed unit in state
   `failed`; `reconcile_task` waits for `inactive` (`coordinator.py:95`).
3. *One lost drone* (`LostDrone.cfg`). A `ConnectionError` from its status
   request ends `reconcile_running` before the other drones and the dispatch
   (`coordinator.py:106`).
4. *Two updaters of one task* (`UpdatersMeet.cfg`). One process has read a queued
   task and reserved its slot, another cancels the task, the first writes
   `running` over `cancelled`. The `UPDATE` of `state.py:159` does not repeat the
   condition that was checked at `:150`, and the lock is of one process. A
   gateway and a dashboard on one database are two updaters. `ApartIsAtomic`
   proves that this is the only way in which they disturb each other.
5. *No certificate, no registration* (`Certificate.cfg`). `do_POST` lets four
   paths and `/api/tasks/` through (`dashboard.py:100`); the path of the
   certificate request is not among them, so the branch for it (`:120-131`) is
   dead. The 404 makes `urlopen` raise in `enroll()` before it registers the
   drone.

Four more limits of the code are not runs of their own; the properties state
them, or exclude them by a premise:

* *Oversubscription.* `update_task` releases a slot on every outcome
  (`state.py:161-162`), also when a queued task is cancelled. With one slot and a
  task running, that frees its slot and the next task starts beside it.
  `MissingSlotsWereCancelledUnstarted` says, and `ShortfallBounded` proves, the
  exact extent: the counter misses at most one running task per such
  cancellation. `CounterExact` proves that it is right without one.
* *Commands left behind.* `cancel` answers ok when `systemctl stop` failed
  (`drone_agent.py:102-103`), and `cancel_task` looks at nothing else
  (`coordinator.py:129-131`): the task is cancelled and its command goes on. The
  same comes of a launch whose reply is lost, and of a launch still on its way
  when the coordinator is restarted and reconciles its task as completed. In a
  gateway each such command is owed to a fault of its own (`OrphansBounded`,
  `OrphansOwed`). With two threads a task can be dispatched between the read and
  the record of its cancellation, and no bound holds.
* *Races on `self.process`.* Once `raced`, a thread can wait for ever: it wrote
  to one SSH process and reads from the next (`RequestsEnd` and
  `ImplementsWorkerStream` exclude it). What survives is `NoReplyLeftOver`. In
  Coordinator such a thread waits too; what is claimed there for two threads
  does not depend on its getting on.
* *The sandbox of the enrollment unit.* `useradd` cannot create accounts in it,
  so a freshly written image never gets beyond its first agent, at any boot.
  `RepairedByReboot` holds once the accounts are there. `libexec/mcp-drone-enroll:6`
  also makes `/srv/mcp-drone` unreachable for its agents at each boot; file modes
  are not modelled.

## 5. The proofs

Proved by `tlapm` for every set of drones, offers, jobs, threads, any bound on
tasks and faults, from the named ASSUMEs of the modules only (ids are positive
naturals, offers and jobs are records of the right shape, bounds are naturals).

`FleetStateProofs`:
* `FleetTypeCorrect`: the type invariant, inductive by itself. `UpdateShape`,
  `RegisterShape` and `CreateShape` say once what each method does to the tables.
* `NoSlotLost`, `ShortfallBounded`, `CounterExact`, from the inductive invariant
  `SlotInv`: the type invariant, both inequalities between the counter and the
  number of running tasks, and `StartedOnce` (a task that is running or finished
  other than by cancellation has been started, a queued one has not). The last
  is needed because the second inequality counts *cancelled and never started*
  tasks: without it a cancelled running task might count as one.
* `FleetImplementsLifecycle`: the refinement, one step per method.

`CoordinatorProofs`:
* `CoordTypeCorrect`: the type invariant of the whole, with `CallOK`: a thread
  inside a call has a task of the table in hand. One lemma per part of the state
  (calls, connections, transports, drones). `CurrentTask`
  needs that a non-empty set of naturals has a least element.
* `CoordinatorUsesState`: each step is one State operation or none, hence
  `CoordinatorKeepsSlotsAndLifecycle`: what is proved of the database holds under
  all threads and faults.
* `LaunchOnce`: strengthened to `LaunchInv`, which also says that nobody launches
  a task that does not exist yet; otherwise creating one could break it.

`GatewayProofs`, for one thread (`OneThread`: the gateway reads its requests from
stdin in one loop and answers each before the next, `mcp_stdio.py`). Both
theorems rest on `LinesInv`, in two parts. `Links`: on a connection that lives
nothing is in transit but the line of the thread that waits on it, or its reply,
so a reply that is read belongs to the request; on one that has ended at most
one line is left. `Lines`: the launch of a task is a single line, in transit,
executed, or lost, and it is in transit on a living connection only while the
thread is launching that task.
* `OrphansOwed`: `OrphansBounded` for faults of every kind, restarts with
  launches in transit included. It counts the tasks that are `Loose`: those with
  a command that runs though they are not recorded running, and those that may
  come to have one because a launch is late, a stop has failed, or a dispatch
  has been abandoned. A fault makes one more at most, nothing else does
  (`LooseStep`). Between the agent's answer and the thread's reading of it the
  unit may end or vanish, but no reply lets the thread record an outcome of a
  task whose command runs, unless a failed stop has paid for it.
* `CompletedHasRun`: `CompletedAfterRun` under `StaysUp`: connections may break
  with lines in transit, and stops may fail, but neither a drone nor the
  coordinator goes down. `RanInv` adds that a running one-shot task has a unit
  unless the thread is just launching it. Without the hypothesis this is false,
  not only unproved: see section 4, item 1.

`SharedDatabaseProofs`:
* `DbTypeCorrect`: a method in progress refers to rows that exist.
* `ApartIsAtomic`: `MethodsAreAtomic` for any number of processes, all of which
  may update tasks, register drones and create tasks at once. `SoundInv` keeps
  only what a process knows by itself (the status it is about to write is one
  the row it read allows); that the row is still so is what `Apart` says, and
  the property says nothing where two processes meet. There it would be false
  (section 4, item 4).
* `OneUpdaterStaysApart`: with one updater, `Apart` always holds, so each of its
  statements is one whole method or none without a premise. `ReadHolds` says
  that what the updater has read is still so: nobody else changes a row.

`SharedDatabaseFaultProofs`, also for one updater among any number of processes,
and any number of methods given up half-way:
* `DriftBounded`: `SlotDriftBounded`. A method between *reserve* and *write*, or
  between *write* and *release*, holds one slot that no running task accounts
  for; given up there, it turns that slot into one fault. The property counts
  these methods in its upper bound only. `DriftInv` counts them in the lower one
  as well, without which the release would break it. `StartedOnce` is needed as
  in `NoSlotLost`; `ReadHolds`, because the reserved slot becomes a running task
  only if the row is still queued when its status is written.
* `EventsFollow`: `LogFollowsTable`. `LogInv` says that the events of a task are
  in the order of its life cycle, none ahead of the row, that an event a method
  still has to write is the next one, and that without faults no other is
  missing. With two updaters an event could be written after a later one.

`SSHTransportProofs`:
* `SSHTypeCorrect`, and `NothingLeftOver` from `LinesInv`: the stream in use has
  no more lines than readers, and exactly as many while it lives and nothing has
  raced, which is `OneReplyPerReader` seen from below.
* `SharedStream`: the refinement of `WorkerStream`. It needs `WaitInv` besides:
  while nothing has raced, a thread waits on the process in use or on one that
  has ended. Otherwise a reader that `Abstract` does not show could take a line.

`EnrollmentProofs`: `EnrollTypeCorrect`; `CompletedEnrollment`, whose invariant
says at each step which agents of the manifest are done already, and needs that
their ids are distinct, or a later entry would overwrite an earlier one's keys;
`RefusedChangesNothing`, since every step past `load` has a valid manifest
behind it, and every step past the controller keys has good ones (bad ones are
refused only after the accounts, and the property says what is left alone then);
`InterruptionLocksOutOne` from `LockedInv`, for any number of agents and
interruptions.

`ArtifactsProofs`: `ArtTypeCorrect`; `UnverifiedAccounted` from `LeftInv`: the
unverified copies that no fetch is at work on are at most as many as the calls
that were broken off.

Left to TLC: liveness (and so everything that depends on fairness:
`QueuedWorkDrains`, `EndedWorkIsRecorded`, `RequestsEnd`, `RepairedByReboot`,
`ResultsAreCollected`). Every invariant and every action property of the passing
runs is proved, and so are the three refinements.

## 6. What is abstracted or left out

* Names, users, timestamps, exit codes beyond zero or not, and replies to
  clients. Events that stand by themselves (`task.dispatch_failed`, user events)
  are rows nothing reads back; those of the two task methods are in
  SharedDatabase.
* `task_logs`, `promote_persistent` and `stage_bundle` as requests beside the
  others: only the gateway's single thread makes them, so they meet no other
  request on their stream. `push`'s connect is in SSHTransport.
* Ties of `created_at`, and `attach_transport`, which only tests call.
* In Coordinator the replies in transit when a connection ends are lost at once;
  one that had arrived is read before the end is seen, which is as if it had
  been read earlier. A line that could not be written stays in the buffer
  of a pipe that is broken for good, and is taken to be discarded.
* `readline` by two threads at once is one line for each: the buffer under
  `TextIOWrapper` is locked, the text layer above it is taken to be too.
* `systemctl show` answers. A launch may be refused for any reason; a service
  start that fails half-way is taken as refused.
* `RegisterByGateway` adds the transport in the step that writes the row. The
  dashboard's own process gets its transports at start-up, which is `Restart`
  and `Hydrated`; with `RegisterByGateway` the same states are reached sooner.
* Coordinator has one process. What its State methods are worth next to another
  process is SharedDatabase's subject; the two are not composed.
* In Enrollment nothing is ever removed: keys and accounts of agents that have
  left the manifest stay, as in the code. File modes, and the directories that
  the wrapper in `libexec` installs, are left out.
* In Artifacts, contents stand for digests, sizes are left out, and the agent's
  file system is read one whole file at a time.

Not modelled: `persistence.py` and the installer (a sequence of external
commands, and nothing in the repository reads the configuration that `promote`
writes); `cli.py`'s image writer (guards and three commands in one process);
`shares.py` and `events.py` (formatting, and a file nothing else reads); the
live image (build recipes).

## 7. Plan

1. What a reboot or a restart costs in the gateway, as a weaker form of
   `CompletedAfterRun` that holds under every fault.
2. Placement of a batch: how far `choose_drone` spreads work over equal drones
   (`tests/test_batch_distribution.py`), as a property of FleetState.
3. Coordinator over SharedDatabase: two gateways with their own streams to the
   same drones.
