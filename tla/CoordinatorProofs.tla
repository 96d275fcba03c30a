------------------------- MODULE CoordinatorProofs -------------------------
(***************************************************************************)
(* Proofs about Coordinator: whatever its threads, its connections and the *)
(* faults do, it changes the database only by the operations of            *)
(* FleetState, so that what is proved of the database holds of it.         *)
(***************************************************************************)
EXTENDS Coordinator, FleetStateProofs, WellFoundedInduction

USE LimitsAssumption, ExitCodesAssumption, FaultsAssumption,
    ProcessesAssumption

-----------------------------------------------------------------------------
(* A call with work left works on a task that exists. *)
LEMMA CurrentTask ==
    ASSUME CoordTypeOK, NEW th \in Threads, call[th].todo # {}
    PROVE  /\ Current(th) \in call[th].todo
           /\ Current(th) \in TaskIds
           /\ Current(th) \in 1..MaxTasks
           /\ CurrentDrone(th) \in Registered
           /\ CurrentDrone(th) \in Drones
<1>1. call[th].todo \subseteq TaskIds /\ Len(tasks) \in Nat
  BY DEF CoordTypeOK, CallOK, FleetTypeOK
<1>2. call[th].todo \subseteq Nat
  BY <1>1 DEF TaskIds
<1>3. PICK t \in call[th].todo :
         \A u \in call[th].todo : <<u, t>> \notin OpToRel(<, Nat)
  BY <1>2, NatLessThanWellFounded, WFMin
<1>4. \A u \in call[th].todo : t <= u
  <2> SUFFICES ASSUME NEW u \in call[th].todo, u < t PROVE FALSE
    BY <1>2
  <2>1. <<u, t>> \in Nat \X Nat /\ <<u, t>>[1] < <<u, t>>[2]
    BY <1>2
  <2>2. <<u, t>> \in OpToRel(<, Nat)
    BY <2>1, Zenon DEF OpToRel
  <2> QED
    BY <1>3, <2>2
<1>5. Current(th) \in call[th].todo
  BY <1>4 DEF Current, Oldest
<1>6. tasks[Current(th)].target \in Registered
  BY <1>1, <1>5 DEF CoordTypeOK, FleetTypeOK
<1>7. TaskIds \subseteq 1..MaxTasks
  BY <1>1, MaxTasksAssumption DEF TaskIds, CoordTypeOK, FleetTypeOK
<1>8. Registered \subseteq Drones
  BY DEF CoordTypeOK, FleetTypeOK
<1> QED
  BY <1>1, <1>5, <1>6, <1>7, <1>8 DEF CurrentDrone

LEMMA TryUpdateUsesState ==
    ASSUME NEW t \in TaskIds, NEW status \in Statuses, TryUpdate(t, status)
    PROVE  [FleetNext]_fleetVars
BY DEF TryUpdate, FleetNext

(* Every step of the coordinator is one State operation or none. *)
LEMMA StepUsesState == CoordTypeOK /\ [Next]_vars => [FleetNext]_fleetVars
<1> SUFFICES ASSUME CoordTypeOK, [Next]_vars
             PROVE  [FleetNext]_fleetVars
  OBVIOUS
<1>1. CASE UNCHANGED vars
  BY <1>1 DEF vars, fleetVars
<1>2. ASSUME NEW th \in Threads, StartCall(th)
      PROVE  [FleetNext]_fleetVars
  <2>1. ASSUME NEW d \in Drones, NEW offer \in Offers[d],
               RegisterDrone(d, offer)
        PROVE  FleetNext
    BY <2>1 DEF FleetNext
  <2>2. ASSUME NEW job \in Jobs, CreateTask(job) PROVE FleetNext
    BY <2>2 DEF FleetNext
  <2>3. CASE UNCHANGED fleetVars
    BY <2>3
  <2> QED
    BY <1>2, <2>1, <2>2, <2>3
       DEF StartCall, RegisterByGateway, SubmitJob,
           BeginDispatch, BeginReconcile, BeginCancel
<1>3. ASSUME NEW th \in Threads, Step(th)
      PROVE  [FleetNext]_fleetVars
  <2>1. call[th].step # "next" => call[th].todo # {}
    BY DEF CoordTypeOK, CallOK
  <2>2. call[th].todo # {} => Current(th) \in TaskIds
    BY CurrentTask
  <2>3. CASE Reserve(th)
    <3>1. Current(th) \in TaskIds /\ UpdateTask(Current(th), "running")
      BY <2>2, <2>3 DEF Reserve, AtNext
    <3> QED
      BY <3>1 DEF FleetNext, Statuses
  <2>4. CASE RecordOutcome(th)
    <3>1. Current(th) \in TaskIds
      BY <2>1, <2>2, <2>4 DEF RecordOutcome, GetReply, At
    <3>2. Outcome(Reply(th)) \in Statuses
      BY DEF Outcome, Statuses
    <3> QED
      BY <2>4, <3>1, <3>2, TryUpdateUsesState DEF RecordOutcome
  <2>5. CASE FailLaunch(th)
    <3>1. Current(th) \in TaskIds
      BY <2>1, <2>2, <2>5 DEF FailLaunch, At
    <3> QED
      BY <2>5, <3>1, TryUpdateUsesState DEF FailLaunch, Statuses
  <2>6. CASE RecordCancelled(th)
    <3>1. Current(th) \in TaskIds
      BY <2>1, <2>2, <2>6 DEF RecordCancelled, At
    <3> QED
      BY <2>6, <3>1, TryUpdateUsesState DEF RecordCancelled, Statuses
  <2>7. CASE \/ Poll(th) \/ SkipTask(th) \/ EndLoop(th) \/ SendRequest(th)
             \/ Requesting(th) \/ Launched(th) \/ StillRunning(th) \/ Stopped(th)
             \/ RequestRaised(th)
    BY <2>7 DEF Poll, SkipTask, EndLoop, SendRequest, Requesting, Launched,
                StillRunning, Stopped, RequestRaised
  <2> QED
    BY <1>3, <2>3, <2>4, <2>5, <2>6, <2>7 DEF Step
<1>4. ASSUME NEW p \in Processes, Serve(p) \/ Wither(p) \/ Disconnect(p)
      PROVE  UNCHANGED fleetVars
  BY <1>4 DEF Serve, Wither, Disconnect
<1>5. ASSUME NEW t \in TaskIds, Exit(t) PROVE UNCHANGED fleetVars
  BY <1>5 DEF Exit
<1>6. CASE Restart
  BY <1>6 DEF Restart
<1>7. ASSUME NEW d \in Drones, NEW offer \in Offers[d],
             RegisterByDashboard(d, offer)
      PROVE  FleetNext
  BY <1>7 DEF RegisterByDashboard, FleetNext
<1>8. ASSUME NEW d \in Drones, DroneDown(d)
      PROVE  UNCHANGED fleetVars
  BY <1>8 DEF DroneDown
<1> QED
  BY <1>1, <1>2, <1>3, <1>4, <1>5, <1>6, <1>7, <1>8 DEF Next

-----------------------------------------------------------------------------
(* The calls of the threads stay well formed. *)

CallsOK == /\ call \in [Threads -> Calls]
           /\ \A th \in Threads : CallOK(th)

(* Neither table ever loses a row. *)
LEMMA FleetGrows ==
    ASSUME FleetTypeOK, [FleetNext]_fleetVars
    PROVE  TaskIds \subseteq TaskIds' /\ Registered \subseteq Registered'
<1>1. CASE UNCHANGED fleetVars
  BY <1>1 DEF fleetVars, TaskIds, Registered
<1>2. CASE FleetNext
  <2>1. ASSUME NEW d \in Drones, NEW offer \in Offers[d],
               RegisterDrone(d, offer)
        PROVE  TaskIds \subseteq TaskIds' /\ Registered \subseteq Registered'
    BY <2>1, RegisterShape DEF TaskIds
  <2>2. ASSUME NEW job \in Jobs, CreateTask(job)
        PROVE  TaskIds \subseteq TaskIds' /\ Registered \subseteq Registered'
    BY <2>2, CreateShape DEF Registered
  <2>3. ASSUME NEW t \in TaskIds, NEW status \in Statuses,
               UpdateTask(t, status)
        PROVE  TaskIds \subseteq TaskIds' /\ Registered \subseteq Registered'
    BY <2>3, UpdateShape
  <2> QED
    BY <1>2, <2>1, <2>2, <2>3 DEF FleetNext
<1> QED
  BY <1>1, <1>2

LEMMA CallsKept ==
    ASSUME CallsOK, TaskIds \subseteq TaskIds', UNCHANGED call
    PROVE  CallsOK'
BY DEF CallsOK, CallOK, Idle

(* A thread may go on with any well-formed call. *)
LEMMA CallsReplaced ==
    ASSUME CallsOK, TaskIds \subseteq TaskIds',
           NEW th \in Threads, NEW c \in Calls,
           c.todo \subseteq TaskIds',
           c.step # "next" => c.todo # {},
           c.op = "idle" => c = NoCall,
           c.op = "dispatch" /\ c.step # "next" => c.quota > 0,
           call' = [call EXCEPT ![th] = c]
    PROVE  CallsOK'
<1>1. /\ call' \in [Threads -> Calls]
      /\ call'[th] = c
      /\ \A u \in Threads \ {th} : call'[u] = call[u]
  BY DEF CallsOK
<1>2. \A u \in Threads : CallOK(u)'
  BY <1>1 DEF CallsOK, CallOK, Idle
<1> QED
  BY <1>1, <1>2 DEF CallsOK

LEMMA CallsReturn ==
    ASSUME CallsOK, TaskIds \subseteq TaskIds', NEW th \in Threads,
           Return(th)
    PROVE  CallsOK'
<1>1. /\ NoCall \in Calls
      /\ NoCall.todo = {} /\ NoCall.step = "next" /\ NoCall.op = "idle"
  BY DEF NoCall, NewCall, Calls, Ops, Steps
<1> QED
  BY <1>1, CallsReplaced DEF Return

LEMMA CallsGoto ==
    ASSUME CallsOK, TaskIds \subseteq TaskIds', NEW th \in Threads,
           NEW step \in Steps, call[th].todo # {}, call[th].op # "idle",
           call[th].op = "dispatch" => call[th].quota > 0,
           Goto(th, step)
    PROVE  CallsOK'
<1> DEFINE c == [call[th] EXCEPT !.step = step]
<1>1. call[th] \in Calls /\ call[th].todo \subseteq TaskIds
  BY DEF CallsOK, CallOK
<1>2. /\ c \in Calls
      /\ c.op = call[th].op /\ c.todo = call[th].todo
      /\ c.quota = call[th].quota
  BY <1>1 DEF Calls
<1>3. call' = [call EXCEPT ![th] = c]
  BY DEF Goto, CallsOK
<1> HIDE DEF c
<1> QED
  BY <1>1, <1>2, <1>3, CallsReplaced

LEMMA CallsNextTask ==
    ASSUME CallsOK, TaskIds \subseteq TaskIds', NEW th \in Threads,
           NEW spent \in Nat, call[th].op # "idle",
           call[th].quota >= spent,
           NextTask(th, spent)
    PROVE  CallsOK'
<1> DEFINE c == [call[th] EXCEPT !.todo = @ \ {Current(th)},
                                 !.step = "next", !.quota = @ - spent]
<1>1. call[th] \in Calls /\ call[th].todo \subseteq TaskIds
  BY DEF CallsOK, CallOK
<1>2. /\ c \in Calls
      /\ c.op = call[th].op /\ c.step = "next"
      /\ c.todo \subseteq call[th].todo
  <2>1. call[th].quota - spent \in Nat
    BY <1>1 DEF Calls
  <2>2. call[th].todo \ {Current(th)} \in SUBSET (1..MaxTasks)
    BY <1>1 DEF Calls
  <2> QED
    BY <1>1, <2>1, <2>2 DEF Calls, Steps
<1>3. call' = [call EXCEPT ![th] = c]
  BY DEF NextTask, CallsOK
<1> HIDE DEF c
<1> QED
  BY <1>1, <1>2, <1>3, CallsReplaced

LEMMA CallsNew ==
    ASSUME CallsOK, TaskIds \subseteq TaskIds', TaskIds \subseteq 1..MaxTasks,
           NEW th \in Threads, NEW op \in Ops \ {"idle"}, NEW step \in Steps,
           NEW todo \in SUBSET TaskIds, NEW quota \in Nat,
           step # "next" => todo # {} /\ op # "dispatch",
           call' = [call EXCEPT ![th] = NewCall(op, step, todo, quota)]
    PROVE  CallsOK'
<1> DEFINE c == NewCall(op, step, todo, quota)
<1>1. /\ c \in Calls
      /\ c.op = op /\ c.step = step /\ c.todo = todo
  BY DEF NewCall, Calls
<1> HIDE DEF c
<1>2. call' = [call EXCEPT ![th] = c]
  BY DEF c
<1> QED
  BY <1>1, <1>2, CallsReplaced

LEMMA CallsStep == CoordTypeOK /\ [Next]_vars => CallsOK'
<1> SUFFICES ASSUME CoordTypeOK, [Next]_vars PROVE CallsOK'
  OBVIOUS
<1>1. CallsOK /\ FleetTypeOK
  BY DEF CoordTypeOK, CallsOK
<1>2. TaskIds \subseteq TaskIds'
  BY <1>1, StepUsesState, FleetGrows
<1>3. TaskIds \subseteq 1..MaxTasks
  <2>1. Len(tasks) \in Nat /\ Len(tasks) <= MaxTasks
    BY <1>1 DEF FleetTypeOK
  <2> QED
    BY <2>1, MaxTasksAssumption DEF TaskIds
<1>4. CASE UNCHANGED call
  BY <1>1, <1>2, <1>4, CallsKept
<1>5. ASSUME NEW th \in Threads, StartCall(th) PROVE CallsOK'
  <2>1. \A status : WithStatus(status) \in SUBSET TaskIds
    BY DEF WithStatus
  <2>2. ASSUME NEW limit \in Limits, BeginDispatch(th, limit)
        PROVE  CallsOK'
    BY <1>1, <1>2, <1>3, <2>1, <2>2, CallsNew
       DEF BeginDispatch, Begin, Ops, Steps
  <2>3. CASE BeginReconcile(th)
    BY <1>1, <1>2, <1>3, <2>1, <2>3, CallsNew
       DEF BeginReconcile, Begin, Ops, Steps
  <2>4. ASSUME NEW t \in TaskIds, BeginCancel(th, t) PROVE CallsOK'
    BY <1>1, <1>2, <1>3, <2>4, CallsNew DEF BeginCancel, Begin, Ops, Steps
  <2> QED
    BY <1>4, <1>5, <2>2, <2>3, <2>4
       DEF StartCall, RegisterByGateway, SubmitJob
<1>6. ASSUME NEW th \in Threads, Step(th) PROVE CallsOK'
  <2>1. /\ call[th].step # "next" => call[th].todo # {}
        /\ call[th].op = "idle" => call[th].step = "next"
        /\ call[th].op = "idle" => call[th].todo = {}
        /\ call[th].op = "dispatch" /\ call[th].step # "next"
             => call[th].quota > 0
        /\ call[th].quota \in Nat
    BY <1>1 DEF CallsOK, CallOK, Calls, Idle, NoCall, NewCall
  <2>2. CASE Reserve(th)
    BY <1>1, <1>2, <2>1, <2>2, CallsGoto
       DEF Reserve, AtNext, At, CanDispatch, Steps
  <2>3. CASE Poll(th)
    BY <1>1, <1>2, <2>1, <2>3, CallsGoto DEF Poll, AtNext, At, Steps
  <2>4. CASE SkipTask(th)
    BY <1>1, <1>2, <2>1, <2>4, CallsNextTask DEF SkipTask, AtNext, At
  <2>5. CASE EndLoop(th)
    <3>1. WithStatus("queued") \in SUBSET TaskIds
      BY DEF WithStatus
    <3>2. CASE Return(th)
      BY <1>1, <1>2, <3>2, CallsReturn
    <3>3. CASE call' = [call EXCEPT ![th] =
                 NewCall("dispatch", "next", WithStatus("queued"), MaxTasks)]
      <4> DEFINE todo == WithStatus("queued")
      <4>1. /\ todo \in SUBSET TaskIds
            /\ call' = [call EXCEPT ![th] =
                          NewCall("dispatch", "next", todo, MaxTasks)]
        BY <3>1, <3>3
      <4>2. "dispatch" \in Ops \ {"idle"} /\ "next" \in Steps
        BY DEF Ops, Steps
      <4> HIDE DEF todo
      <4> QED
        BY <1>1, <1>2, <1>3, <4>1, <4>2, CallsNew, MaxTasksAssumption
    <3> QED
      BY <2>5, <3>2, <3>3 DEF EndLoop
  <2>6. CASE SendRequest(th) \/ Requesting(th)
    BY <1>4, <2>6 DEF SendRequest, Requesting
  <2>7. CASE Launched(th)
    <3>1. call[th].op = "dispatch" /\ call[th].step = "request"
      BY <2>7 DEF Launched, GetReply, At
    <3> QED
      BY <1>1, <1>2, <2>1, <2>7, <3>1, CallsGoto, CallsNextTask
         DEF Launched, Steps
  <2>8. CASE StillRunning(th)
    BY <1>1, <1>2, <2>1, <2>8, CallsNextTask
       DEF StillRunning, GetReply, At
  <2>9. CASE RecordOutcome(th)
    BY <1>1, <1>2, <2>1, <2>9, CallsNextTask, CallsReturn
       DEF RecordOutcome, GetReply, At
  <2>10. CASE Stopped(th)
    BY <1>1, <1>2, <2>1, <2>10, CallsGoto, CallsReturn
       DEF Stopped, GetReply, At, Steps
  <2>11. CASE RequestRaised(th)
    BY <1>1, <1>2, <2>1, <2>11, CallsGoto, CallsReturn
       DEF RequestRaised, Steps
  <2>12. CASE FailLaunch(th)
    BY <1>1, <1>2, <2>1, <2>12, CallsNextTask DEF FailLaunch, At
  <2>13. CASE RecordCancelled(th)
    BY <1>1, <1>2, <2>13, CallsReturn DEF RecordCancelled
  <2> QED
    BY <1>6, <2>2, <2>3, <2>4, <2>5, <2>6, <2>7, <2>8, <2>9, <2>10,
       <2>11, <2>12, <2>13 DEF Step
<1>7. CASE Restart
  <2>1. NoCall \in Calls /\ NoCall.todo = {} /\ NoCall.step = "next"
    BY DEF NoCall, NewCall, Calls, Ops, Steps
  <2>2. NoCall.op = "idle"
    BY DEF NoCall, NewCall
  <2>3. call' = [th \in Threads |-> NoCall]
    BY <1>7 DEF Restart
  <2> QED
    BY <2>1, <2>2, <2>3 DEF CallsOK, CallOK, Idle
<1>8. ASSUME NEW p \in Processes, Serve(p) \/ Wither(p) \/ Disconnect(p)
      PROVE  CallsOK'
  BY <1>4, <1>8 DEF Serve, Wither, Disconnect
<1>9. ASSUME NEW t \in TaskIds, Exit(t) PROVE CallsOK'
  BY <1>4, <1>9 DEF Exit
<1>10. CASE UNCHANGED vars
  BY <1>4, <1>10 DEF vars
<1>11. ASSUME NEW d \in Drones, \/ DroneDown(d)
                                \/ \E offer \in Offers[d] :
                                      RegisterByDashboard(d, offer)
       PROVE  CallsOK'
  BY <1>4, <1>11 DEF DroneDown, RegisterByDashboard
<1> QED
  BY <1>5, <1>6, <1>7, <1>8, <1>9, <1>10, <1>11 DEF Next

-----------------------------------------------------------------------------
(* The connections carry well-formed lines. *)

Connection == Connections(Requests, Replies)

ConnOK == ConnTypeOK(Requests, Replies)

InsideOK == \A th \in Threads : In(th, "out") \/ call[th].step = "request"

LEMMA RowClosed ==
    ASSUME NEW c \in Connection
    PROVE  /\ Closed(c) \in Connection /\ Closed(c).outbox = << >>
           /\ Gone \in Connection /\ Gone.outbox = << >> /\ ~Gone.alive
BY DEF Closed, Rest, Gone, NoDrone, Connection, Connections

(* One connection changes at a time, and goes from row to row. *)
LEMMA ConnReplaced ==
    ASSUME ConnOK, NEW p \in Processes, NEW c \in Connection,
           c.alive \/ c.outbox = << >>,
           ssh' = [ssh EXCEPT ![p] = c],
           UNCHANGED <<process, place>>
    PROVE  ConnOK'
BY DEF ConnOK, ConnTypeOK, Connection, In

(* A thread moves, and leaves the connections as they are. *)
LEMMA ConnEntered ==
    ASSUME ConnOK, NEW th \in Threads, NEW step,
           Enter(th, step), UNCHANGED ssh,
           step \in {"out", "connect", "write", "read", "close", "clear"},
           process' \in [Drones -> Processes \cup {None}]
    PROVE  ConnOK'
<1>1. [step |-> step, of |-> None] \in Places
  BY DEF Places
<1> QED
  BY <1>1 DEF ConnOK, ConnTypeOK, Enter, In

(* A thread moves as one connection changes. *)
LEMMA ConnBoth ==
    ASSUME ConnOK, NEW th \in Threads, NEW step, Enter(th, step),
           step \in {"out", "connect", "write", "read", "close", "clear"},
           process' \in [Drones -> Processes \cup {None}],
           NEW p \in Processes, NEW c \in Connection, c.alive \/ c.outbox = << >>,
           ssh' = [ssh EXCEPT ![p] = c]
    PROVE  ConnOK'
<1>1. [step |-> step, of |-> None] \in Places
  BY DEF Places
<1> QED
  BY <1>1 DEF ConnOK, ConnTypeOK, Enter, In, Connection

LEMMA ConnProceeds ==
    ASSUME ConnOK, NEW th \in Threads, NEW d \in Drones,
           NEW request \in Requests, NEW answered \in BOOLEAN,
           Proceed(th, d, request, answered)
    PROVE  ConnOK'
<1>1. /\ process \in [Drones -> Processes \cup {None}]
      /\ ssh \in [Processes -> Connection]
      /\ place \in [Threads -> Places]
      /\ \A p \in Processes : ssh[p].alive \/ ssh[p].outbox = << >>
  BY DEF ConnOK, ConnTypeOK, Connection
<1>2. CASE Connect(th, d, answered)
  <2>1. PICK p \in Processes :
           /\ process' = [process EXCEPT ![d] = p]
           /\ ssh' = [ssh EXCEPT ![p] = IF answered THEN Opened(d) ELSE Gone]
    BY <1>2 DEF Connect, Free
  <2> DEFINE c == IF answered THEN Opened(d) ELSE Gone
  <2>2. c \in Connection /\ (c.alive \/ c.outbox = << >>)
    <3>1. Opened(d) \in Connection /\ Opened(d).alive
      BY DEF Opened, Connection, Connections
    <3>2. Gone \in Connection /\ Gone.outbox = << >>
      BY DEF Gone, NoDrone, Connection, Connections
    <3> QED
      BY <3>1, <3>2
  <2>3. Enter(th, "write") /\ ssh' = [ssh EXCEPT ![p] = c]
    BY <1>2, <2>1 DEF Connect
  <2>4. process' \in [Drones -> Processes \cup {None}]
    BY <1>1, <2>1
  <2> HIDE DEF c
  <2> QED
    BY <2>2, <2>3, <2>4, ConnBoth
<1>3. CASE WriteLine(th, d, request)
  <2>1. PICK p \in Processes : p = process[d] /\ ssh[p].alive
    BY <1>1, <1>3 DEF WriteLine, Alive
  <2> DEFINE c == [ssh[p] EXCEPT !.inbox = Append(@, request)]
  <2>2. c \in Connection /\ c.alive
    <3>1. ssh[p] \in Connection /\ ssh[p].inbox \in Seq(Requests)
      BY <1>1 DEF Connection, Connections
    <3>2. Append(ssh[p].inbox, request) \in Seq(Requests)
      BY <3>1
    <3> QED
      BY <2>1, <3>1, <3>2 DEF Connection, Connections
  <2>3. Enter(th, "read") /\ ssh' = [ssh EXCEPT ![p] = c]
    BY <1>1, <1>3, <2>1 DEF WriteLine
  <2>4. process' \in [Drones -> Processes \cup {None}]
    BY <1>1, <1>3 DEF WriteLine
  <2> HIDE DEF c
  <2> QED
    BY <2>2, <2>3, <2>4, ConnBoth
<1>4. CASE WriteRefused(th, d) \/ ReadEnd(th)
  BY <1>1, <1>4, ConnEntered DEF WriteRefused, ReadEnd
<1>5. CASE BeginRead(th, d)
  <2>1. CASE process[d] = None
    BY <1>1, <1>5, <2>1, ConnEntered DEF BeginRead
  <2>2. CASE process[d] # None
    <3>1. [step |-> "wait", of |-> process[d]] \in Places
      BY <1>1 DEF Places
    <3> QED
      BY <1>5, <2>2, <3>1 DEF BeginRead, ConnOK, ConnTypeOK, In
  <2> QED
    BY <2>1, <2>2
<1>6. CASE Terminate(th, d)
  <2>1. PICK p \in Processes : p = process[d]
    BY <1>1, <1>6 DEF Terminate
  <2>2. Enter(th, "clear") /\ ssh' = [ssh EXCEPT ![p] = Closed(ssh[p])]
    BY <1>1, <1>6, <2>1 DEF Terminate
  <2>3. process' \in [Drones -> Processes \cup {None}]
    BY <1>1, <1>6 DEF Terminate
  <2>4. Closed(ssh[p]) \in Connection /\ Closed(ssh[p]).outbox = << >>
    BY <1>1, RowClosed
  <2> QED
    BY <2>2, <2>3, <2>4, ConnBoth
<1> QED
  BY <1>2, <1>3, <1>4, <1>5, <1>6 DEF Proceed

LEMMA ConnBegins ==
    ASSUME ConnOK, NEW th \in Threads, NEW d \in Drones, BeginRequest(th, d)
    PROVE  ConnOK'
<1>1. process' \in [Drones -> Processes \cup {None}]
  BY DEF BeginRequest, ConnOK, ConnTypeOK
<1> QED
  BY <1>1, ConnEntered DEF BeginRequest

LEMMA ConnReads ==
    ASSUME ConnOK, NEW th \in Threads, ReadLine(th)
    PROVE  /\ ConnOK'
           /\ place[th].of \in Processes
           /\ Head(ssh[place[th].of].outbox) \in Replies
<1>1. /\ process \in [Drones -> Processes \cup {None}]
      /\ ssh \in [Processes -> Connection]
      /\ \A p \in Processes : ssh[p].alive \/ ssh[p].outbox = << >>
  BY DEF ConnOK, ConnTypeOK, Connection
<1>2. PICK p \in Processes : p = place[th].of
  BY DEF ReadLine, ConnOK, ConnTypeOK, Places
<1> DEFINE c == [ssh[p] EXCEPT !.outbox = Tail(@)]
<1>3. ssh[p].outbox \in Seq(Replies) /\ ssh[p].outbox # << >>
  BY <1>1, <1>2 DEF ReadLine, Connection, Connections
<1>4. Tail(ssh[p].outbox) \in Seq(Replies) /\ Head(ssh[p].outbox) \in Replies
  BY ONLY <1>3
<1>5. c \in Connection /\ c.alive
  BY <1>1, <1>3, <1>4 DEF Connection, Connections
<1>6. ssh' = [ssh EXCEPT ![p] = c] /\ Enter(th, "out")
  BY <1>1, <1>2 DEF ReadLine, Leave
<1>7. process' \in [Drones -> Processes \cup {None}]
  BY <1>1 DEF ReadLine
<1> HIDE DEF c
<1>8. ConnOK'
  BY <1>5, <1>6, <1>7, ConnBoth
<1> QED
  BY <1>2, <1>4, <1>8

LEMMA ConnRaises ==
    ASSUME ConnOK, NEW th \in Threads, NEW d \in Drones, Raise(th, d)
    PROVE  ConnOK'
<1>1. process' \in [Drones -> Processes \cup {None}]
  BY DEF Raise, NoProcess, Clear, ConnOK, ConnTypeOK
<1>2. Enter(th, "out") /\ UNCHANGED ssh
  BY DEF Raise, NoProcess, Clear, Leave
<1> QED
  BY <1>1, <1>2, ConnEntered

LEMMA ConnAnswered ==
    ASSUME ConnOK, NEW p \in Processes, NEW reply \in Replies,
           Answer(p, reply)
    PROVE  ConnOK'
<1>1. /\ ssh \in [Processes -> Connection]
      /\ ssh[p].alive \/ ssh[p].outbox = << >>
  BY DEF ConnOK, ConnTypeOK, Connection
<1>2. /\ ssh[p].inbox \in Seq(Requests)
      /\ ssh[p].inbox # << >>
      /\ ssh[p].outbox \in Seq(Replies)
  BY <1>1 DEF Connection, Connections, Answer
<1>3. /\ Tail(ssh[p].inbox) \in Seq(Requests)
      /\ Append(ssh[p].outbox, reply) \in Seq(Replies)
  BY <1>2
<1> DEFINE c == Answered(ssh[p], reply)
<1>4. c \in Connection /\ (c.alive \/ c.outbox = << >>)
  BY <1>1, <1>3 DEF Answered, Rest, Gone, NoDrone, Connection, Connections
<1>5. ssh' = [ssh EXCEPT ![p] = c] /\ UNCHANGED <<process, place>>
  BY <1>1 DEF Answer
<1> HIDE DEF c
<1> QED
  BY <1>4, <1>5, ConnReplaced

LEMMA ConnEnds ==
    ASSUME ConnOK, NEW p \in Processes, Break(p) \/ Lose(p) \/ Retire(p)
    PROVE  ConnOK'
<1>1. ssh \in [Processes -> Connection]
  BY DEF ConnOK, ConnTypeOK, Connection
<1>2. PICK c \in {Gone, Closed(ssh[p])} :
         ssh' = [ssh EXCEPT ![p] = c] /\ UNCHANGED <<process, place>>
  BY <1>1 DEF Break, Lose, Retire
<1>3. c \in Connection /\ c.outbox = << >>
  BY <1>1, RowClosed
<1> QED
  BY <1>2, <1>3, ConnReplaced

(* An agent answers with a well-formed reply. *)
LEMMA ServeAnswers ==
    ASSUME CoordTypeOK, NEW p \in Processes, Serve(p)
    PROVE  /\ Head(ssh[p].inbox) \in Requests
           /\ \E reply \in Replies : Answer(p, reply)
<1>1. /\ Plain(TRUE) \in Replies /\ Plain(FALSE) \in Replies
      /\ \A t : unit[t] \in UnitStates => StatusReply(t) \in Replies
  BY DEF Plain, StatusReply, ActiveState, Replies, UnitStates
<1>2. Head(ssh[p].inbox) \in Requests
  <2>1. ssh[p].inbox \in Seq(Requests) /\ ssh[p].inbox # << >>
    BY DEF Serve, CoordTypeOK, ConnTypeOK, Connections
  <2> QED
    BY ONLY <2>1
<1>3. unit[Head(ssh[p].inbox).task] \in UnitStates
  BY <1>2 DEF CoordTypeOK, Requests
<1> QED
  BY <1>1, <1>2, <1>3 DEF Serve

(* Where a thread in the middle of a call is. *)
LEMMA CallTask ==
    ASSUME CoordTypeOK, NEW th \in Threads, call[th].step # "next"
    PROVE  /\ CurrentDrone(th) \in Drones
           /\ Line(th) \in Requests
           /\ Reachable(CurrentDrone(th)) \in BOOLEAN
BY CurrentTask DEF CoordTypeOK, CallOK, Line, Requests, Calls, Reachable

LEMMA ConnStep == CoordTypeOK /\ [Next]_vars => ConnOK'
<1> SUFFICES ASSUME CoordTypeOK, [Next]_vars PROVE ConnOK'
  OBVIOUS
<1>1. ConnOK
  BY DEF CoordTypeOK, ConnOK
<1>2. CASE UNCHANGED connVars
  BY <1>1, <1>2 DEF ConnOK, ConnTypeOK, connVars, In
<1>3. ASSUME NEW th \in Threads, StartCall(th) PROVE ConnOK'
  BY <1>2, <1>3 DEF StartCall, RegisterByGateway,
     SubmitJob, BeginDispatch, BeginReconcile, BeginCancel
<1>4. ASSUME NEW th \in Threads, Step(th) PROVE ConnOK'
  <2>1. CASE SendRequest(th)
    BY <1>1, <2>1, CallTask, ConnBegins DEF SendRequest
  <2>2. CASE Requesting(th)
    BY <1>1, <2>2, CallTask, ConnProceeds DEF Requesting
  <2>3. CASE \/ Launched(th) \/ StillRunning(th)
             \/ RecordOutcome(th) \/ Stopped(th)
    BY <1>1, <2>3, ConnReads DEF Launched, StillRunning, RecordOutcome,
                                 Stopped, GetReply
  <2>4. CASE RequestRaised(th)
    BY <1>1, <2>4, CallTask, ConnRaises DEF RequestRaised
  <2>5. CASE \/ Reserve(th) \/ Poll(th) \/ SkipTask(th) \/ EndLoop(th)
             \/ FailLaunch(th) \/ RecordCancelled(th)
    BY <1>2, <2>5 DEF Reserve, Poll, SkipTask, EndLoop, FailLaunch,
                      RecordCancelled
  <2> QED
    BY <1>4, <2>1, <2>2, <2>3, <2>4, <2>5 DEF Step
<1>5. ASSUME NEW p \in Processes, Serve(p) PROVE ConnOK'
  BY <1>1, <1>5, ServeAnswers, ConnAnswered
<1>6. ASSUME NEW p \in Processes, Wither(p) \/ Disconnect(p) PROVE ConnOK'
  BY <1>1, <1>6, ConnEnds DEF Wither, Disconnect
<1>7. ASSUME NEW d \in Drones, DroneDown(d) PROVE ConnOK'
  <2>1. LoseAgents(d)
    BY <1>7 DEF DroneDown
  <2>2. Gone \in Connection /\ Gone.outbox = << >>
    BY DEF Gone, NoDrone, Connection, Connections
  <2> QED
    BY <1>1, <2>1, <2>2 DEF LoseAgents, ConnOK, ConnTypeOK, Connection, In
<1>8. ASSUME NEW t \in TaskIds, Exit(t) PROVE ConnOK'
  BY <1>2, <1>8 DEF Exit
<1>9. CASE Restart
  <2>1. /\ ssh \in [Processes -> Connection]
        /\ process' = Unconnected /\ place' = Outside
        /\ ssh' = [p \in Processes |-> Closed(ssh[p])]
    BY <1>1, <1>9 DEF Restart, Reset, ConnOK, ConnTypeOK, Connection
  <2>2. \A p \in Processes :
           Closed(ssh[p]) \in Connection /\ Closed(ssh[p]).outbox = << >>
    BY <2>1, RowClosed
  <2>3. [step |-> "out", of |-> None] \in Places
    BY DEF Places
  <2> QED
    BY <2>1, <2>2, <2>3 DEF Unconnected, Outside, ConnOK, ConnTypeOK, Connection, In
<1>10. ASSUME NEW d \in Drones, NEW offer \in Offers[d],
              RegisterByDashboard(d, offer)
       PROVE  ConnOK'
  BY <1>2, <1>10 DEF RegisterByDashboard
<1>11. CASE UNCHANGED vars
  BY <1>2, <1>11 DEF vars
<1> QED
  BY <1>3, <1>4, <1>5, <1>6, <1>7, <1>8, <1>9, <1>10, <1>11 DEF Next

(* A thread outside its request step is outside request(). *)
LEMMA InsideStep == CoordTypeOK /\ [Next]_vars => InsideOK'
<1> SUFFICES ASSUME CoordTypeOK, [Next]_vars PROVE InsideOK'
  OBVIOUS
<1>1. /\ InsideOK
      /\ call \in [Threads -> Calls]
      /\ place \in [Threads -> Places]
      /\ \A th \in Threads : In(th, "out") \/ place[th].step # "out"
  BY DEF CoordTypeOK, InsideOK, ConnTypeOK, In
<1>2. CASE UNCHANGED <<call, place>>
  BY <1>1, <1>2 DEF InsideOK, In
<1>3. CASE UNCHANGED call /\ \E th \in Threads :
             /\ call[th].step = "request"
             /\ \A u \in Threads \ {th} : place'[u] = place[u]
  BY <1>1, <1>3 DEF InsideOK, In
<1>4. CASE UNCHANGED place /\ \E th \in Threads :
             /\ call[th].step # "request" \/ In(th, "out")
             /\ \A u \in Threads \ {th} : call'[u] = call[u]
  BY <1>1, <1>4 DEF InsideOK, In
<1>5. CASE \E th \in Threads :
             /\ Leave(th)
             /\ \A u \in Threads \ {th} : call'[u] = call[u]
  BY <1>1, <1>5 DEF InsideOK, In, Leave, Enter
<1>6. ASSUME NEW th \in Threads, StartCall(th) PROVE InsideOK'
  <2>1. CASE UNCHANGED <<call, place>>
    BY <1>2, <2>1
  <2>2. CASE UNCHANGED place /\ \E new : Begin(th, new)
    <3>1. call[th].step = "next"
      BY <2>2 DEF Begin, Idle, NoCall, NewCall
    <3> QED
      BY <1>1, <1>4, <2>2, <3>1 DEF Begin
  <2> QED
    BY <1>6, <2>1, <2>2 DEF StartCall, RegisterByGateway, SubmitJob,
       BeginDispatch, BeginReconcile, BeginCancel, connVars
<1>7. ASSUME NEW th \in Threads, Step(th) PROVE InsideOK'
  <2>1. CASE SendRequest(th)
    BY <1>1, <1>3, <2>1 DEF SendRequest, BeginRequest, Enter
  <2>2. CASE Requesting(th)
    <3>1. \A u \in Threads \ {th} : place'[u] = place[u]
      BY <1>1, <2>2 DEF Requesting, Proceed, Connect, WriteLine, WriteRefused,
         BeginRead, ReadEnd, Terminate, Enter
    <3> QED
      BY <1>3, <2>2, <3>1 DEF Requesting
  <2>3. CASE \/ Launched(th) \/ StillRunning(th) \/ RecordOutcome(th)
             \/ Stopped(th) \/ RequestRaised(th)
    <3>1. Leave(th)
      BY <2>3 DEF Launched, StillRunning, RecordOutcome, Stopped,
         RequestRaised, GetReply, ReadLine, Raise, NoProcess, Clear
    <3>2. \A u \in Threads \ {th} : call'[u] = call[u]
      BY <1>1, <2>3 DEF Launched, StillRunning, RecordOutcome, Stopped,
         RequestRaised, NextTask, Goto, Return
    <3> QED
      BY <1>5, <3>1, <3>2
  <2>4. CASE \/ Reserve(th) \/ Poll(th) \/ SkipTask(th) \/ EndLoop(th)
             \/ FailLaunch(th) \/ RecordCancelled(th)
    <3>1. call[th].step # "request" /\ UNCHANGED place
      BY <2>4 DEF Reserve, Poll, SkipTask, EndLoop, FailLaunch,
         RecordCancelled, AtNext, At, connVars
    <3>2. \A u \in Threads \ {th} : call'[u] = call[u]
      BY <1>1, <2>4 DEF Reserve, Poll, SkipTask, EndLoop, FailLaunch,
         RecordCancelled, NextTask, Goto, Return
    <3> QED
      BY <1>4, <3>1, <3>2
  <2> QED
    BY <1>7, <2>1, <2>2, <2>3, <2>4 DEF Step
<1>8. ASSUME NEW p \in Processes, Serve(p) \/ Wither(p) \/ Disconnect(p)
      PROVE  InsideOK'
  BY <1>2, <1>8 DEF Serve, Wither, Disconnect, Answer, Lose, Retire, Break
<1>9. ASSUME NEW d \in Drones, \/ DroneDown(d)
                               \/ \E offer \in Offers[d] :
                                     RegisterByDashboard(d, offer)
      PROVE  InsideOK'
  BY <1>2, <1>9 DEF DroneDown, LoseAgents,
                    RegisterByDashboard, connVars
<1>10. ASSUME NEW t \in TaskIds, Exit(t) PROVE InsideOK'
  BY <1>2, <1>10 DEF Exit, connVars
<1>11. CASE Restart
  BY <1>11 DEF Restart, Reset, Outside, InsideOK, In
<1>12. CASE UNCHANGED vars
  BY <1>2, <1>12 DEF vars, connVars
<1> QED
  BY <1>6, <1>7, <1>8, <1>9, <1>10, <1>11, <1>12 DEF Next

-----------------------------------------------------------------------------
(* Transports, units and faults *)

TransportsOK == /\ DOMAIN transports \subseteq Registered
                /\ transports \in [DOMAIN transports -> Addresses]

LEMMA TransportsStep == CoordTypeOK /\ [Next]_vars => TransportsOK'
<1> SUFFICES ASSUME CoordTypeOK, [Next]_vars PROVE TransportsOK'
  OBVIOUS
<1>1. TransportsOK /\ FleetTypeOK
  BY DEF CoordTypeOK, TransportsOK
<1>2. Registered \subseteq Registered'
  BY <1>1, StepUsesState, FleetGrows
<1>3. CASE UNCHANGED transports
  BY <1>1, <1>2, <1>3 DEF TransportsOK
<1>4. ASSUME NEW th \in Threads, NEW d \in Drones, NEW offer \in Offers[d],
             RegisterByGateway(th, d, offer)
      PROVE  TransportsOK'
  <2>1. offer.address \in Addresses
    BY OffersAssumption
  <2>2. d \in Registered'
    BY <1>1, <1>4, RegisterShape DEF RegisterByGateway
  <2>3. CASE offer.address # NoAddress /\ d \notin DOMAIN transports
    <3>1. transports' = [e \in DOMAIN transports \cup {d} |->
                           IF e = d THEN offer.address ELSE transports[e]]
      BY <1>4, <2>3 DEF RegisterByGateway
    <3> QED
      BY <1>1, <1>2, <2>1, <2>2, <3>1 DEF TransportsOK
  <2>4. CASE ~(offer.address # NoAddress /\ d \notin DOMAIN transports)
    BY <1>3, <1>4, <2>4 DEF RegisterByGateway
  <2> QED
    BY <2>3, <2>4
<1>5. ASSUME NEW th \in Threads, StartCall(th) PROVE TransportsOK'
  BY <1>3, <1>4, <1>5 DEF StartCall, SubmitJob,
                          BeginDispatch, BeginReconcile, BeginCancel
<1>6. ASSUME NEW th \in Threads, Step(th) PROVE TransportsOK'
  BY <1>3, <1>6 DEF Step, Reserve, Poll, SkipTask, EndLoop, SendRequest,
     Requesting, Launched, StillRunning, RecordOutcome, Stopped, RequestRaised,
     FailLaunch, RecordCancelled
<1>7. CASE Restart
  <2>1. \A d \in Registered : drones[d].address \in Addresses
    BY <1>1 DEF FleetTypeOK, DroneRow
  <2> QED
    BY <1>2, <1>7, <2>1 DEF Restart, Hydrated, TransportsOK
<1>8. ASSUME NEW p \in Processes, Serve(p) \/ Wither(p) \/ Disconnect(p)
      PROVE  TransportsOK'
  BY <1>3, <1>8 DEF Serve, Wither, Disconnect
<1>9. ASSUME NEW t \in TaskIds, Exit(t) PROVE TransportsOK'
  BY <1>3, <1>9 DEF Exit
<1>10. CASE UNCHANGED vars
  BY <1>3, <1>10 DEF vars
<1>11. ASSUME NEW d \in Drones, \/ DroneDown(d)
                                \/ \E offer \in Offers[d] :
                                      RegisterByDashboard(d, offer)
       PROVE  TransportsOK'
  BY <1>3, <1>11 DEF DroneDown, RegisterByDashboard
<1> QED
  BY <1>5, <1>6, <1>7, <1>8, <1>9, <1>10, <1>11 DEF Next

DronesOK == /\ unit \in [1..MaxTasks -> UnitStates]
            /\ off \subseteq Drones
            /\ faults \in 0..MaxFaults

LEMMA DronesStep == CoordTypeOK /\ [Next]_vars => DronesOK'
<1> SUFFICES ASSUME CoordTypeOK, [Next]_vars PROVE DronesOK'
  OBVIOUS
<1>1. DronesOK
  BY DEF CoordTypeOK, DronesOK
<1>2. CASE UNCHANGED <<unit, off, faults>>
  BY <1>1, <1>2 DEF DronesOK
<1>3. ASSUME NEW th \in Threads, StartCall(th) PROVE DronesOK'
  BY <1>2, <1>3 DEF StartCall, RegisterByGateway,
     SubmitJob, BeginDispatch, BeginReconcile, BeginCancel
<1>4. ASSUME NEW th \in Threads, Step(th) PROVE DronesOK'
  BY <1>2, <1>4 DEF Step, Reserve, Poll, SkipTask, EndLoop, SendRequest,
     Requesting, Launched, StillRunning, RecordOutcome, Stopped, RequestRaised,
     FailLaunch, RecordCancelled
<1>5. ASSUME NEW p \in Processes, Serve(p) PROVE DronesOK'
  <2>1. PICK t : UNCHANGED unit \/ Cancel(t) \/ Launch(t, tasks[t].mode)
    BY <1>5 DEF Serve, CancelFailed
  <2>2. unit' \in [1..MaxTasks -> UnitStates]
    BY <1>1, <2>1 DEF Launch, UnitName, Cancel, DronesOK, UnitStates
  <2>3. UNCHANGED faults \/ Fault("stop")
    BY <1>5 DEF Serve
  <2>4. faults' \in 0..MaxFaults
    BY <1>1, <2>3 DEF Fault, DronesOK
  <2> QED
    BY <1>1, <1>5, <2>2, <2>4 DEF Serve, DronesOK
<1>6. ASSUME NEW kind, Fault(kind) PROVE faults' \in 0..MaxFaults
  BY <1>1, <1>6 DEF Fault, DronesOK
<1>7. ASSUME NEW lost, LoseUnits(lost)
      PROVE  unit' \in [1..MaxTasks -> UnitStates]
  BY <1>1, <1>7 DEF LoseUnits, DronesOK, UnitStates
<1>8. ASSUME NEW d \in Drones, DroneDown(d) PROVE DronesOK'
  BY <1>1, <1>6, <1>7, <1>8 DEF DroneDown, DronesOK
<1>9. ASSUME NEW t \in TaskIds, Exit(t) PROVE DronesOK'
  BY <1>1, <1>9 DEF Exit, UnitExit, DronesOK, UnitStates
<1>10. CASE Restart
  BY <1>1, <1>6, <1>10 DEF Restart, DronesOK
<1>11. CASE UNCHANGED vars
  BY <1>2, <1>11 DEF vars
<1>12. ASSUME NEW p \in Processes, Wither(p) \/ Disconnect(p)
       PROVE  DronesOK'
  BY <1>1, <1>2, <1>6, <1>12 DEF Wither, Disconnect, DronesOK
<1>13. ASSUME NEW d \in Drones, NEW offer \in Offers[d],
              RegisterByDashboard(d, offer)
       PROVE  DronesOK'
  BY <1>2, <1>13 DEF RegisterByDashboard
<1> QED
  BY <1>3, <1>4, <1>5, <1>8, <1>9, <1>10, <1>11, <1>12, <1>13 DEF Next

-----------------------------------------------------------------------------
(* The results *)

LEMMA CoordTypeInit == Init => CoordTypeOK
<1> SUFFICES ASSUME Init PROVE CoordTypeOK
  OBVIOUS
<1>1. FleetTypeOK
  BY MaxTasksAssumption
     DEF Init, FleetInit, FleetTypeOK, Registered, TaskIds
<1>2. TransportsOK
  BY DEF Init, TransportsOK
<1>3. CallsOK
  <2>1. NoCall \in Calls /\ NoCall.todo = {} /\ NoCall.step = "next"
    BY DEF NoCall, NewCall, Calls, Ops, Steps
  <2>2. NoCall.op = "idle"
    BY DEF NoCall, NewCall
  <2> QED
    BY <2>1, <2>2 DEF Init, CallsOK, CallOK, Idle
<1>4. ConnOK /\ InsideOK
  <2>1. Gone \in Connection /\ Gone.outbox = << >>
    BY DEF Gone, NoDrone, Connection, Connections
  <2>2. [step |-> "out", of |-> None] \in Places
    BY DEF Places
  <2> QED
    BY <2>1, <2>2 DEF Init, ConnInit, Unconnected, Outside, ConnOK,
                      ConnTypeOK, InsideOK, Connection, In
<1>5. DronesOK
  BY DEF Init, AgentInit, UnitStates, DronesOK
<1> QED
  BY <1>1, <1>2, <1>3, <1>4, <1>5
     DEF CoordTypeOK, TransportsOK, CallsOK, ConnOK, InsideOK, DronesOK

LEMMA CoordTypeStep == CoordTypeOK /\ [Next]_vars => CoordTypeOK'
<1> SUFFICES ASSUME CoordTypeOK, [Next]_vars PROVE CoordTypeOK'
  OBVIOUS
<1>1. FleetTypeOK'
  BY StepUsesState, FleetTypeStep DEF CoordTypeOK
<1> QED
  BY <1>1, TransportsStep, CallsStep, ConnStep, InsideStep,
     DronesStep
     DEF CoordTypeOK, TransportsOK, CallsOK, ConnOK, InsideOK, DronesOK

(* The tables, the calls in progress, the lines on the connections and
   the units keep their types through every interleaving and every fault; in
   particular a thread in the middle of a call always has a task of the
   table in hand. *)
THEOREM CoordTypeCorrect == Spec => []CoordTypeOK
BY CoordTypeInit, CoordTypeStep, PTL DEF Spec

(* The coordinator implements FleetState: any number of threads, with any
   faults, changes the two tables by single State operations. *)
THEOREM CoordinatorUsesState == Spec => UsesStateOnly
<1>1. Init => FleetInit
  BY DEF Init
<1> QED
  BY <1>1, StepUsesState, CoordTypeCorrect, PTL
     DEF Spec, UsesStateOnly, FleetSpec

(* Hence no slot is lost under concurrency and faults, and every task goes
   through the life cycle of TaskLifecycle. *)
THEOREM CoordinatorKeepsSlotsAndLifecycle ==
    Spec => []SlotsBacked /\ TaskLifecycleHolds
BY CoordinatorUsesState, NoSlotLost, FleetImplementsLifecycle, PTL
   DEF UsesStateOnly

-----------------------------------------------------------------------------
(* A task is launched once, after its slot has been reserved.  The
   invariant is strengthened to the tasks not yet created, which nobody
   works on either. *)

Touched(t) == Launching(t) # {} \/ LaunchSent(t) \/ unit[t] # "none"

Past(t) == t \in TaskIds /\ tasks[t].status # "queued"

TouchedOnlyReserved == \A t \in 1..MaxTasks : Touched(t) => Past(t)

OneLauncher == \A t \in TaskIds : \A th, other \in Launching(t) : th = other

(* No task returns to the queue. *)
LEMMA PastStays ==
    ASSUME FleetTypeOK, [FleetNext]_fleetVars, NEW t, Past(t)
    PROVE  Past(t)'
<1>1. CASE UNCHANGED fleetVars
  BY <1>1 DEF fleetVars, Past, TaskIds
<1>2. ASSUME NEW d \in Drones, NEW offer \in Offers[d],
             RegisterDrone(d, offer)
      PROVE  Past(t)'
  BY <1>2, RegisterShape DEF Past, TaskIds
<1>3. ASSUME NEW job \in Jobs, CreateTask(job) PROVE Past(t)'
  BY <1>3, CreateShape DEF Past
<1>4. ASSUME NEW u \in TaskIds, NEW status \in Statuses,
             UpdateTask(u, status)
      PROVE  Past(t)'
  <2>1. /\ TaskIds' = TaskIds
        /\ tasks' = [tasks EXCEPT ![u] = TaskAfter(@, status)]
    BY <1>4, UpdateShape DEF UpdateTask
  <2>2. status # "queued"
    <3>1. \A s \in Statuses : "queued" \notin Transitions[s]
      BY DEF Statuses, Transitions
    <3>2. tasks[u].status \in Statuses
      <4>1. tasks[u] \in TaskRow
        BY DEF FleetTypeOK, TaskIds
      <4> QED
        BY <4>1 DEF TaskRow
    <3> QED
      BY <1>4, <3>1, <3>2 DEF UpdateTask, CanUpdate
  <2>3. tasks[u] \in TaskRow /\ DOMAIN tasks = TaskIds
    BY DEF FleetTypeOK, TaskIds
  <2>4. TaskAfter(tasks[u], status).status = status
    BY <2>3 DEF TaskAfter, TaskRow
  <2> QED
    BY <2>1, <2>2, <2>3, <2>4 DEF Past
<1> QED
  BY <1>1, <1>2, <1>3, <1>4 DEF FleetNext

(* A thread launches a task only if it has just reserved its slot. *)
LEMMA LaunchesStep ==
    ASSUME CoordTypeOK, [Next]_vars,
           NEW u \in Threads, NEW t, Launches(u, t)'
    PROVE  Launches(u, t) \/ (Reserve(u) /\ Current(u) = t)
<1>1. call \in [Threads -> Calls]
  BY DEF CoordTypeOK
<1>2. CASE UNCHANGED call
  BY <1>2 DEF Launches, Current
<1>3. ASSUME NEW th \in Threads, th # u,
             StartCall(th) \/ Step(th)
      PROVE  call'[u] = call[u]
  BY <1>1, <1>3 DEF StartCall, RegisterByGateway,
     SubmitJob, BeginDispatch, BeginReconcile, BeginCancel, Begin,
     Step, Reserve, Poll, SkipTask, EndLoop, SendRequest, Requesting, Launched,
     StillRunning, RecordOutcome, Stopped, RequestRaised, FailLaunch,
     RecordCancelled, Goto, NextTask, Return
<1>4. CASE call'[u] = call[u]
  BY <1>4 DEF Launches, Current
<1>5. ASSUME NEW step, Goto(u, step)
      PROVE  /\ call'[u].todo = call[u].todo
             /\ call'[u].op = call[u].op
  BY <1>1, <1>5 DEF Goto, Calls
<1>6. ASSUME NEW spent, NextTask(u, spent) PROVE call'[u].step = "next"
  BY <1>1, <1>6 DEF NextTask, Calls
<1>7. ASSUME Return(u) PROVE call'[u].step = "next"
  BY <1>1, <1>7 DEF Return, NoCall, NewCall
<1>8. CASE StartCall(u)
  <2>1. ASSUME NEW op, NEW step, NEW todo, NEW quota,
               Begin(u, NewCall(op, step, todo, quota))
        PROVE  call'[u].op = op /\ call'[u].step = step
    BY <1>1, <2>1 DEF Begin, NewCall
  <2> QED
    BY <1>2, <1>8, <2>1
       DEF StartCall, RegisterByGateway, SubmitJob,
           BeginDispatch, BeginReconcile, BeginCancel, Launches
<1>9. CASE Step(u)
  <2>1. CASE Reserve(u)
    <3>1. call'[u].todo = call[u].todo
      BY <1>5, <2>1 DEF Reserve
    <3> QED
      BY <2>1, <3>1 DEF Launches, Current
  <2>2. CASE Poll(u)
    BY <1>5, <2>2 DEF Poll, AtNext, At, Launches
  <2>3. CASE EndLoop(u)
    <3>1. call'[u].step = "next"
      BY <1>1, <1>7, <2>3 DEF EndLoop, NewCall
    <3> QED
      BY <3>1 DEF Launches
  <2>4. CASE \/ SkipTask(u) \/ StillRunning(u) \/ RecordOutcome(u)
             \/ FailLaunch(u) \/ RecordCancelled(u)
    <3>1. call'[u].step = "next"
      BY <1>6, <1>7, <2>4 DEF SkipTask, StillRunning, RecordOutcome,
                              FailLaunch, RecordCancelled
    <3> QED
      BY <3>1 DEF Launches
  <2>5. CASE \/ SendRequest(u) \/ Requesting(u)
             \/ Launched(u) \/ Stopped(u) \/ RequestRaised(u)
    <3>1. call[u].step # "next"
      BY <2>5 DEF SendRequest, Requesting, Launched, Stopped, RequestRaised,
                  GetReply, At
    <3>2. \/ call'[u].step = "next"
          \/ /\ call'[u].todo = call[u].todo
             /\ call'[u].op = call[u].op
      BY <1>5, <1>6, <1>7, <2>5
         DEF SendRequest, Requesting, Launched, Stopped, RequestRaised
    <3> QED
      BY <3>1, <3>2 DEF Launches, Current
  <2> QED
    BY <1>9, <2>1, <2>2, <2>3, <2>4, <2>5 DEF Step
<1>10. CASE Restart
  <2>1. call'[u] = NoCall
    BY <1>10 DEF Restart
  <2> QED
    BY <2>1 DEF NoCall, NewCall, Launches
<1>11. ASSUME \/ \E p \in Processes : Serve(p) \/ Wither(p) \/ Disconnect(p)
              \/ \E d \in Drones : \/ DroneDown(d)
                                   \/ \E offer \in Offers[d] :
                                         RegisterByDashboard(d, offer)
       PROVE  UNCHANGED call
  BY <1>11 DEF Serve, Wither, Disconnect, DroneDown,
               RegisterByDashboard
<1>12. ASSUME NEW i \in TaskIds, Exit(i) PROVE UNCHANGED call
  BY <1>12 DEF Exit
<1>13. CASE UNCHANGED vars
  BY <1>2, <1>13 DEF vars
<1> QED
  BY <1>2, <1>3, <1>4, <1>8, <1>9, <1>10, <1>11, <1>12, <1>13 DEF Next

(* A launch line is written only by a thread that has reserved the slot. *)
LEMMA SentStep ==
    ASSUME CoordTypeOK, [Next]_vars, NEW t, LaunchSent(t)'
    PROVE  LaunchSent(t) \/ Launching(t) # {}
<1> DEFINE line == [op |-> "dispatch", task |-> t]
<1>0. PICK e \in Processes : \E i \in DOMAIN ssh'[e].inbox :
             ssh'[e].inbox[i] = line
  BY DEF LaunchSent
<1> DEFINE old == ssh[e].inbox
           new == ssh'[e].inbox
<1>1. /\ ssh \in [Processes -> Connection]
      /\ old \in Seq(Requests)
      /\ process \in [Drones -> Processes \cup {None}]
  BY DEF CoordTypeOK, ConnTypeOK, Connection, Connections
<1>2. ASSUME new = old PROVE LaunchSent(t)
  BY <1>0, <1>2 DEF LaunchSent
<1>3. ASSUME new = << >> PROVE LaunchSent(t)
  BY <1>0, <1>3
<1>4. ASSUME old # << >> /\ new = Tail(old) PROVE LaunchSent(t)
  <2>1. PICK i \in DOMAIN new : new[i] = line
    BY <1>0
  <2>2. i + 1 \in DOMAIN old /\ old[i + 1] = line
    BY <1>1, <1>4, <2>1
  <2> QED
    BY <2>2 DEF LaunchSent
<1>5. ASSUME NEW th \in Threads, StartCall(th) PROVE new = old
  BY <1>5 DEF StartCall, RegisterByGateway,
     SubmitJob, BeginDispatch, BeginReconcile, BeginCancel, connVars
<1>6. ASSUME NEW p \in Processes, NEW c, ssh' = [ssh EXCEPT ![p] = c],
             \/ c.inbox = << >> \/ c.inbox = ssh[p].inbox
             \/ ssh[p].inbox # << >> /\ c.inbox = Tail(ssh[p].inbox)
      PROVE  LaunchSent(t)
  <2>1. \/ new = old \/ new = << >>
        \/ old # << >> /\ new = Tail(old)
    BY <1>1, <1>6
  <2> QED
    BY <1>2, <1>3, <1>4, <2>1
<1>7. \A c : /\ Closed(c).inbox \in {<< >>, c.inbox}
             /\ Gone.inbox = << >>
             /\ \A d : Opened(d).inbox = << >>
  BY DEF Closed, Rest, Gone, Opened
<1>8. ASSUME NEW th \in Threads, Requesting(th)
      PROVE  LaunchSent(t) \/ Launching(t) # {}
  <2> DEFINE d == CurrentDrone(th)
             answered == Reachable(d)
  <2>0. d \in Drones /\ Line(th) \in Requests /\ call[th].step = "request"
    BY <1>8, CallTask DEF Requesting
  <2>1. CASE WriteLine(th, d, Line(th))
    <3>1. PICK p \in Processes : p = process[d]
      BY <1>1, <2>0, <2>1 DEF WriteLine, Alive
    <3>2. /\ ssh'[p].inbox = Append(ssh[p].inbox, Line(th))
          /\ \A q \in Processes \ {p} : ssh'[q] = ssh[q]
      BY <1>1, <2>1, <3>1 DEF WriteLine, Connection, Connections
    <3>3. CASE e # p
      BY <1>2, <3>2, <3>3
    <3>4. CASE e = p
      <4>1. PICK i \in DOMAIN new : new[i] = line
        BY <1>0
      <4>2. (i \in DOMAIN old /\ old[i] = line) \/ Line(th) = line
        BY <1>1, <2>0, <3>2, <3>4, <4>1
      <4>3. CASE i \in DOMAIN old /\ old[i] = line
        BY <4>3 DEF LaunchSent
      <4>4. CASE Line(th) = line
        <5>1. call[th].op = "dispatch" /\ Current(th) = t
          BY <4>4 DEF Line
        <5> QED
          BY <2>0, <5>1 DEF Launching, Launches
      <4> QED
        BY <4>2, <4>3, <4>4
    <3> QED
      BY <3>3, <3>4
  <2>2. CASE Connect(th, d, answered)
    <3>1. PICK p \in Processes, c \in {Opened(d), Gone} :
             ssh' = [ssh EXCEPT ![p] = c]
      BY <2>2 DEF Connect, Free
    <3> QED
      BY <1>6, <1>7, <3>1
  <2>3. CASE Terminate(th, d)
    <3>1. PICK p \in Processes : ssh' = [ssh EXCEPT ![p] = Closed(ssh[p])]
      BY <1>1, <2>0, <2>3 DEF Terminate
    <3> QED
      BY <1>6, <1>7, <3>1
  <2>4. CASE WriteRefused(th, d) \/ BeginRead(th, d) \/ ReadEnd(th)
    BY <1>2, <2>4 DEF WriteRefused, BeginRead, ReadEnd
  <2> QED
    BY <1>8, <2>1, <2>2, <2>3, <2>4 DEF Requesting, Proceed
<1>9. ASSUME NEW th \in Threads, ReadLine(th) PROVE LaunchSent(t)
  <2>1. PICK p \in Processes : p = place[th].of
    BY <1>9, ConnReads DEF CoordTypeOK, ConnOK
  <2>2. ssh' = [ssh EXCEPT ![p] = [ssh[p] EXCEPT !.outbox = Tail(@)]]
    BY <1>1, <1>9, <2>1 DEF ReadLine
  <2>3. [ssh[p] EXCEPT !.outbox = Tail(@)].inbox = ssh[p].inbox
    BY <1>1 DEF Connection, Connections
  <2> QED
    BY <1>6, <2>2, <2>3
<1>10. ASSUME NEW th \in Threads, Step(th), ~Requesting(th)
       PROVE  LaunchSent(t)
  <2>1. CASE UNCHANGED ssh
    BY <1>2, <2>1
  <2> QED
    BY <1>9, <1>10, <2>1
       DEF Step, Reserve, Poll, SkipTask, EndLoop, SendRequest, BeginRequest,
           Launched, StillRunning, RecordOutcome, Stopped, RequestRaised,
           FailLaunch, RecordCancelled, GetReply, Raise, NoProcess, Clear,
           connVars
<1>11. ASSUME NEW p \in Processes, Serve(p) PROVE LaunchSent(t)
  <2>1. PICK reply \in Replies : Answer(p, reply)
    BY <1>11, ServeAnswers
  <2> DEFINE c == Answered(ssh[p], reply)
  <2>2. ssh[p].inbox # << >> /\ ssh' = [ssh EXCEPT ![p] = c]
    BY <1>1, <2>1 DEF Answer
  <2>3. c.inbox \in {<< >>, Tail(ssh[p].inbox)}
    BY DEF Answered, Rest, Gone
  <2> HIDE DEF c
  <2> QED
    BY <1>6, <2>2, <2>3
<1>12. ASSUME NEW p \in Processes, Wither(p) \/ Disconnect(p)
       PROVE  LaunchSent(t)
  <2>1. PICK c \in {Gone, Closed(ssh[p])} : ssh' = [ssh EXCEPT ![p] = c]
    BY <1>1, <1>12 DEF Wither, Disconnect, Lose, Retire, Break
  <2> QED
    BY <1>6, <1>7, <2>1
<1>13. ASSUME NEW d \in Drones, DroneDown(d)
       PROVE  new = old \/ new = << >>
  BY <1>1, <1>7, <1>13 DEF DroneDown, LoseAgents
<1>14. CASE UNCHANGED connVars
  BY <1>2, <1>14 DEF connVars
<1>15. ASSUME NEW d \in Drones, NEW offer \in Offers[d],
              RegisterByDashboard(d, offer)
       PROVE  UNCHANGED connVars
  BY <1>15 DEF RegisterByDashboard
<1>16. ASSUME NEW i \in TaskIds, Exit(i) PROVE UNCHANGED connVars
  BY <1>16 DEF Exit
<1>17. CASE Restart
  <2>1. new \in {<< >>, old}
    BY <1>1, <1>7, <1>17 DEF Restart, Reset
  <2> QED
    BY <1>2, <1>3, <2>1
<1>18. CASE UNCHANGED vars
  BY <1>14, <1>18 DEF vars
<1> HIDE DEF line, old, new
<1> QED
  BY <1>2, <1>3, <1>5, <1>8, <1>10, <1>11, <1>12, <1>13, <1>14, <1>15,
     <1>16, <1>17, <1>18 DEF Next

(* A unit starts only from a launch line. *)
LEMMA UnitStep ==
    ASSUME CoordTypeOK, [Next]_vars, NEW t \in 1..MaxTasks,
           unit'[t] # "none"
    PROVE  unit[t] # "none" \/ LaunchSent(t)
<1>1. unit \in [1..MaxTasks -> UnitStates]
  BY DEF CoordTypeOK
<1>2. CASE UNCHANGED unit
  BY <1>2
<1>3. ASSUME NEW th \in Threads, StartCall(th) \/ Step(th)
      PROVE  UNCHANGED unit
  BY <1>3 DEF StartCall, RegisterByGateway,
     SubmitJob, BeginDispatch, BeginReconcile, BeginCancel,
     Step, Reserve, Poll, SkipTask, EndLoop, SendRequest, Requesting, Launched,
     StillRunning, RecordOutcome, Stopped, RequestRaised, FailLaunch,
     RecordCancelled
<1>4. ASSUME NEW p \in Processes, Serve(p)
      PROVE  unit[t] # "none" \/ LaunchSent(t)
  <2>1. /\ ssh[p].inbox \in Seq(Requests)
        /\ ssh[p].inbox # << >>
    BY <1>4 DEF CoordTypeOK, ConnTypeOK, Connections, Serve
  <2>2. PICK request \in Requests :
           /\ request = Head(ssh[p].inbox)
           /\ 1 \in DOMAIN ssh[p].inbox
           /\ ssh[p].inbox[1] = request
    BY <2>1
  <2>3. request = [op |-> request.op, task |-> request.task]
    BY DEF Requests
  <2>4. CASE request.op = "dispatch" /\ request.task = t
    BY <2>2, <2>3, <2>4 DEF LaunchSent
  <2>5. CASE request.op = "dispatch" /\ request.task # t
    BY <1>1, <1>4, <2>2, <2>5 DEF Serve, Launch
  <2>6. CASE request.op # "dispatch"
    BY <1>1, <1>4, <2>2, <2>6 DEF Serve, Cancel, CancelFailed
  <2> QED
    BY <2>4, <2>5, <2>6
<1>5. ASSUME NEW d \in Drones, DroneDown(d)
      PROVE  unit[t] # "none"
  BY <1>1, <1>5 DEF DroneDown, LoseUnits
<1>6. ASSUME NEW i \in TaskIds, Exit(i) PROVE unit[t] # "none"
  BY <1>1, <1>6 DEF Exit, UnitExit
<1>7. CASE Restart
  BY <1>2, <1>7 DEF Restart
<1>8. CASE UNCHANGED vars
  BY <1>2, <1>8 DEF vars
<1>9. ASSUME \/ \E p \in Processes : Wither(p) \/ Disconnect(p)
             \/ \E d \in Drones : \E offer \in Offers[d] :
                   RegisterByDashboard(d, offer)
      PROVE  UNCHANGED unit
  BY <1>9 DEF Wither, Disconnect, RegisterByDashboard
<1> QED
  BY <1>2, <1>3, <1>4, <1>5, <1>6, <1>7, <1>8, <1>9 DEF Next

LaunchInv == CoordTypeOK /\ TouchedOnlyReserved /\ OneLauncher

LEMMA LaunchStep == LaunchInv /\ [Next]_vars => LaunchInv'
<1> SUFFICES ASSUME LaunchInv, [Next]_vars PROVE LaunchInv'
  OBVIOUS
<1>1. CoordTypeOK /\ CoordTypeOK' /\ FleetTypeOK
  BY CoordTypeStep DEF LaunchInv, CoordTypeOK
<1>2. [FleetNext]_fleetVars
  BY <1>1, StepUsesState
<1>3. ASSUME NEW t \in 1..MaxTasks, Touched(t) PROVE Past(t)'
  BY <1>1, <1>2, <1>3, PastStays DEF LaunchInv, TouchedOnlyReserved
<1>4. ASSUME NEW u \in Threads, Reserve(u)
      PROVE  /\ Current(u) \in 1..MaxTasks
             /\ ~Touched(Current(u))
             /\ Past(Current(u))'
             /\ call[u].step = "next" /\ call'[u].step = "request"
  <2>1. /\ call[u].todo # {}
        /\ call[u].step = "next"
        /\ UpdateTask(Current(u), "running")
        /\ Goto(u, "request")
    BY <1>4 DEF Reserve, AtNext, At
  <2>2. PICK t \in 1..MaxTasks : t = Current(u) /\ t \in TaskIds
    BY <1>1, <2>1, CurrentTask
  <2>3. UpdateTask(t, "running")
    BY <2>1, <2>2
  <2>4. tasks[t].status = "queued"
    <3>1. \A s \in Statuses : "running" \in Transitions[s] => s = "queued"
      BY DEF Statuses, Transitions
    <3>2. tasks[t] \in TaskRow
      BY <1>1, <2>2 DEF FleetTypeOK, TaskIds
    <3>3. tasks[t].status \in Statuses
      BY <3>2 DEF TaskRow
    <3> QED
      BY <2>3, <3>1, <3>3 DEF UpdateTask, CanUpdate
  <2>5. ~Touched(t)
    BY <2>4 DEF LaunchInv, TouchedOnlyReserved, Past
  <2>6. Past(t)'
    <3>1. /\ tasks' = [tasks EXCEPT ![t] = TaskAfter(@, "running")]
          /\ TaskIds' = TaskIds
      BY <1>1, <2>2, <2>3, UpdateShape DEF UpdateTask, Statuses
    <3>2. tasks[t] \in TaskRow /\ t \in DOMAIN tasks
      BY <1>1, <2>2 DEF FleetTypeOK, TaskIds
    <3>3. TaskAfter(tasks[t], "running").status = "running"
      BY <3>2 DEF TaskAfter, TaskRow
    <3> QED
      BY <2>2, <3>1, <3>2, <3>3 DEF Past
  <2>7. Past(Current(u))'
    <3>1. Current(u)' = Current(u)
      BY <1>1, <2>1 DEF Goto, Current, CoordTypeOK, Calls
    <3> QED
      BY <2>2, <2>6, <3>1 DEF Past
  <2>8. call'[u].step = "request"
    BY <1>1, <2>1 DEF Goto, CoordTypeOK, Calls
  <2> QED
    BY <2>1, <2>2, <2>5, <2>7, <2>8
<1>5. TouchedOnlyReserved'
  <2> SUFFICES ASSUME NEW t \in 1..MaxTasks, Touched(t)' PROVE Past(t)'
    BY DEF TouchedOnlyReserved
  <2>1. CASE Launching(t)' # {}
    <3>1. PICK u \in Threads : Launches(u, t)'
      BY <2>1 DEF Launching
    <3>2. Launches(u, t) \/ (Reserve(u) /\ Current(u) = t)
      BY <1>1, <3>1, LaunchesStep
    <3>3. CASE Launches(u, t)
      BY <1>3, <3>3 DEF Touched, Launching
    <3>4. CASE Reserve(u) /\ Current(u) = t
      <4>1. Current(u)' = Current(u)
        BY <1>1, <3>4 DEF Reserve, Goto, Current, CoordTypeOK, Calls
      <4> QED
        BY <1>4, <3>4, <4>1 DEF Past
    <3> QED
      BY <3>2, <3>3, <3>4
  <2>2. CASE LaunchSent(t)'
    BY <1>1, <1>3, <2>2, SentStep DEF Touched
  <2>3. CASE (unit[t] # "none")'
    BY <1>1, <1>3, <2>3, UnitStep DEF Touched
  <2> QED
    BY <2>1, <2>2, <2>3 DEF Touched
<1>6. OneLauncher'
  <2> SUFFICES ASSUME NEW t \in TaskIds', NEW th \in Launching(t)',
                      NEW other \in Launching(t)'
               PROVE  th = other
    BY DEF OneLauncher
  <2>1. /\ th \in Threads /\ Launches(th, t)'
        /\ other \in Threads /\ Launches(other, t)'
    BY DEF Launching
  <2>2. /\ Launches(th, t) \/ (Reserve(th) /\ Current(th) = t)
        /\ Launches(other, t) \/ (Reserve(other) /\ Current(other) = t)
    BY <1>1, <2>1, LaunchesStep
  <2>3. CASE Launches(th, t) /\ Launches(other, t)
    <3>1. t \in TaskIds
      BY <1>1, <2>1, <2>3, CurrentTask DEF Launches, CoordTypeOK, CallOK
    <3> QED
      BY <2>1, <2>3, <3>1 DEF LaunchInv, OneLauncher, Launching
  <2>4. ASSUME NEW u \in Threads, Reserve(u), Current(u) = t
        PROVE  \A v \in Threads : ~Launches(v, t)
    BY <1>4, <2>4 DEF Touched, Launching
  <2>5. CASE Reserve(th) /\ Reserve(other)
    <3>1. /\ call[other].step = "next" /\ call'[other].step = "request"
          /\ call' = [call EXCEPT ![th].step = "request"]
      BY <1>4, <2>1, <2>5 DEF Reserve, Goto
    <3> QED
      BY <1>1, <2>1, <3>1 DEF CoordTypeOK
  <2> QED
    BY <2>1, <2>2, <2>3, <2>4, <2>5
<1> QED
  BY <1>1, <1>5, <1>6 DEF LaunchInv

LEMMA LaunchInit == Init => LaunchInv
<1> SUFFICES ASSUME Init PROVE LaunchInv
  OBVIOUS
<1>1. \A t : Launching(t) = {}
  BY DEF Init, Launching, Launches, NoCall, NewCall
<1>2. \A t : ~LaunchSent(t)
  BY DEF Init, ConnInit, Gone, LaunchSent
<1>3. \A t \in 1..MaxTasks : unit[t] = "none"
  BY DEF Init, AgentInit
<1> QED
  BY <1>1, <1>2, <1>3, CoordTypeInit
     DEF LaunchInv, TouchedOnlyReserved, OneLauncher, Touched

(* A task is launched by at most one thread, and only after its slot has
   been reserved, for any number of threads and faults. *)
THEOREM LaunchOnce == Spec => []LaunchedOnceReserved
<1>1. Init => LaunchInv
  BY LaunchInit
<1>2. LaunchInv => LaunchedOnceReserved
  <2> SUFFICES ASSUME LaunchInv PROVE LaunchedOnceReserved
    OBVIOUS
  <2>1. TaskIds \subseteq 1..MaxTasks
    <3>1. Len(tasks) \in Nat /\ Len(tasks) <= MaxTasks
      BY DEF LaunchInv, CoordTypeOK, FleetTypeOK
    <3> QED
      BY <3>1, MaxTasksAssumption DEF TaskIds
  <2> QED
    BY <2>1 DEF LaunchInv, TouchedOnlyReserved, OneLauncher, Touched, Past,
                LaunchedOnceReserved
<1> QED
  BY <1>1, <1>2, LaunchStep, PTL DEF Spec
=============================================================================
