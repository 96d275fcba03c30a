--------------------------- MODULE GatewayProofs ---------------------------
(***************************************************************************)
(* Proofs about a coordinator with one thread, which is what the MCP       *)
(* gateway runs: what becomes of the commands of tasks whatever the faults *)
(* (OrphansBounded), and that what is completed has run, as long as the    *)
(* drones and the coordinator stay up (CompletedAfterRun).                 *)
(*                                                                         *)
(* The argument is about lines.  A single thread writes a line only on a   *)
(* connection on which nothing is in transit, and waits on that very       *)
(* connection, so that the reply it reads belongs to its task.  The one    *)
(* launch line of a task is in transit, has been executed, or is lost; on  *)
(* a connection that has ended it is late, and a fault has paid for it.    *)
(***************************************************************************)
EXTENDS CoordinatorProofs, FiniteSetTheorems

USE ProcessesAssumption, FaultsAssumption

OneThread == \A th, other \in Threads : th = other

-----------------------------------------------------------------------------
(* The connections of a single thread *)

Busy(th) == In(th, "read") \/ In(th, "wait")

(* The thread has written its line to p and is owed a reply. *)
Uses(th, p) == \/ In(th, "read") /\ process[CurrentDrone(th)] = p
               \/ In(th, "wait") /\ place[th].of = p

Empty(p) == ssh[p].inbox = << >> /\ ssh[p].outbox = << >>

Asked(th, p) == ssh[p].inbox = <<Line(th)>> /\ ssh[p].outbox = << >>

Told(p, reply) == ssh[p].inbox = << >> /\ ssh[p].outbox = <<reply>>

Short(p) == \/ ssh[p].inbox = << >>
            \/ \E request \in Requests : ssh[p].inbox = <<request>>

LinkOK(p) ==
    /\ IF ssh[p].alive THEN Empty(p) \/ \E th \in Threads : Uses(th, p)
       ELSE Short(p)
    /\ \A th \in Threads : Uses(th, p) /\ ssh[p].alive =>
          /\ ssh[p].drone = CurrentDrone(th)
          /\ Asked(th, p) \/ \E reply \in Replies : Told(p, reply)
    /\ \A d \in Drones : process[d] = p /\ ssh[p].alive => ssh[p].drone = d

Links == \A p \in Processes : LinkOK(p)

LEMMA OneLine ==
    ASSUME NEW x
    PROVE  /\ Append(<< >>, x) = <<x>>
           /\ <<x>> # << >>
           /\ Head(<<x>>) = x
           /\ Tail(<<x>>) = << >>
           /\ \A y : <<x>> = <<y>> => x = y
<1>1. \A y : <<x>> = <<y>> => x = y
  <2> SUFFICES ASSUME NEW y, <<x>> = <<y>> PROVE x = y
    OBVIOUS
  <2>1. <<x>>[1] = x /\ <<y>>[1] = y
    OBVIOUS
  <2> QED
    BY <2>1
<1> QED
  BY <1>1

LEMMA Ends ==
    ASSUME NEW c
    PROVE  /\ Closed(c).inbox \in {<< >>, c.inbox} /\ ~Closed(c).alive
           /\ Closed(c).outbox = << >>
           /\ Gone.inbox = << >> /\ Gone.outbox = << >> /\ ~Gone.alive
BY DEF Closed, Rest, Gone

LEMMA Conns ==
    ASSUME CoordTypeOK
    PROVE  /\ process \in [Drones -> Processes \cup {None}]
           /\ ssh \in [Processes -> Connection]
           /\ place \in [Threads -> Places]
           /\ \A p \in Processes : ssh[p].alive \/ ssh[p].outbox = << >>
           /\ \A th \in Threads : place[th].of # None => In(th, "wait")
           /\ \A th \in Threads : In(th, "wait") => place[th].of \in Processes
<1>1. ConnTypeOK(Requests, Replies)
  BY DEF CoordTypeOK
<1>2. place \in [Threads -> Places]
  BY <1>1 DEF ConnTypeOK
<1>3. \A th \in Threads : place[th].of \in Processes \cup {None}
  BY <1>2 DEF Places
<1> QED
  BY <1>1, <1>2, <1>3 DEF ConnTypeOK, Connection

(* A thread inside request() is in the request step of a call. *)
LEMMA Inside ==
    ASSUME CoordTypeOK, NEW th \in Threads, ~In(th, "out")
    PROVE  /\ call[th].step = "request"
           /\ CurrentDrone(th) \in Drones
           /\ Line(th) \in Requests
           /\ Current(th) \in TaskIds
           /\ Current(th) \in 1..MaxTasks
<1>1. call[th].step = "request"
  BY DEF CoordTypeOK
<1>2. call[th].todo # {}
  BY <1>1 DEF CoordTypeOK, CallOK
<1> QED
  BY <1>1, <1>2, CallTask, CurrentTask

LEMMA UsesBusy ==
    ASSUME NEW th \in Threads, NEW p, Uses(th, p)
    PROVE  Busy(th) /\ ~In(th, "out") /\ ~In(th, "close") /\ ~In(th, "clear")
           /\ ~In(th, "write") /\ ~In(th, "connect")
BY DEF Uses, Busy, In

LEMMA BoxShort ==
    ASSUME CoordTypeOK, NEW p \in Processes, LinkOK(p)
    PROVE  Short(p)
<1>1. CASE ~ssh[p].alive
  BY <1>1 DEF LinkOK
<1>2. CASE Empty(p)
  BY <1>2 DEF Empty, Short
<1>3. ASSUME NEW th \in Threads, Uses(th, p), ssh[p].alive PROVE Short(p)
  <2>1. Line(th) \in Requests
    BY <1>3, UsesBusy, Inside
  <2> QED
    BY <1>3, <2>1 DEF LinkOK, Asked, Told, Short
<1> QED
  BY <1>1, <1>2, <1>3 DEF LinkOK

LEMMA LinkKept ==
    ASSUME NEW p \in Processes, LinkOK(p), ssh'[p] = ssh[p],
           \A th \in Threads : Uses(th, p)' <=> Uses(th, p),
           \A th \in Threads : Uses(th, p) =>
               CurrentDrone(th)' = CurrentDrone(th) /\ Line(th)' = Line(th),
           \A d \in Drones : process'[d] = p => process[d] = p
    PROVE  LinkOK(p)'
BY DEF LinkOK, Empty, Asked, Told, Short

LEMMA LinkDead ==
    ASSUME NEW p \in Processes, Short(p),
           ssh'[p].inbox \in {<< >>, ssh[p].inbox}, ~ssh'[p].alive
    PROVE  LinkOK(p)'
BY DEF LinkOK, Short

LEMMA LinkUnused ==
    ASSUME NEW p \in Processes, \A th \in Threads : ~Uses(th, p)',
           Empty(p)', \A d \in Drones : process'[d] = p => ssh'[p].drone = d
    PROVE  LinkOK(p)'
BY DEF LinkOK, Short, Empty

(* Nobody waits for a reply, before and after. *)
LEMMA LinksIdle ==
    ASSUME Links, \A th \in Threads : ~Busy(th) /\ ~Busy(th)',
           ssh' = ssh,
           \A d \in Drones : process'[d] \in {process[d], None}
    PROVE  Links'
<1>1. ASSUME NEW th \in Threads, NEW p PROVE ~Uses(th, p) /\ ~Uses(th, p)'
  BY DEF Busy, Uses
<1> QED
  BY <1>1, LinkKept DEF Links

(* The connections, the threads and the tasks stay as they are. *)
LEMMA LinksStay ==
    ASSUME Links, UNCHANGED <<process, ssh, place, call, tasks>>
    PROVE  Links'
<1>1. ASSUME NEW th \in Threads
      PROVE  /\ CurrentDrone(th)' = CurrentDrone(th) /\ Line(th)' = Line(th)
             /\ \A p : Uses(th, p)' <=> Uses(th, p)
  BY DEF CurrentDrone, Current, Line, Uses, In
<1> QED
  BY <1>1, LinkKept DEF Links

(* Connections end, or lose their last lines. *)
LEMMA LinksEnd ==
    ASSUME CoordTypeOK, Links, UNCHANGED <<process, place, call, tasks>>,
           \A p \in Processes : \/ ssh'[p] = ssh[p]
                                \/ ssh'[p] \in {Gone, Closed(ssh[p])}
    PROVE  Links'
<1>1. ASSUME NEW th \in Threads
      PROVE  /\ CurrentDrone(th)' = CurrentDrone(th) /\ Line(th)' = Line(th)
             /\ \A p : Uses(th, p)' <=> Uses(th, p)
  BY DEF CurrentDrone, Current, Line, Uses, In
<1>2. ASSUME NEW p \in Processes PROVE LinkOK(p)'
  <2>1. CASE ssh'[p] = ssh[p]
    BY <1>1, <2>1, LinkKept DEF Links
  <2>2. CASE ssh'[p] \in {Gone, Closed(ssh[p])}
    <3>1. ssh'[p].inbox \in {<< >>, ssh[p].inbox} /\ ~ssh'[p].alive
      BY <2>2, Ends
    <3>2. Short(p)
      BY BoxShort DEF Links
    <3> QED
      BY <3>1, <3>2, LinkDead
  <2> QED
    BY <2>1, <2>2
<1> QED
  BY <1>2 DEF Links

(* What an agent answers a line with goes to the thread that has sent it,
   or nowhere. *)
LEMMA LineServed ==
    ASSUME CoordTypeOK, Links, NEW p \in Processes,
           NEW reply \in Replies, Answer(p, reply)
    PROVE  /\ Head(ssh[p].inbox) \in Requests
           /\ ssh[p].inbox = <<Head(ssh[p].inbox)>>
           /\ \A q \in Processes \ {p} : ssh'[q] = ssh[q]
           /\ ssh'[p].inbox = << >>
           /\ UNCHANGED <<process, place>>
           /\ \/ ~ssh[p].alive /\ ssh'[p] = Gone
              \/ \E th \in Threads :
                    /\ ssh[p].alive /\ ssh'[p].alive
                    /\ ssh'[p].drone = ssh[p].drone
                    /\ Uses(th, p) /\ Head(ssh[p].inbox) = Line(th)
                    /\ Told(p, reply)'
<1> DEFINE request == Head(ssh[p].inbox)
<1>1. /\ ssh \in [Processes -> Connection] /\ ssh[p].inbox # << >>
      /\ \A q \in Processes : ssh[q].alive \/ ssh[q].outbox = << >>
  BY Conns DEF Answer
<1>3. request \in Requests /\ ssh[p].inbox = <<request>>
  <2>1. PICK r \in Requests : ssh[p].inbox = <<r>>
    BY <1>1, BoxShort DEF Links, Short
  <2> QED
    BY <2>1, OneLine
<1>4. /\ ssh'[p] = Answered(ssh[p], reply)
      /\ \A q \in Processes \ {p} : ssh'[q] = ssh[q]
      /\ UNCHANGED <<process, place>>
  BY <1>1 DEF Answer
<1>5. Tail(ssh[p].inbox) = << >>
  BY <1>3, OneLine
<1>6. CASE ~ssh[p].alive
  <2>1. ssh'[p] = Gone
    BY <1>4, <1>5, <1>6 DEF Answered, Rest
  <2> QED
    BY <1>3, <1>4, <1>6, <2>1, Ends
<1>7. CASE ssh[p].alive
  <2>1. PICK th \in Threads : Uses(th, p)
    BY <1>1, <1>7 DEF Links, LinkOK, Empty
  <2>2. Asked(th, p)
    BY <1>1, <1>7, <2>1 DEF Links, LinkOK, Told
  <2>3. request = Line(th)
    BY <2>2, OneLine DEF Asked
  <2>4. ssh'[p] = [drone |-> ssh[p].drone, alive |-> TRUE, inbox |-> << >>,
                   outbox |-> <<reply>>]
    BY <1>4, <1>5, <1>7, <2>2, OneLine DEF Answered, Rest, Asked
  <2>5. /\ ssh'[p].alive /\ ssh'[p].drone = ssh[p].drone
        /\ ssh'[p].inbox = << >> /\ Told(p, reply)'
    BY <2>4 DEF Told
  <2> QED
    BY <1>3, <1>4, <1>7, <2>1, <2>3, <2>5
<1> QED
  BY <1>6, <1>7

(* The reply that the thread reads is the one it is owed. *)
LEMMA ReplyRead ==
    ASSUME CoordTypeOK, Links, NEW th \in Threads, ReadLine(th)
    PROVE  /\ Reply(th) \in Replies
           /\ In(th, "wait") /\ In(th, "out")'
           /\ UNCHANGED process
           /\ \E p \in Processes :
                 /\ p = place[th].of
                 /\ Uses(th, p) /\ ssh[p].alive /\ Told(p, Reply(th))
                 /\ ssh'[p].alive /\ ssh'[p].drone = ssh[p].drone
                 /\ Empty(p)'
                 /\ \A q \in Processes \ {p} : ssh'[q] = ssh[q]
<1>1. /\ ssh \in [Processes -> Connection]
      /\ place \in [Threads -> Places]
      /\ \A q \in Processes : ssh[q].alive \/ ssh[q].outbox = << >>
  BY Conns
<1>2. PICK p \in Processes : p = place[th].of
  BY Conns DEF ReadLine
<1>3. Uses(th, p) /\ ssh[p].alive /\ ssh[p].outbox # << >>
  BY <1>1, <1>2 DEF ReadLine, Uses
<1>4. PICK reply \in Replies : Told(p, reply)
  BY <1>3 DEF Links, LinkOK, Asked
<1>5. Reply(th) = reply /\ Tail(ssh[p].outbox) = << >>
  BY <1>2, <1>4, OneLine DEF Reply, Told
<1>6. /\ ssh'[p] = [ssh[p] EXCEPT !.outbox = Tail(@)]
      /\ \A q \in Processes \ {p} : ssh'[q] = ssh[q]
  BY <1>1, <1>2 DEF ReadLine
<1>7. ssh'[p].alive /\ ssh'[p].drone = ssh[p].drone /\ Empty(p)'
  BY <1>1, <1>3, <1>4, <1>5, <1>6 DEF Empty, Told, Connection, Connections
<1>8. In(th, "wait") /\ In(th, "out")' /\ UNCHANGED process
  BY <1>1 DEF ReadLine, Leave, Enter, In
<1> QED
  BY <1>2, <1>3, <1>4, <1>5, <1>6, <1>7, <1>8

(* What a step inside request() does to the connections. *)
LEMMA LinksProceed ==
    ASSUME CoordTypeOK, Links, OneThread, NEW th \in Threads, Requesting(th)
    PROVE  Links'
<1> DEFINE d == CurrentDrone(th)
<1>1. /\ process \in [Drones -> Processes \cup {None}]
      /\ ssh \in [Processes -> Connection]
      /\ place \in [Threads -> Places]
      /\ \A q \in Processes : ssh[q].alive \/ ssh[q].outbox = << >>
  BY Conns
<1>2. ~In(th, "out")
  BY DEF Requesting, Proceed, Connect, WriteLine, WriteRefused, BeginRead,
         ReadEnd, Terminate, In
<1>3. d \in Drones
  BY <1>2, Inside
<1>4. \A other \in Threads : other = th
  BY DEF OneThread
<1>5. UNCHANGED <<call, tasks>>
  BY DEF Requesting, fleetVars
<1>6. d' = d /\ Line(th)' = Line(th)
  BY <1>5 DEF CurrentDrone, Current, Line
<1>7. ASSUME NEW q \in Processes, ~Uses(th, q), ~Uses(th, q)',
             ssh'[q] = ssh[q],
             \A e \in Drones : process'[e] = q => process[e] = q
      PROVE  LinkOK(q)'
  BY <1>4, <1>7, LinkKept DEF Links
<1>8. ASSUME NEW step, Enter(th, step) PROVE place'[th].step = step
  BY <1>1, <1>8 DEF Enter
<1>9. CASE Connect(th, d, Reachable(d))
  <2>1. PICK p \in Processes :
           /\ p \in Free
           /\ process' = [process EXCEPT ![d] = p]
           /\ ssh' = [ssh EXCEPT ![p] = IF Reachable(d) THEN Opened(d)
                                        ELSE Gone]
    BY <1>9 DEF Connect, Free
  <2>2. \A e \in Drones : process[e] # p
    BY <2>1 DEF Free, InUse
  <2>3. ~Busy(th) /\ ~Busy(th)'
    BY <1>8, <1>9 DEF Connect, Busy, In
  <2>4. \A q : ~Uses(th, q) /\ ~Uses(th, q)'
    BY <2>3 DEF Uses, Busy
  <2>5. LinkOK(p)'
    <3>1. ssh'[p] \in {Opened(d), Gone}
      BY <1>1, <2>1
    <3>2. CASE ssh'[p] = Gone
      BY <1>4, <2>4, <3>2, Ends DEF LinkOK, Short
    <3>3. CASE ssh'[p] = Opened(d)
      <4>1. Empty(p)' /\ ssh'[p].drone = d
        BY <3>3 DEF Opened, Empty
      <4>2. \A e \in Drones : process'[e] = p => e = d
        BY <1>1, <2>1, <2>2
      <4> QED
        BY <1>4, <2>4, <4>1, <4>2, LinkUnused
    <3> QED
      BY <3>1, <3>2, <3>3
  <2>6. ASSUME NEW q \in Processes \ {p} PROVE LinkOK(q)'
    <3>1. ssh'[q] = ssh[q]
      BY <1>1, <2>1
    <3>2. \A e \in Drones : process'[e] = q => process[e] = q
      BY <1>1, <2>1
    <3> QED
      BY <1>7, <2>4, <3>1, <3>2
  <2> QED
    BY <2>5, <2>6 DEF Links
<1>10. CASE WriteLine(th, d, Line(th))
  <2>1. PICK p \in Processes : p = process[d] /\ ssh[p].alive
    BY <1>1, <1>3, <1>10 DEF WriteLine, Alive
  <2>2. In(th, "write") /\ In(th, "read")'
    BY <1>8, <1>10 DEF WriteLine, In
  <2>3. \A q : /\ ~Uses(th, q)
               /\ Uses(th, q)' <=> q = p
    BY <1>6, <1>10, <2>1, <2>2 DEF WriteLine, Uses, In
  <2>4. Empty(p)
    BY <1>4, <2>1, <2>3 DEF Links, LinkOK
  <2>5. /\ ssh'[p] = [ssh[p] EXCEPT !.inbox = Append(@, Line(th))]
        /\ \A q \in Processes \ {p} : ssh'[q] = ssh[q]
        /\ process' = process
    BY <1>1, <1>10, <2>1 DEF WriteLine
  <2>6. ssh'[p].alive /\ Asked(th, p)' /\ ssh'[p].drone = ssh[p].drone
    BY <1>1, <1>6, <2>1, <2>4, <2>5, OneLine
       DEF Empty, Asked, Connection, Connections
  <2>7. \A e \in Drones : process'[e] = p => ssh'[p].drone = e
    BY <2>1, <2>5, <2>6 DEF Links, LinkOK
  <2>8. LinkOK(p)'
    BY <1>3, <1>4, <1>6, <2>1, <2>3, <2>5, <2>6, <2>7 DEF LinkOK
  <2> QED
    BY <1>7, <2>3, <2>5, <2>8 DEF Links
<1>11. CASE WriteRefused(th, d)
  <2>1. ~Busy(th) /\ ~Busy(th)'
    BY <1>8, <1>11 DEF WriteRefused, Busy, In
  <2> QED
    BY <1>4, <1>11, <2>1, LinksIdle DEF WriteRefused
<1>12. CASE BeginRead(th, d)
  <2>1. process' = process /\ ssh' = ssh
    BY <1>12 DEF BeginRead
  <2>2. ASSUME NEW q \in Processes PROVE Uses(th, q)' <=> Uses(th, q)
    <3>1. In(th, "read") /\ ~In(th, "wait")
      BY <1>12 DEF BeginRead, In
    <3>2. CASE process[d] = None
      <4>1. ~Busy(th)'
        BY <1>8, <1>12, <3>2 DEF BeginRead, Busy, In
      <4> QED
        BY <3>1, <3>2, <4>1 DEF Uses, Busy
    <3>3. CASE process[d] # None
      <4>1. place'[th] = [step |-> "wait", of |-> process[d]]
        BY <1>1, <1>12, <3>3 DEF BeginRead
      <4> QED
        BY <3>1, <4>1 DEF Uses, In
    <3> QED
      BY <3>2, <3>3
  <2> QED
    BY <1>4, <1>6, <2>1, <2>2, LinkKept DEF Links
<1>13. CASE ReadEnd(th)
  <2>1. PICK p \in Processes : p = place[th].of /\ In(th, "wait")
    BY <1>13, Conns DEF ReadEnd
  <2>2. ~ssh[p].alive
    BY <1>13, <2>1 DEF ReadEnd, Alive
  <2>3. ~Busy(th)' /\ UNCHANGED <<process, ssh>>
    BY <1>8, <1>13 DEF ReadEnd, Busy, In
  <2>4. \A q : /\ ~Uses(th, q)'
               /\ Uses(th, q) => q = p
    BY <2>1, <2>3 DEF Uses, Busy, In
  <2>5. LinkOK(p)'
    BY <2>2, <2>3, BoxShort, LinkDead DEF Links
  <2> QED
    BY <1>7, <2>3, <2>4, <2>5 DEF Links
<1>14. CASE Terminate(th, d)
  <2>1. PICK p \in Processes : p = process[d]
    BY <1>1, <1>3, <1>14 DEF Terminate
  <2>2. /\ ssh'[p] = Closed(ssh[p])
        /\ \A q \in Processes \ {p} : ssh'[q] = ssh[q]
        /\ process' = process
    BY <1>1, <1>14, <2>1 DEF Terminate
  <2>3. ~Busy(th) /\ ~Busy(th)'
    BY <1>8, <1>14 DEF Terminate, Busy, In
  <2>4. LinkOK(p)'
    <3>1. Short(p)
      BY BoxShort DEF Links
    <3>2. ssh'[p].inbox \in {<< >>, ssh[p].inbox} /\ ~ssh'[p].alive
      BY <2>2, Ends
    <3> QED
      BY <3>1, <3>2, LinkDead
  <2>5. \A q : ~Uses(th, q) /\ ~Uses(th, q)'
    BY <2>3 DEF Uses, Busy
  <2> QED
    BY <1>7, <2>2, <2>4, <2>5 DEF Links
<1> QED
  BY <1>9, <1>10, <1>11, <1>12, <1>13, <1>14 DEF Requesting, Proceed

(* Steps that leave the connections alone are taken outside request(). *)
LEMMA ConnsApart ==
    ASSUME CoordTypeOK, NEW th \in Threads,
           \/ StartCall(th)
           \/ Reserve(th) \/ Poll(th) \/ SkipTask(th) \/ EndLoop(th)
           \/ FailLaunch(th) \/ RecordCancelled(th)
    PROVE  /\ UNCHANGED <<process, ssh, place, unit, faults>>
           /\ In(th, "out") \/ UNCHANGED <<call, tasks>>
<1>1. CASE StartCall(th)
  <2>1. Idle(th) => In(th, "out")
    BY DEF CoordTypeOK, Idle, NoCall, NewCall
  <2> QED
    BY <1>1, <2>1 DEF StartCall, RegisterByGateway, SubmitJob, BeginDispatch,
       BeginReconcile, BeginCancel, Begin, connVars
<1>2. CASE \/ Reserve(th) \/ Poll(th) \/ SkipTask(th) \/ EndLoop(th)
           \/ FailLaunch(th) \/ RecordCancelled(th)
  <2>1. call[th].step # "request"
    BY <1>2 DEF Reserve, Poll, SkipTask, EndLoop, FailLaunch,
                RecordCancelled, AtNext, At
  <2>2. In(th, "out")
    BY <2>1 DEF CoordTypeOK
  <2> QED
    BY <1>2, <2>2 DEF Reserve, Poll, SkipTask, EndLoop, FailLaunch,
                RecordCancelled, connVars
<1> QED
  BY <1>1, <1>2

LEMMA LinksStep == OneThread /\ CoordTypeOK /\ Links /\ [Next]_vars => Links'
<1> SUFFICES ASSUME OneThread, CoordTypeOK, Links, [Next]_vars
             PROVE  Links'
  OBVIOUS
<1>1. CASE UNCHANGED <<process, ssh, place, call, tasks>>
  BY <1>1, LinksStay
<1>2. ASSUME NEW th \in Threads,
             \/ StartCall(th)
             \/ Reserve(th) \/ Poll(th) \/ SkipTask(th) \/ EndLoop(th)
             \/ FailLaunch(th) \/ RecordCancelled(th)
      PROVE  Links'
  <2>1. /\ UNCHANGED <<process, ssh, place>>
        /\ In(th, "out") \/ UNCHANGED <<call, tasks>>
    BY <1>2, ConnsApart
  <2>2. CASE In(th, "out")
    <3>1. \A other \in Threads : ~Busy(other) /\ ~Busy(other)'
      BY <2>1, <2>2 DEF OneThread, Busy, In
    <3> QED
      BY <2>1, <3>1, LinksIdle
  <2> QED
    BY <1>1, <2>1, <2>2
<1>3. ASSUME NEW th \in Threads, SendRequest(th) \/ RequestRaised(th)
      PROVE  Links'
  <2>1. /\ ssh' = ssh
        /\ \A d \in Drones : process'[d] \in {process[d], None}
    BY <1>3, Conns DEF SendRequest, BeginRequest, RequestRaised, Raise,
                       NoProcess, Clear
  <2>2. ~Busy(th)
    BY <1>3 DEF SendRequest, BeginRequest, RequestRaised, Raise, NoProcess,
                Clear, Busy, In
  <2>3. PICK step \in {"out", "connect", "write"} : Enter(th, step)
    BY <1>3 DEF SendRequest, BeginRequest, RequestRaised, Raise, NoProcess,
                Clear, Leave
  <2>4. ~Busy(th)'
    BY <2>3, Conns DEF Enter, Busy, In
  <2> QED
    BY <2>1, <2>2, <2>4, LinksIdle DEF OneThread
<1>4. ASSUME NEW th \in Threads, ReadLine(th) PROVE Links'
  <2>1. PICK p \in Processes :
           /\ p = place[th].of
           /\ Uses(th, p) /\ ssh[p].alive
           /\ ssh'[p].alive /\ ssh'[p].drone = ssh[p].drone
           /\ Empty(p)'
           /\ \A q \in Processes \ {p} : ssh'[q] = ssh[q]
    BY <1>4, ReplyRead
  <2>2. /\ process' = process /\ In(th, "wait") /\ In(th, "out")'
        /\ \A other \in Threads : other = th
    BY <1>4, ReplyRead DEF OneThread
  <2>3. \A q : ~Uses(th, q)' /\ (Uses(th, q) => q = p)
    BY <2>1, <2>2 DEF Uses, In
  <2>4. \A d \in Drones : process'[d] = p => ssh'[p].drone = d
    BY <2>1, <2>2 DEF Links, LinkOK
  <2>5. LinkOK(p)'
    BY <2>1, <2>2, <2>3, <2>4, LinkUnused
  <2>6. ASSUME NEW q \in Processes \ {p} PROVE LinkOK(q)'
    BY <2>1, <2>2, <2>3, LinkKept DEF Links
  <2> QED
    BY <2>5, <2>6 DEF Links
<1>5. ASSUME NEW th \in Threads, Step(th) PROVE Links'
  BY <1>2, <1>3, <1>4, <1>5, LinksProceed
     DEF Step, Launched, StillRunning, RecordOutcome, Stopped, GetReply
<1>6. ASSUME NEW p \in Processes, Serve(p) PROVE Links'
  <2>0. PICK reply \in Replies : Answer(p, reply)
    BY <1>6, ServeAnswers
  <2>1. /\ \A q \in Processes \ {p} : ssh'[q] = ssh[q]
        /\ UNCHANGED <<process, place, call, tasks>>
    BY <1>6, <2>0, LineServed DEF Serve, fleetVars
  <2>2. CASE ~ssh[p].alive /\ ssh'[p] = Gone
    BY <2>1, <2>2, LinksEnd
  <2>3. ASSUME NEW th \in Threads, ssh[p].alive, ssh'[p].alive,
               ssh'[p].drone = ssh[p].drone,
               Uses(th, p), Told(p, reply)'
        PROVE  Links'
    <3>1. \A other \in Threads : other = th
      BY DEF OneThread
    <3>2. /\ CurrentDrone(th)' = CurrentDrone(th)
          /\ Line(th)' = Line(th)
          /\ \A q : Uses(th, q)' <=> Uses(th, q)
      BY <2>1 DEF CurrentDrone, Current, Line, Uses, In
    <3>3. LinkOK(p)'
      BY <2>1, <2>3, <3>1, <3>2 DEF Links, LinkOK
    <3> QED
      BY <2>1, <3>1, <3>2, <3>3, LinkKept DEF Links
  <2> QED
    BY <2>0, <2>2, <2>3, LineServed
<1>7. ASSUME NEW p \in Processes, Wither(p) \/ Disconnect(p) PROVE Links'
  <2>1. \A q \in Processes : \/ ssh'[q] = ssh[q]
                             \/ ssh'[q] \in {Gone, Closed(ssh[q])}
    BY <1>7, Conns DEF Wither, Disconnect, Lose, Retire, Break
  <2> QED
    BY <1>7, <2>1, LinksEnd
       DEF Wither, Disconnect, Lose, Retire, Break, fleetVars
<1>8. ASSUME NEW d \in Drones, DroneDown(d) PROVE Links'
  <2>1. \A q \in Processes : ssh'[q] = ssh[q] \/ ssh'[q] = Gone
    BY <1>8 DEF DroneDown, LoseAgents
  <2> QED
    BY <1>8, <2>1, LinksEnd
       DEF DroneDown, LoseAgents, fleetVars
<1>9. CASE Restart
  <2>1. ASSUME NEW p \in Processes PROVE LinkOK(p)'
    <3>1. ssh'[p] = Closed(ssh[p])
      BY <1>9 DEF Restart, Reset
    <3>2. Short(p)
      BY BoxShort DEF Links
    <3> QED
      BY <3>1, <3>2, Ends, LinkDead
  <2> QED
    BY <2>1 DEF Links
<1>10. ASSUME \/ \E t \in TaskIds : Exit(t)
              \/ \E d \in Drones : \E offer \in Offers[d] :
                    RegisterByDashboard(d, offer)
       PROVE  Links'
  BY <1>1, <1>10 DEF Exit, RegisterByDashboard, RegisterDrone, fleetVars,
                     connVars
<1>11. CASE UNCHANGED vars
  BY <1>1, <1>11 DEF vars, connVars
<1> QED
  BY <1>2, <1>5, <1>6, <1>7, <1>8, <1>9, <1>10, <1>11 DEF Next

-----------------------------------------------------------------------------
(* The launch line of a task *)

Carries(p, t) == ssh[p].inbox = <<[op |-> "dispatch", task |-> t]>>

NotSent(t) == \A p \in Processes : ~Carries(p, t)

Dispatching(th) == At(th, "dispatch", "request")

Unsent(th) == In(th, "out") \/ In(th, "connect") \/ In(th, "write")

(* There is one line at most, and none once the task has a unit. *)
LineOnce(t) ==
    \A p \in Processes : Carries(p, t) =>
        /\ unit[t] = "none"
        /\ \A q \in Processes : Carries(q, t) => q = p

DispatchOK(th) ==
    Dispatching(th) =>
        /\ tasks[Current(th)].status = "running"
        /\ Unsent(th) => unit[Current(th)] = "none" /\ NotSent(Current(th))
        /\ \A p \in Processes, reply \in Replies :
              Uses(th, p) /\ ssh[p].alive /\ Told(p, reply) =>
                  /\ NotSent(Current(th))
                  /\ ~reply.ok => unit[Current(th)] = "none"

Lines == /\ \A t \in 1..MaxTasks : LineOnce(t)
         /\ \A th \in Threads : DispatchOK(th)

(* The inductive invariant of this section. *)
LinesInv == LaunchInv /\ Links /\ Lines

LEMMA LineOnceKept ==
    ASSUME NEW t, LineOnce(t),
           \A p \in Processes : Carries(p, t)' => Carries(p, t),
           unit[t] = "none" => unit'[t] = "none"
    PROVE  LineOnce(t)'
BY DEF LineOnce

LEMMA DispatchKept ==
    ASSUME NEW th \in Threads, DispatchOK(th),
           call'[th] = call[th], tasks' = tasks,
           Unsent(th)' => Unsent(th),
           \A p \in Processes : Uses(th, p)' /\ ssh'[p].alive =>
               Uses(th, p) /\ ssh'[p] = ssh[p],
           \A p \in Processes :
               Carries(p, Current(th))' => Carries(p, Current(th)),
           unit[Current(th)] = "none" => unit'[Current(th)] = "none"
    PROVE  DispatchOK(th)'
<1>1. Current(th)' = Current(th)
  BY DEF Current
<1>2. Dispatching(th)' <=> Dispatching(th)
  BY DEF Dispatching, At
<1>3. NotSent(Current(th)) => NotSent(Current(th))'
  BY <1>1 DEF NotSent, Carries
<1> QED
  BY <1>1, <1>2, <1>3 DEF DispatchOK, Told

LEMMA NoDispatch ==
    ASSUME NEW th, ~Dispatching(th)'
    PROVE  DispatchOK(th)'
BY DEF DispatchOK

LEMMA CarriesEnd ==
    ASSUME NEW p, ssh'[p].inbox \in {<< >>, ssh[p].inbox}
    PROVE  \A t : Carries(p, t)' => Carries(p, t)
<1>1. \A t : <<[op |-> "dispatch", task |-> t]>> # << >>
  BY OneLine
<1> QED
  BY <1>1 DEF Carries

LEMMA CarriesSent ==
    ASSUME NEW p \in Processes, NEW t, Carries(p, t)
    PROVE  LaunchSent(t)
<1> DEFINE line == [op |-> "dispatch", task |-> t]
<1>1. ssh[p].inbox = <<line>>
  BY DEF Carries
<1>2. 1 \in DOMAIN <<line>> /\ <<line>>[1] = line
  OBVIOUS
<1> HIDE DEF line
<1>3. 1 \in DOMAIN ssh[p].inbox /\ ssh[p].inbox[1] = line
  BY <1>1, <1>2
<1> QED
  BY <1>3 DEF LaunchSent, line

LEMMA UpdatedRow ==
    ASSUME CoordTypeOK, NEW t \in TaskIds, NEW status \in Statuses,
           UpdateTask(t, status)
    PROVE  /\ TaskIds' = TaskIds
           /\ status \in Transitions[tasks[t].status]
           /\ tasks[t].status \in {"queued", "running"}
           /\ tasks'[t].status = status
           /\ tasks'[t].mode = tasks[t].mode
           /\ \A u \in TaskIds \ {t} : tasks'[u] = tasks[u]
<1>1. FleetTypeOK /\ tasks[t] \in TaskRow
  BY DEF CoordTypeOK, FleetTypeOK, TaskIds
<1>2. /\ TaskIds' = TaskIds
      /\ tasks'[t] = TaskAfter(tasks[t], status)
      /\ \A u \in TaskIds \ {t} : tasks'[u] = tasks[u]
  BY <1>1, UpdateShape
<1>3. /\ TaskAfter(tasks[t], status).status = status
      /\ TaskAfter(tasks[t], status).mode = tasks[t].mode
  BY <1>1 DEF TaskAfter, TaskRow
<1>4. \A s \in Statuses : Transitions[s] # {} => s \in {"queued", "running"}
  BY DEF Transitions, Statuses
<1>5. tasks[t].status \in Statuses
  BY <1>1 DEF TaskRow
<1> QED
  BY <1>2, <1>3, <1>4, <1>5 DEF UpdateTask, CanUpdate

(* The task whose slot has just been reserved has never been launched. *)
LEMMA Reserved ==
    ASSUME LaunchInv, NEW th \in Threads, Reserve(th)
    PROVE  /\ Current(th) \in TaskIds
           /\ Current(th) \in 1..MaxTasks
           /\ Current(th)' = Current(th)
           /\ TaskIds' = TaskIds
           /\ tasks[Current(th)].status = "queued"
           /\ tasks'[Current(th)].status = "running"
           /\ tasks'[Current(th)].mode = tasks[Current(th)].mode
           /\ \A u \in TaskIds \ {Current(th)} : tasks'[u] = tasks[u]
           /\ unit[Current(th)] = "none"
           /\ NotSent(Current(th))
<1>1. CoordTypeOK /\ call \in [Threads -> Calls]
  BY DEF LaunchInv, CoordTypeOK
<1>2. /\ call[th].todo # {}
      /\ UpdateTask(Current(th), "running")
      /\ Goto(th, "request")
  BY DEF Reserve, AtNext, At
<1>3. PICK t \in TaskIds : t = Current(th) /\ t \in 1..MaxTasks
  BY <1>1, <1>2, CurrentTask
<1>4. UpdateTask(t, "running") /\ "running" \in Statuses
  BY <1>2, <1>3 DEF Statuses
<1>5. /\ TaskIds' = TaskIds
      /\ "running" \in Transitions[tasks[t].status]
      /\ tasks[t].status \in {"queued", "running"}
      /\ tasks'[t].status = "running"
      /\ tasks'[t].mode = tasks[t].mode
      /\ \A u \in TaskIds \ {t} : tasks'[u] = tasks[u]
  BY <1>1, <1>4, UpdatedRow
<1>6. tasks[t].status = "queued"
  BY <1>5 DEF Transitions, Statuses
<1>7. unit[t] = "none" /\ ~LaunchSent(t)
  BY <1>3, <1>6 DEF LaunchInv, TouchedOnlyReserved, Touched, Past
<1>8. Current(th)' = Current(th)
  BY <1>1, <1>2 DEF Goto, Current, Calls
<1> QED
  BY <1>3, <1>5, <1>6, <1>7, <1>8, CarriesSent DEF NotSent

(* Where the calls go. *)
LEMMA Moves ==
    ASSUME CoordTypeOK, NEW th \in Threads
    PROVE  /\ \A step : Goto(th, step) =>
                /\ call'[th].step = step
                /\ call'[th].op = call[th].op
                /\ call'[th].todo = call[th].todo
                /\ Current(th)' = Current(th)
           /\ \A spent : NextTask(th, spent) => call'[th].step = "next"
           /\ Return(th) => call'[th].step = "next"
<1>1. call \in [Threads -> Calls]
  BY DEF CoordTypeOK
<1>2. ASSUME NEW step, Goto(th, step)
      PROVE  /\ call'[th].step = step
             /\ call'[th].op = call[th].op
             /\ call'[th].todo = call[th].todo
  BY <1>1, <1>2 DEF Goto, Calls
<1>3. ASSUME NEW step, Goto(th, step) PROVE Current(th)' = Current(th)
  BY <1>2, <1>3 DEF Current
<1>4. ASSUME NEW spent, NextTask(th, spent) PROVE call'[th].step = "next"
  BY <1>1, <1>4 DEF NextTask, Calls
<1>5. ASSUME Return(th) PROVE call'[th].step = "next"
  BY <1>1, <1>5 DEF Return, NoCall, NewCall
<1> QED
  BY <1>2, <1>3, <1>4, <1>5

(* Outside request(), a call comes to dispatch by Reserve only. *)
LEMMA DispatchByReserve ==
    ASSUME CoordTypeOK, NEW th \in Threads, Dispatching(th)',
           \/ StartCall(th) /\ Idle(th)
           \/ Reserve(th) \/ Poll(th) \/ SkipTask(th) \/ EndLoop(th)
           \/ FailLaunch(th) \/ RecordCancelled(th)
    PROVE  Reserve(th)
<1>1. [Next]_vars
  BY DEF Next, Step
<1>2. PICK t : t = Current(th)'
  OBVIOUS
<1>3. Launches(th, t)'
  BY <1>2 DEF Dispatching, At, Launches
<1>4. Launches(th, t) \/ Reserve(th)
  BY <1>1, <1>3, LaunchesStep
<1>5. ASSUME Launches(th, t), ~Reserve(th) PROVE FALSE
  <2>1. call[th].op = "dispatch" /\ call[th].step # "next"
    BY <1>5 DEF Launches
  <2>2. FailLaunch(th)
    BY <1>5, <2>1 DEF Idle, NoCall, NewCall, Poll, SkipTask, EndLoop,
       RecordCancelled, AtNext, At
  <2> QED
    BY <2>2, Moves DEF FailLaunch, Dispatching, At
<1> QED
  BY <1>4, <1>5

(* A request that ends leaves no dispatch. *)
LEMMA RequestOver ==
    ASSUME CoordTypeOK, NEW th \in Threads,
           \/ Launched(th) \/ StillRunning(th) \/ RecordOutcome(th)
           \/ Stopped(th) \/ RequestRaised(th)
    PROVE  ~Dispatching(th)' /\ UNCHANGED <<unit, faults>>
BY Moves DEF Launched, StillRunning, RecordOutcome, Stopped, RequestRaised,
             Dispatching, At

LEMMA LinesApart ==
    ASSUME OneThread, LinesInv, NEW th \in Threads,
           \/ StartCall(th) /\ Idle(th)
           \/ Reserve(th) \/ Poll(th) \/ SkipTask(th) \/ EndLoop(th)
           \/ FailLaunch(th) \/ RecordCancelled(th)
    PROVE  Lines'
<1>1. CoordTypeOK
  BY DEF LinesInv, LaunchInv
<1>2. /\ UNCHANGED <<process, ssh, place, unit, faults>>
      /\ \A p, t : Carries(p, t)' <=> Carries(p, t)
      /\ \A t : NotSent(t)' <=> NotSent(t)
  <2>1. UNCHANGED <<process, ssh, place, unit, faults>>
    BY <1>1, ConnsApart
  <2> QED
    BY <2>1 DEF Carries, NotSent
<1>3. ASSUME NEW t \in 1..MaxTasks PROVE LineOnce(t)'
  BY <1>2, LineOnceKept DEF LinesInv, Lines
<1>4. In(th, "out")
  <2>1. call[th].step # "request"
    BY DEF Idle, NoCall, NewCall, Reserve, Poll, SkipTask, EndLoop,
           FailLaunch, RecordCancelled, AtNext, At
  <2> QED
    BY <1>1, <2>1 DEF CoordTypeOK
<1>5. DispatchOK(th)'
  <2> SUFFICES ASSUME Dispatching(th)' PROVE DispatchOK(th)'
    BY NoDispatch
  <2>1. Reserve(th)
    BY <1>1, DispatchByReserve
  <2>2. PICK t \in TaskIds : t = Current(th)
    BY <2>1, Reserved DEF LinesInv
  <2>3. /\ Current(th)' = t
        /\ tasks'[t].status = "running"
        /\ unit'[t] = "none"
        /\ NotSent(t)'
    BY <1>2, <2>1, <2>2, Reserved DEF LinesInv
  <2>4. \A p : ~Uses(th, p)'
    BY <1>2, <1>4 DEF Uses, In
  <2> QED
    BY <2>3, <2>4 DEF DispatchOK
<1> QED
  BY <1>3, <1>5 DEF Lines, OneThread

(* The launch is written: this is its only line. *)
LEMMA LinesWritten ==
    ASSUME OneThread, LinesInv, NEW th \in Threads, Requesting(th),
           WriteLine(th, CurrentDrone(th), Line(th))
    PROVE  \E p \in Processes :
             /\ p = process[CurrentDrone(th)]
             /\ ssh[p].alive /\ ssh'[p].alive
             /\ \A q : ~Uses(th, q) /\ (Uses(th, q)' <=> q = p)
             /\ ssh'[p].inbox = <<Line(th)>>
             /\ \A q \in Processes \ {p} : ssh'[q] = ssh[q]
             /\ \A q \in Processes : \A t : Carries(q, t)' =>
                   \/ Carries(q, t)
                   \/ q = p /\ Dispatching(th) /\ t = Current(th)
<1> DEFINE d == CurrentDrone(th)
<1>1. /\ CoordTypeOK
      /\ process \in [Drones -> Processes \cup {None}]
      /\ ssh \in [Processes -> Connection]
      /\ place \in [Threads -> Places]
  BY Conns DEF LinesInv, LaunchInv
<1>2. In(th, "write") /\ call[th].step = "request"
  BY DEF WriteLine, Requesting
<1>3. d \in Drones /\ d' = d
  <2>1. ~In(th, "out")
    BY <1>2 DEF In
  <2> QED
    BY <1>1, <2>1, Inside DEF Requesting, CurrentDrone, Current, fleetVars
<1>4. PICK p \in Processes : p = process[d] /\ ssh[p].alive
  BY <1>1, <1>3 DEF WriteLine, Alive
<1>5. /\ ssh'[p] = [ssh[p] EXCEPT !.inbox = Append(@, Line(th))]
      /\ \A q \in Processes \ {p} : ssh'[q] = ssh[q]
      /\ process' = process
      /\ In(th, "read")'
  BY <1>1, <1>4 DEF WriteLine, Enter, In
<1>6. \A q : ~Uses(th, q) /\ (Uses(th, q)' <=> q = p)
  BY <1>2, <1>3, <1>4, <1>5 DEF Uses, In
<1>7. Empty(p)
  BY <1>4, <1>6 DEF OneThread, LinesInv, Links, LinkOK
<1>8. ssh'[p].alive /\ ssh'[p].inbox = <<Line(th)>>
  BY <1>1, <1>4, <1>5, <1>7, OneLine DEF Empty, Connection, Connections
<1>9. ASSUME NEW t, Carries(p, t)'
      PROVE  Dispatching(th) /\ t = Current(th)
  <2> DEFINE line == [op |-> "dispatch", task |-> t]
             request == Line(th)
  <2>1. <<request>> = <<line>>
    BY <1>8, <1>9 DEF Carries
  <2>2. request = line
    <3> HIDE DEF line, request
    <3> QED
      BY <2>1, OneLine
  <2>3. Line(th).op = "dispatch" /\ Line(th).task = t
    BY <2>2
  <2> QED
    BY <1>2, <2>3 DEF Line, Dispatching, At
<1>10. \A q \in Processes \ {p} : \A t : Carries(q, t)' => Carries(q, t)
  BY <1>5 DEF Carries
<1>11. ASSUME NEW q \in Processes, NEW t, Carries(q, t)'
       PROVE  \/ Carries(q, t)
              \/ q = p /\ Dispatching(th) /\ t = Current(th)
  BY <1>9, <1>10, <1>11
<1> QED
  BY <1>4, <1>5, <1>6, <1>8, <1>11

LEMMA LinesRequest ==
    ASSUME OneThread, LinesInv, NEW th \in Threads,
           SendRequest(th) \/ Requesting(th)
    PROVE  Lines'
<1> DEFINE d == CurrentDrone(th)
<1>1. /\ CoordTypeOK
      /\ process \in [Drones -> Processes \cup {None}]
      /\ ssh \in [Processes -> Connection]
      /\ place \in [Threads -> Places]
  BY Conns DEF LinesInv, LaunchInv
<1>2. UNCHANGED <<call, tasks, unit, faults>>
  BY DEF SendRequest, Requesting, fleetVars
<1>3. Current(th)' = Current(th) /\ d' = d
  BY <1>2 DEF Current, CurrentDrone
<1>4. ASSUME NEW step, Enter(th, step) PROVE place'[th].step = step
  BY <1>1, <1>4 DEF Enter
<1>5. ASSUME Unsent(th)' => Unsent(th),
             \A p \in Processes : Uses(th, p)' /\ ssh'[p].alive =>
                 Uses(th, p) /\ ssh'[p] = ssh[p],
             \A p \in Processes : \A t : Carries(p, t)' => Carries(p, t)
      PROVE  Lines'
  <2>1. \A p \in Processes :
           Carries(p, Current(th))' => Carries(p, Current(th))
    BY <1>3, <1>5 DEF Carries
  <2>3. DispatchOK(th)'
    BY <1>2, <1>5, <2>1, DispatchKept DEF LinesInv, Lines
  <2>2. ASSUME NEW t \in 1..MaxTasks PROVE LineOnce(t)'
    BY <1>2, <1>5, LineOnceKept DEF LinesInv, Lines
  <2> QED
    BY <2>2, <2>3 DEF Lines, OneThread
<1>6. CASE SendRequest(th)
  <2>1. In(th, "out") /\ ssh' = ssh
    BY <1>6 DEF SendRequest, BeginRequest
  <2>2. \A p, t : Carries(p, t)' => Carries(p, t)
    BY <2>1 DEF Carries
  <2>3. place'[th].step \in {"connect", "write"}
    BY <1>4, <1>6 DEF SendRequest, BeginRequest
  <2>4. \A p : ~Uses(th, p)'
    BY <2>3 DEF Uses, In
  <2> QED
    BY <1>5, <2>1, <2>2, <2>4 DEF Unsent
<1>7. CASE Requesting(th) /\ Connect(th, d, Reachable(d))
  <2>1. PICK p \in Processes :
           ssh' = [ssh EXCEPT ![p] = IF Reachable(d) THEN Opened(d) ELSE Gone]
    BY <1>7 DEF Connect, Free
  <2>2. ASSUME NEW q \in Processes, NEW t, Carries(q, t)'
        PROVE  Carries(q, t)
    <3>1. \/ ssh'[q] = ssh[q] \/ ssh'[q] = Gone \/ ssh'[q] = Opened(d)
      BY <1>1, <2>1
    <3>2. ssh'[q].inbox \in {<< >>, ssh[q].inbox}
      BY <3>1 DEF Gone, Opened
    <3> QED
      BY <2>2, <3>2, CarriesEnd
  <2>3. place'[th].step = "write" /\ In(th, "connect")
    BY <1>4, <1>7 DEF Connect
  <2>4. \A q : ~Uses(th, q)'
    BY <2>3 DEF Uses, In
  <2> QED
    BY <1>5, <2>2, <2>3, <2>4 DEF Unsent
<1>8. CASE Requesting(th) /\ WriteLine(th, d, Line(th))
  <2>1. PICK p \in Processes :
             /\ ssh[p].alive /\ ssh'[p].alive
             /\ \A q : ~Uses(th, q) /\ (Uses(th, q)' <=> q = p)
             /\ ssh'[p].inbox = <<Line(th)>>
             /\ \A q \in Processes : \A t : Carries(q, t)' =>
                   \/ Carries(q, t)
                   \/ q = p /\ Dispatching(th) /\ t = Current(th)
    BY <1>8, LinesWritten
  <2>2. In(th, "write") /\ In(th, "read")'
    BY <1>4, <1>8 DEF WriteLine, In
  <2>3. ASSUME NEW t \in 1..MaxTasks PROVE LineOnce(t)'
    <3>1. CASE Dispatching(th) /\ t = Current(th)
      <4>1. unit[t] = "none" /\ NotSent(t)
        BY <2>2, <3>1 DEF LinesInv, Lines, DispatchOK, Unsent
      <4> QED
        BY <1>2, <2>1, <4>1 DEF LineOnce, NotSent
    <3>2. CASE ~(Dispatching(th) /\ t = Current(th))
      BY <1>2, <2>1, <3>2, LineOnceKept DEF LinesInv, Lines
    <3> QED
      BY <3>1, <3>2
  <2>4. ~Unsent(th)'
    BY <2>2 DEF Unsent, In
  <2>5. \A reply : ~Told(p, reply)'
    <3>1. <<Line(th)>> # << >>
      BY OneLine
    <3> QED
      BY <2>1, <3>1 DEF Told
  <2>6. DispatchOK(th)'
    <3>1. Dispatching(th)' => tasks'[Current(th)'].status = "running"
      BY <1>2, <1>3 DEF LinesInv, Lines, DispatchOK, Dispatching, At
    <3> QED
      BY <2>1, <2>4, <2>5, <3>1 DEF DispatchOK
  <2> QED
    BY <2>3, <2>6 DEF Lines, OneThread
<1>9. CASE Requesting(th) /\ (WriteRefused(th, d) \/ ReadEnd(th))
  <2>1. ssh' = ssh
    BY <1>9 DEF WriteRefused, ReadEnd
  <2>2. \A p, t : Carries(p, t)' => Carries(p, t)
    BY <2>1 DEF Carries
  <2>3. place'[th].step = "close"
    BY <1>4, <1>9 DEF WriteRefused, ReadEnd
  <2>4. ~Unsent(th)' /\ \A p : ~Uses(th, p)'
    BY <2>3 DEF Unsent, Uses, In
  <2> QED
    BY <1>5, <2>2, <2>4
<1>10. CASE Requesting(th) /\ BeginRead(th, d)
  <2>1. UNCHANGED <<process, ssh>> /\ In(th, "read")
    BY <1>10 DEF BeginRead
  <2>2. \A p, t : Carries(p, t)' => Carries(p, t)
    BY <2>1 DEF Carries
  <2>3. \/ process[d] = None /\ place'[th].step = "close"
        \/ place'[th] = [step |-> "wait", of |-> process[d]]
    BY <1>1, <1>4, <1>10 DEF BeginRead
  <2>4. ~Unsent(th)'
    BY <2>3 DEF Unsent, In
  <2>5. \A p \in Processes : Uses(th, p)' => Uses(th, p)
    BY <2>1, <2>3 DEF Uses, In
  <2> QED
    BY <1>5, <2>1, <2>2, <2>4, <2>5
<1>11. CASE Requesting(th) /\ Terminate(th, d)
  <2>1. \A q \in Processes : ssh'[q] \in {ssh[q], Closed(ssh[q])}
    BY <1>1, <1>11 DEF Terminate
  <2>2. \A q \in Processes : ssh'[q].inbox \in {<< >>, ssh[q].inbox}
    BY <2>1, Ends
  <2>3. \A p \in Processes : \A t : Carries(p, t)' => Carries(p, t)
    BY <2>2, CarriesEnd
  <2>4. place'[th].step = "clear"
    BY <1>4, <1>11 DEF Terminate
  <2>5. ~Unsent(th)' /\ \A p : ~Uses(th, p)'
    BY <2>4 DEF Unsent, Uses, In
  <2> QED
    BY <1>5, <2>3, <2>5
<1> QED
  BY <1>6, <1>7, <1>8, <1>9, <1>10, <1>11 DEF Requesting, Proceed

(* The request returns or raises. *)
LEMMA LinesOver ==
    ASSUME OneThread, LinesInv, NEW th \in Threads,
           \/ Launched(th) \/ StillRunning(th) \/ RecordOutcome(th)
           \/ Stopped(th) \/ RequestRaised(th)
    PROVE  /\ Lines'
           /\ \A p \in Processes : \A t : Carries(p, t)' => Carries(p, t)
<1>1. CoordTypeOK /\ Links
  BY DEF LinesInv, LaunchInv
<1>2. ~Dispatching(th)' /\ unit' = unit
  BY <1>1, RequestOver
<1>3. \A p \in Processes : \A t : Carries(p, t)' => Carries(p, t)
  <2>1. CASE ReadLine(th)
    <3>1. PICK p \in Processes :
             /\ Empty(p)'
             /\ \A q \in Processes \ {p} : ssh'[q] = ssh[q]
      BY <1>1, <2>1, ReplyRead
    <3>2. \A q \in Processes : ssh'[q].inbox \in {<< >>, ssh[q].inbox}
      BY <3>1 DEF Empty
    <3> QED
      BY <3>2, CarriesEnd
  <2>2. CASE RequestRaised(th)
    BY <2>2 DEF RequestRaised, Raise, NoProcess, Clear, Carries
  <2> QED
    BY <2>1, <2>2 DEF Launched, StillRunning, RecordOutcome, Stopped, GetReply
<1>4. DispatchOK(th)'
  BY <1>2, NoDispatch
<1>5. ASSUME NEW t \in 1..MaxTasks PROVE LineOnce(t)'
  BY <1>2, <1>3, LineOnceKept DEF LinesInv, Lines
<1> QED
  BY <1>3, <1>4, <1>5 DEF Lines, OneThread

(* What serving a line does to the unit of its task, and what is said of
   it.  To launch or to end a unit is an agent's business alone. *)
Effect(op, t, reply) ==
    \/ /\ op = "dispatch" /\ reply.ok
       /\ unit'[t] = UnitName(t, tasks[t].mode)
       /\ faults' = faults
    \/ /\ op = "dispatch" /\ ~reply.ok
       /\ unit'[t] = unit[t]
       /\ faults' = faults
    \/ /\ op = "reconcile"
       /\ reply.active = "inactive" => unit[t] \notin {"active", "failed"}
       /\ unit'[t] = unit[t]
       /\ faults' = faults
    \/ /\ op = "cancel"
       /\ unit'[t] = IF unit[t] = "active" THEN "stopped" ELSE unit[t]
       /\ faults' = faults
    \/ /\ op = "cancel"
       /\ unit'[t] = unit[t]
       /\ faults' = faults + 1

LEMMA ServeShape ==
    ASSUME CoordTypeOK, Links, NEW p \in Processes, Serve(p)
    PROVE  \E op \in Ops, t \in 1..MaxTasks, reply \in Replies :
             /\ Head(ssh[p].inbox) = [op |-> op, task |-> t]
             /\ ssh[p].inbox = <<[op |-> op, task |-> t]>>
             /\ Answer(p, reply)
             /\ Effect(op, t, reply)
             /\ \A u \in 1..MaxTasks \ {t} : unit'[u] = unit[u]
             /\ UNCHANGED <<drones, tasks, transports, call, off>>
<1> DEFINE request == Head(ssh[p].inbox)
<1>1. request \in Requests /\ ssh[p].inbox = <<request>>
  BY ServeAnswers, LineServed
<1>2. PICK op \in Ops, t \in 1..MaxTasks : request = [op |-> op, task |-> t]
  BY <1>1 DEF Requests
<1>3. request.op = op /\ request.task = t
  BY <1>2
<1>4. unit \in [1..MaxTasks -> UnitStates]
  BY DEF CoordTypeOK
<1>5. /\ Plain(TRUE) \in Replies /\ Plain(FALSE) \in Replies
      /\ StatusReply(t) \in Replies
      /\ Plain(TRUE).ok = TRUE /\ Plain(FALSE).ok = FALSE
      /\ StatusReply(t).active = "inactive"
           => unit[t] \notin {"active", "failed"}
  BY <1>4 DEF Plain, StatusReply, ActiveState, Replies, UnitStates
<1>6. \E reply \in Replies :
         /\ Answer(p, reply)
         /\ Effect(op, t, reply)
         /\ \A u \in 1..MaxTasks \ {t} : unit'[u] = unit[u]
  <2>1. CASE /\ op = "dispatch" /\ Launch(t, tasks[t].mode)
             /\ Answer(p, Plain(TRUE)) /\ UNCHANGED faults
    BY <1>4, <1>5, <2>1 DEF Effect, Launch
  <2>2. CASE /\ op = "dispatch" /\ UNCHANGED <<unit, faults>>
             /\ Answer(p, Plain(FALSE))
    BY <1>5, <2>2 DEF Effect
  <2>3. CASE /\ op = "reconcile" /\ UNCHANGED <<unit, faults>>
             /\ Answer(p, StatusReply(t))
    BY <1>5, <2>3 DEF Effect
  <2>4. CASE /\ op = "cancel" /\ Cancel(t)
             /\ Answer(p, Plain(TRUE)) /\ UNCHANGED faults
    BY <1>4, <1>5, <2>4 DEF Effect, Cancel
  <2>5. CASE /\ op = "cancel" /\ Fault("stop") /\ UNCHANGED unit
             /\ Answer(p, Plain(TRUE))
    BY <1>5, <2>5 DEF Effect, Fault
  <2> QED
    BY <1>3, <2>1, <2>2, <2>3, <2>4, <2>5 DEF Serve, CancelFailed
<1> QED
  BY <1>1, <1>2, <1>6 DEF Serve, fleetVars

LEMMA UsesOne ==
    ASSUME NEW th, NEW p, NEW q, Uses(th, p), Uses(th, q)
    PROVE  p = q
BY DEF Uses, In

LEMMA LinesServe ==
    ASSUME OneThread, LinesInv, NEW p \in Processes, Serve(p)
    PROVE  Lines'
<1>1. CoordTypeOK /\ Links
  BY DEF LinesInv, LaunchInv
<1>2. PICK op \in Ops, t \in 1..MaxTasks, reply \in Replies :
         /\ Head(ssh[p].inbox) = [op |-> op, task |-> t]
         /\ ssh[p].inbox = <<[op |-> op, task |-> t]>>
         /\ Answer(p, reply)
         /\ Effect(op, t, reply)
         /\ \A u \in 1..MaxTasks \ {t} : unit'[u] = unit[u]
         /\ UNCHANGED <<drones, tasks, transports, call, off>>
  BY <1>1, ServeShape
<1>3. /\ \A q \in Processes \ {p} : ssh'[q] = ssh[q]
      /\ ssh'[p].inbox = << >>
      /\ UNCHANGED <<process, place>>
  BY <1>1, <1>2, LineServed
<1>4. /\ \A q \in Processes : ssh'[q].inbox \in {<< >>, ssh[q].inbox}
      /\ \A q \in Processes : \A u : Carries(q, u)' => Carries(q, u)
      /\ \A u : ~Carries(p, u)'
  <2>1. \A q \in Processes : ssh'[q].inbox \in {<< >>, ssh[q].inbox}
    BY <1>3
  <2>2. \A u : <<[op |-> "dispatch", task |-> u]>> # << >>
    BY OneLine
  <2> QED
    BY <1>3, <2>1, <2>2, CarriesEnd DEF Carries
<1>5. /\ op = "dispatch" => Carries(p, t)
      /\ \A u \in 1..MaxTasks :
            \/ Carries(p, u)
            \/ unit[u] = "none" => unit'[u] = "none"
  BY <1>2 DEF Effect, Carries
<1>6. ASSUME NEW u \in 1..MaxTasks, Carries(p, u) PROVE NotSent(u)'
  BY <1>4, <1>6 DEF NotSent, LinesInv, Lines, LineOnce
<1>7. ASSUME NEW u \in 1..MaxTasks PROVE LineOnce(u)'
  <2>1. CASE Carries(p, u)
    BY <1>6, <2>1 DEF LineOnce, NotSent
  <2>2. CASE unit[u] = "none" => unit'[u] = "none"
    BY <1>4, <2>2, LineOnceKept DEF LinesInv, Lines
  <2> QED
    BY <1>5, <2>1, <2>2
<1>8. ASSUME NEW th \in Threads PROVE DispatchOK(th)'
  <2> SUFFICES ASSUME Dispatching(th)' PROVE DispatchOK(th)'
    BY NoDispatch
  <2> DEFINE c == Current(th)
  <2>1. /\ Dispatching(th) /\ Current(th)' = c
        /\ CurrentDrone(th)' = CurrentDrone(th)
        /\ c \in 1..MaxTasks /\ tasks[c].status = "running"
    <3>1. Dispatching(th) /\ Current(th)' = c
             /\ CurrentDrone(th)' = CurrentDrone(th)
      BY <1>2 DEF Dispatching, At, Current, CurrentDrone
    <3>2. call[th].todo # {}
      BY <1>1, <3>1 DEF Dispatching, At, CoordTypeOK, CallOK
    <3> QED
      BY <1>1, <3>1, <3>2, CurrentTask DEF LinesInv, Lines, DispatchOK
  <2>2. (Unsent(th)' <=> Unsent(th)) /\ \A q : Uses(th, q)' <=> Uses(th, q)
    BY <1>3, <2>1 DEF Unsent, Uses, In
  <2>3. CASE ~ssh[p].alive /\ ssh'[p] = Gone
    <3>1. ASSUME NEW q \in Processes, ssh'[q].alive
          PROVE  ssh'[q] = ssh[q]
      BY <1>3, <2>3, <3>1, Ends
    <3>2. CASE Carries(p, c)
      <4>1. ~NotSent(c)
        BY <3>2 DEF NotSent
      <4>2. /\ ~Unsent(th)
            /\ \A q \in Processes, r \in Replies :
                  ~(Uses(th, q) /\ ssh[q].alive /\ Told(q, r))
        BY <2>1, <4>1 DEF LinesInv, Lines, DispatchOK
      <4> QED
        BY <1>2, <2>1, <2>2, <3>1, <4>2 DEF DispatchOK, Told
    <3>3. CASE unit[c] = "none" => unit'[c] = "none"
      <4>1. \A q \in Processes : Carries(q, Current(th))' =>
               Carries(q, Current(th))
        BY <1>4, <2>1 DEF Carries
      <4> QED
        BY <1>2, <2>2, <3>1, <3>3, <4>1, DispatchKept DEF LinesInv, Lines
    <3> QED
      BY <1>5, <2>1, <3>2, <3>3
  <2>4. ASSUME Uses(th, p), Head(ssh[p].inbox) = Line(th), Told(p, reply)'
        PROVE  DispatchOK(th)'
    <3>1. op = "dispatch" /\ t = c
      <4>1. Line(th).op = op /\ Line(th).task = t
        BY <1>2, <2>4
      <4> QED
        BY <2>1, <4>1 DEF Line, Dispatching, At
    <3>2. Carries(p, c) /\ unit[c] = "none" /\ NotSent(c)'
      BY <1>5, <1>6, <2>1, <3>1 DEF LinesInv, Lines, LineOnce
    <3>3. ~Unsent(th)'
      BY <2>2, <2>4, UsesBusy DEF Unsent
    <3>4. ASSUME NEW q \in Processes, NEW r \in Replies,
                 Uses(th, q)', Told(q, r)'
          PROVE  r = reply
      <4>1. q = p
        BY <2>2, <2>4, <3>4, UsesOne
      <4>2. <<r>> = <<reply>>
        BY <2>4, <3>4, <4>1 DEF Told
      <4> QED
        BY <4>2, OneLine
    <3>5. ~reply.ok => unit'[c] = "none"
      BY <1>2, <3>1, <3>2 DEF Effect
    <3>6. NotSent(Current(th))'
      BY <2>1, <3>2 DEF NotSent, Carries
    <3> QED
      BY <1>2, <2>1, <3>3, <3>4, <3>5, <3>6 DEF DispatchOK
  <2> QED
    BY <1>1, <1>2, <2>3, <2>4, LineServed DEF OneThread
<1> QED
  BY <1>7, <1>8 DEF Lines

(* Connections end, units end or are lost; nobody acts. *)
LEMMA LinesFade ==
    ASSUME LinesInv, UNCHANGED <<process, place, call, tasks>>,
           \A q \in Processes : \/ ssh'[q] = ssh[q]
                                \/ ssh'[q] \in {Gone, Closed(ssh[q])},
           \A u \in 1..MaxTasks : unit[u] = "none" => unit'[u] = "none"
    PROVE  Lines'
<1>1. CoordTypeOK
  BY DEF LinesInv, LaunchInv
<1>2. \A q \in Processes : /\ ssh'[q].inbox \in {<< >>, ssh[q].inbox}
                           /\ ssh'[q].alive => ssh'[q] = ssh[q]
  BY Ends
<1>3. \A q \in Processes : \A u : Carries(q, u)' => Carries(q, u)
  BY <1>2, CarriesEnd
<1>4. ASSUME NEW u \in 1..MaxTasks PROVE LineOnce(u)'
  BY <1>3, LineOnceKept DEF LinesInv, Lines
<1>5. ASSUME NEW th \in Threads PROVE DispatchOK(th)'
  <2> SUFFICES ASSUME Dispatching(th)' PROVE DispatchOK(th)'
    BY NoDispatch
  <2>1. /\ Current(th)' = Current(th)
        /\ CurrentDrone(th)' = CurrentDrone(th)
        /\ Dispatching(th)
    BY DEF Current, CurrentDrone, Dispatching, At
  <2>2. call[th].todo # {}
    BY <1>1, <2>1 DEF Dispatching, At, CoordTypeOK, CallOK
  <2>3. Current(th) \in 1..MaxTasks
    BY <1>1, <2>2, CurrentTask
  <2>4. (Unsent(th)' <=> Unsent(th)) /\ \A q : Uses(th, q)' <=> Uses(th, q)
    BY <2>1 DEF Unsent, Uses, In
  <2>5. \A q \in Processes : Carries(q, Current(th))' =>
           Carries(q, Current(th))
    BY <1>3, <2>1 DEF Carries
  <2> QED
    BY <1>2, <2>3, <2>4, <2>5, DispatchKept DEF LinesInv, Lines
<1> QED
  BY <1>4, <1>5 DEF Lines

LEMMA LinesStep ==
    OneThread /\ LinesInv /\ [Next]_vars => LinesInv'
<1> SUFFICES ASSUME OneThread, LinesInv, [Next]_vars PROVE LinesInv'
  OBVIOUS
<1>1. CoordTypeOK /\ unit \in [1..MaxTasks -> UnitStates]
  BY DEF LinesInv, LaunchInv, CoordTypeOK
<1>2. LaunchInv' /\ Links'
  BY <1>1, LaunchStep, LinksStep DEF LinesInv
<1>3. ASSUME UNCHANGED <<process, place, ssh, call, tasks, unit>>
      PROVE  Lines'
  <2>1. UNCHANGED <<process, place, call, tasks>>
    BY <1>3
  <2>2. \A q \in Processes : ssh'[q] = ssh[q]
    BY <1>3
  <2>3. \A u \in 1..MaxTasks : unit[u] = "none" => unit'[u] = "none"
    BY <1>3
  <2> QED
    BY <2>1, <2>2, <2>3, LinesFade
<1>4. ASSUME NEW th \in Threads, StartCall(th) PROVE Lines'
  <2>1. CASE Idle(th)
    BY <1>4, <2>1, LinesApart
  <2> QED
    BY <1>4, <2>1 DEF StartCall, RegisterByGateway, SubmitJob, BeginDispatch,
       BeginReconcile, BeginCancel, Begin
<1>5. ASSUME NEW th \in Threads, Step(th) PROVE Lines'
  BY <1>5, LinesApart, LinesRequest, LinesOver DEF Step
<1>6. ASSUME NEW p \in Processes, Serve(p) PROVE Lines'
  BY <1>6, LinesServe
<1>7. ASSUME NEW p \in Processes, Wither(p) \/ Disconnect(p) PROVE Lines'
  <2>1. \A q \in Processes : \/ ssh'[q] = ssh[q]
                             \/ ssh'[q] \in {Gone, Closed(ssh[q])}
    BY <1>1, <1>7, Conns DEF Wither, Disconnect, Lose, Retire, Break
  <2> QED
    BY <1>7, <2>1, LinesFade
       DEF Wither, Disconnect, Lose, Retire, Break, fleetVars
<1>8. ASSUME NEW d \in Drones, DroneDown(d) PROVE Lines'
  <2>1. \A q \in Processes : ssh'[q] = ssh[q] \/ ssh'[q] = Gone
    BY <1>8 DEF DroneDown, LoseAgents
  <2>2. \A u \in 1..MaxTasks : unit[u] = "none" => unit'[u] = "none"
    BY <1>8 DEF DroneDown, LoseUnits
  <2> QED
    BY <1>8, <2>1, <2>2, LinesFade
       DEF DroneDown, LoseAgents, fleetVars
<1>9. ASSUME NEW t \in TaskIds, Exit(t) PROVE Lines'
  <2>1. \A u \in 1..MaxTasks : unit[u] = "none" => unit'[u] = "none"
    BY <1>1, <1>9 DEF Exit, UnitExit
  <2> QED
    BY <1>9, <2>1, LinesFade DEF Exit, fleetVars, connVars
<1>10. ASSUME Restart PROVE Lines'
  <2>1. \A q \in Processes : ssh'[q].inbox \in {<< >>, ssh[q].inbox}
    BY <1>10, Ends DEF Restart, Reset
  <2>2. \A q \in Processes : \A u : Carries(q, u)' => Carries(q, u)
    BY <2>1, CarriesEnd
  <2>3. unit' = unit /\ \A th \in Threads : ~Dispatching(th)'
    BY <1>10 DEF Restart, Dispatching, At, NoCall, NewCall
  <2>4. \A u \in 1..MaxTasks : LineOnce(u)'
    BY <2>2, <2>3, LineOnceKept DEF LinesInv, Lines
  <2>5. \A th \in Threads : DispatchOK(th)'
    BY <2>3, NoDispatch
  <2> QED
    BY <2>4, <2>5 DEF Lines
<1>11. ASSUME NEW d \in Drones, NEW offer \in Offers[d],
              RegisterByDashboard(d, offer)
       PROVE  Lines'
  BY <1>3, <1>11 DEF RegisterByDashboard, RegisterDrone, connVars
<1>12. ASSUME UNCHANGED vars PROVE Lines'
  BY <1>3, <1>12 DEF vars, connVars
<1>13. Lines'
  BY <1>4, <1>5, <1>6, <1>7, <1>8, <1>9, <1>10, <1>11, <1>12 DEF Next
<1> QED
  BY <1>2, <1>13 DEF LinesInv

-----------------------------------------------------------------------------
(* Commands without a task *)

Late(t) == \E p \in Processes : ~ssh[p].alive /\ Carries(p, t)

(* A reply on which the thread will end the task. *)
Final(op, reply) == \/ op = "cancel"
                    \/ op = "reconcile" /\ reply.active = "inactive"

(* The launch will raise. *)
Abandoned(th) ==
    /\ Dispatching(th)
    /\ \/ In(th, "close") \/ In(th, "clear")
       \/ Busy(th) /\ \A p \in Processes : Uses(th, p) => ~ssh[p].alive

(* The thread is about to end its task, whatever the unit does by then. *)
Doomed(th) ==
    \/ At(th, "dispatch", "fail")
    \/ At(th, "cancel", "update")
    \/ Abandoned(th)
    \/ \E p \in Processes, reply \in Replies :
          /\ Uses(th, p) /\ ssh[p].alive /\ Told(p, reply)
          /\ Final(call[th].op, reply)

Adrift(t) ==
    \/ Late(t)
    \/ /\ unit[t] = "active"
       /\ \/ tasks[t].status # "running"
          \/ \E th \in Threads : Doomed(th) /\ Current(th) = t

(* What runs, or may come to run, without a task that is recorded running
   and stays so.  Each of these has been paid for by a fault. *)
Loose == {t \in TaskIds : Adrift(t)}

LooseBounded == Cardinality(Loose) <= faults

(* What a step does: nothing more comes loose, or one task and a fault. *)
Steady == Loose' \subseteq Loose /\ faults' = faults

OneMore == /\ faults' = faults + 1
           /\ \A t, u \in Loose' \ Loose : t = u

LEMMA TasksInRange ==
    ASSUME CoordTypeOK
    PROVE  /\ TaskIds \subseteq 1..MaxTasks
           /\ IsFiniteSet(Loose)
           /\ faults \in Nat
<1>1. Len(tasks) \in Nat /\ Len(tasks) <= MaxTasks /\ faults \in Nat
  BY DEF CoordTypeOK, FleetTypeOK
<1>2. TaskIds \subseteq 1..MaxTasks
  BY <1>1, MaxTasksAssumption DEF TaskIds
<1>3. IsFiniteSet(1..MaxTasks)
  BY FS_Interval, MaxTasksAssumption
<1>4. Loose \subseteq 1..MaxTasks
  BY <1>2 DEF Loose
<1> QED
  BY <1>1, <1>2, <1>3, <1>4, FS_Subset

LEMMA LooseGrows ==
    ASSUME CoordTypeOK, CoordTypeOK', LooseBounded, Steady \/ OneMore
    PROVE  LooseBounded'
<1>1. /\ IsFiniteSet(Loose) /\ IsFiniteSet(Loose') /\ faults \in Nat
      /\ Cardinality(Loose) \in Nat /\ Cardinality(Loose') \in Nat
  <2>1. IsFiniteSet(Loose) /\ faults \in Nat
    BY TasksInRange
  <2>2. IsFiniteSet(Loose')
    <3>1. Len(tasks)' \in Nat /\ Len(tasks)' <= MaxTasks
      BY DEF CoordTypeOK, FleetTypeOK
    <3>2. TaskIds' \subseteq 1..MaxTasks
      BY <3>1, MaxTasksAssumption DEF TaskIds
    <3>3. Loose' \subseteq 1..MaxTasks
      BY <3>2 DEF Loose
    <3>4. IsFiniteSet(1..MaxTasks)
      BY FS_Interval, MaxTasksAssumption
    <3> QED
      BY <3>3, <3>4, FS_Subset
  <2> QED
    BY <2>1, <2>2, FS_CardinalityType
<1>2. CASE Loose' \subseteq Loose
  <2>1. Cardinality(Loose') <= Cardinality(Loose)
    BY <1>1, <1>2, FS_Subset
  <2>2. faults <= faults'
    BY <1>1 DEF Steady, OneMore
  <2>3. faults' \in Nat
    BY <1>1 DEF Steady, OneMore
  <2> QED
    BY <1>1, <2>1, <2>2, <2>3 DEF LooseBounded
<1>3. ASSUME NEW t \in Loose' \ Loose, OneMore PROVE LooseBounded'
  <2>1. Loose' \subseteq Loose \cup {t}
    BY <1>3 DEF OneMore
  <2>2. /\ IsFiniteSet(Loose \cup {t})
        /\ Cardinality(Loose \cup {t}) = Cardinality(Loose) + 1
    BY <1>1, <1>3, FS_AddElement
  <2>3. Cardinality(Loose') <= Cardinality(Loose) + 1
    BY <2>1, <2>2, FS_Subset
  <2> QED
    BY <1>1, <1>3, <2>3 DEF LooseBounded, OneMore
<1> QED
  BY <1>2, <1>3 DEF Steady

(* A task that is still queued, or does not exist, has no unit and no line
   in transit. *)
LEMMA Untouched ==
    ASSUME LaunchInv, NEW t \in 1..MaxTasks,
           unit[t] = "active" \/ Late(t)
    PROVE  t \in TaskIds /\ tasks[t].status # "queued"
<1>1. LaunchSent(t) \/ unit[t] # "none"
  BY CarriesSent DEF Late
<1> QED
  BY <1>1 DEF LaunchInv, TouchedOnlyReserved, Touched, Past

LEMMA LooseApart ==
    ASSUME OneThread, LinesInv, NEW th \in Threads,
           \/ StartCall(th) /\ Idle(th)
           \/ Reserve(th) \/ Poll(th) \/ SkipTask(th) \/ EndLoop(th)
           \/ FailLaunch(th) \/ RecordCancelled(th)
    PROVE  Steady
<1>1. /\ LaunchInv /\ CoordTypeOK /\ FleetTypeOK
      /\ call \in [Threads -> Calls]
  BY DEF LinesInv, LaunchInv, CoordTypeOK
<1>2. UNCHANGED <<process, ssh, place, unit, faults>>
  BY <1>1, ConnsApart
<1>3. In(th, "out")'
  <2>1. call[th].step # "request"
    BY DEF Idle, NoCall, NewCall, Reserve, Poll, SkipTask, EndLoop,
           FailLaunch, RecordCancelled, AtNext, At
  <2> QED
    BY <1>1, <1>2, <2>1 DEF CoordTypeOK, In
<1>4. ASSUME Doomed(th)'
      PROVE  /\ tasks' = tasks
             /\ Current(th)' \in TaskIds
             /\ tasks[Current(th)'].status = "queued"
  <2>1. At(th, "dispatch", "fail")' \/ At(th, "cancel", "update")'
    <3>1. ~Busy(th)' /\ ~In(th, "close")' /\ ~In(th, "clear")'
      BY <1>3 DEF Busy, In
    <3>2. \A p : ~Uses(th, p)'
      BY <3>1 DEF Uses, Busy
    <3> QED
      BY <1>4, <3>1, <3>2 DEF Doomed, Abandoned
  <2>2. call'[th].step \in {"fail", "update"}
    BY <2>1 DEF At
  <2>3. ~(Reserve(th) \/ Poll(th))
    BY <1>1, <2>2, Moves DEF Reserve, Poll
  <2>4. ~(\/ SkipTask(th) \/ FailLaunch(th) \/ RecordCancelled(th))
    BY <1>1, <2>2, Moves DEF SkipTask, FailLaunch, RecordCancelled
  <2>5. ~EndLoop(th)
    <3> SUFFICES ASSUME EndLoop(th) PROVE FALSE
      OBVIOUS
    <3>1. ~Return(th)
      BY <1>1, <2>2, Moves
    <3>2. call' = [call EXCEPT ![th] =
             NewCall("dispatch", "next", WithStatus("queued"), MaxTasks)]
      BY <3>1 DEF EndLoop
    <3> QED
      BY <1>1, <2>2, <3>2 DEF NewCall
  <2>6. StartCall(th) /\ Idle(th)
    BY <2>3, <2>4, <2>5
  <2>7. call'[th] # call[th]
    BY <2>2, <2>6 DEF Idle, NoCall, NewCall
  <2>8. ASSUME NEW step, NEW op, NEW todo, NEW quota,
               Begin(th, NewCall(op, step, todo, quota))
        PROVE  call'[th].step = step /\ call'[th].todo = todo
    BY <1>1, <2>8 DEF Begin, NewCall
  <2>9. PICK t \in TaskIds : BeginCancel(th, t)
    <3>1. ~\E limit \in Limits : BeginDispatch(th, limit)
      BY <2>2, <2>8 DEF BeginDispatch
    <3>2. ~BeginReconcile(th)
      BY <2>2, <2>8 DEF BeginReconcile
    <3> QED
      BY <2>6, <2>7, <3>1, <3>2 DEF StartCall, RegisterByGateway, SubmitJob
  <2>10. /\ tasks[t].status = "queued"
         /\ call'[th].todo = {t}
         /\ tasks' = tasks
    BY <2>2, <2>8, <2>9 DEF BeginCancel, fleetVars
  <2>11. Current(th)' = t
    BY <2>10 DEF Current, Oldest
  <2> QED
    BY <2>10, <2>11
<1>5. ASSUME NEW t \in TaskIds, tasks'[t].status # tasks[t].status,
             unit[t] = "active"
      PROVE  Adrift(t)
  <2>0. t \in 1..MaxTasks
    BY <1>1, TasksInRange
  <2>1. tasks[t].status # "queued"
    BY <1>1, <1>5, <2>0, Untouched
  <2>2. CASE StartCall(th)
    <3>1. ASSUME NEW job \in Jobs, CreateTask(job) PROVE tasks'[t] = tasks[t]
      BY <1>1, <3>1, CreateShape
    <3>2. ASSUME NEW d \in Drones, NEW offer \in Offers[d],
                 RegisterByGateway(th, d, offer)
          PROVE  tasks'[t] = tasks[t]
      BY <3>2 DEF RegisterByGateway, RegisterDrone
    <3> QED
      BY <1>5, <2>2, <3>1, <3>2 DEF StartCall, SubmitJob, BeginDispatch,
         BeginReconcile, BeginCancel, fleetVars
  <2>3. CASE Reserve(th)
    BY <1>1, <1>5, <2>1, <2>3, Reserved
  <2>4. CASE Poll(th) \/ SkipTask(th) \/ EndLoop(th)
    BY <1>5, <2>4 DEF Poll, SkipTask, EndLoop, fleetVars
  <2>5. CASE FailLaunch(th) \/ RecordCancelled(th)
    <3>1. Doomed(th) /\ call[th].step # "next"
      BY <2>5 DEF FailLaunch, RecordCancelled, Doomed, At
    <3>2. PICK u \in TaskIds : u = Current(th)
      <4>1. call[th].todo # {}
        BY <1>1, <3>1 DEF CoordTypeOK, CallOK
      <4> QED
        BY <1>1, <4>1, CurrentTask
    <3>3. PICK status \in Statuses : TryUpdate(u, status)
      BY <2>5, <3>2 DEF FailLaunch, RecordCancelled, Statuses
    <3>4. UpdateTask(u, status)
      BY <1>5, <3>3 DEF TryUpdate, fleetVars
    <3>5. t = u
      BY <1>1, <1>5, <3>4, UpdatedRow
    <3> QED
      BY <1>5, <3>1, <3>2, <3>5 DEF Adrift
  <2> QED
    BY <2>2, <2>3, <2>4, <2>5
<1>6. ASSUME NEW t \in TaskIds', Adrift(t)' PROVE t \in TaskIds /\ Adrift(t)
  <2>1. Late(t)' <=> Late(t)
    BY <1>2 DEF Late, Carries
  <2>2. t \in 1..MaxTasks
    <3>1. Len(tasks)' \in Nat /\ Len(tasks)' <= MaxTasks
      <4>1. CoordTypeOK'
        <5>1. [Next]_vars
          BY DEF Next, Step
        <5> QED
          BY <1>1, <5>1, CoordTypeStep
      <4> QED
        BY <4>1 DEF CoordTypeOK, FleetTypeOK
    <3> QED
      BY <3>1, MaxTasksAssumption DEF TaskIds
  <2>3. CASE Late(t)
    BY <1>1, <2>2, <2>3, Untouched DEF Adrift
  <2>4. ASSUME unit'[t] = "active",
               \/ tasks'[t].status # "running"
               \/ Doomed(th)' /\ Current(th)' = t
        PROVE  t \in TaskIds /\ Adrift(t)
    <3>1. unit[t] = "active" /\ t \in TaskIds /\ tasks[t].status # "queued"
      BY <1>1, <1>2, <2>2, <2>4, Untouched
    <3>2. tasks'[t].status # "running"
      BY <1>4, <2>4, <3>1
    <3> QED
      BY <1>5, <3>1, <3>2 DEF Adrift
  <2> QED
    BY <1>6, <2>1, <2>3, <2>4 DEF Adrift, OneThread
<1> QED
  BY <1>2, <1>6 DEF Steady, Loose

LEMMA LooseRequest ==
    ASSUME OneThread, LinesInv, NEW th \in Threads,
           SendRequest(th) \/ Requesting(th)
    PROVE  Steady
<1> DEFINE d == CurrentDrone(th)
           c == Current(th)
<1>1. /\ CoordTypeOK /\ Links
      /\ process \in [Drones -> Processes \cup {None}]
      /\ ssh \in [Processes -> Connection]
      /\ place \in [Threads -> Places]
  BY Conns DEF LinesInv, LaunchInv
<1>2. UNCHANGED <<call, tasks, unit, faults>>
  BY DEF SendRequest, Requesting, fleetVars
<1>3. Current(th)' = c /\ d' = d /\ (Dispatching(th)' <=> Dispatching(th))
  BY <1>2 DEF Current, CurrentDrone, Dispatching, At
<1>4. ASSUME NEW step, Enter(th, step) PROVE place'[th].step = step
  BY <1>1, <1>4 DEF Enter
<1>5. ASSUME Doomed(th)' => Doomed(th) \/ unit[c] = "none",
             \A p \in Processes : \A t :
                 Carries(p, t)' /\ ~ssh'[p].alive =>
                     Carries(p, t) /\ ~ssh[p].alive
      PROVE  Steady
  <2>1. ASSUME NEW t \in TaskIds', Adrift(t)' PROVE t \in Loose
    <3>1. t \in TaskIds
      BY <1>2 DEF TaskIds
    <3>2. Late(t)' => Late(t)
      BY <1>5 DEF Late
    <3>3. ASSUME NEW other \in Threads, Doomed(other)', Current(other)' = t,
                 unit[t] = "active"
          PROVE  Doomed(other) /\ Current(other) = t
      BY <1>3, <1>5, <3>3 DEF OneThread
    <3> QED
      BY <1>2, <2>1, <3>1, <3>2, <3>3 DEF Adrift, Loose
  <2> QED
    BY <1>2, <2>1 DEF Steady, Loose
<1>6. ASSUME Unsent(th), Dispatching(th) PROVE unit[c] = "none"
  BY <1>6 DEF LinesInv, Lines, DispatchOK
<1>7. ASSUME \A p : ~Uses(th, p)', ~Busy(th)',
             In(th, "close")' \/ In(th, "clear")' =>
                 Unsent(th) \/ In(th, "close")
                    \/ (Busy(th) /\ \A p \in Processes :
                                        Uses(th, p) => ~ssh[p].alive)
      PROVE  Doomed(th)' => Doomed(th) \/ unit[c] = "none"
  <2>1. CASE Abandoned(th)'
    BY <1>3, <1>6, <1>7, <2>1 DEF Abandoned, Doomed
  <2>2. CASE At(th, "dispatch", "fail")' \/ At(th, "cancel", "update")'
    BY <1>2, <2>2 DEF At, Doomed
  <2> QED
    BY <1>7, <2>1, <2>2 DEF Doomed
<1>8. CASE SendRequest(th)
  <2>1. ssh' = ssh
    BY <1>8 DEF SendRequest, BeginRequest
  <2>2. place'[th].step \in {"connect", "write"}
    BY <1>4, <1>8 DEF SendRequest, BeginRequest
  <2>3. (\A p : ~Uses(th, p)') /\ ~Busy(th)'
        /\ ~In(th, "close")' /\ ~In(th, "clear")'
    BY <2>2 DEF Uses, Busy, In
  <2> QED
    BY <1>5, <1>7, <2>1, <2>3 DEF Carries
<1>9. CASE Requesting(th) /\ Connect(th, d, Reachable(d))
  <2>1. PICK p \in Processes :
           ssh' = [ssh EXCEPT ![p] = IF Reachable(d) THEN Opened(d) ELSE Gone]
    BY <1>9 DEF Connect, Free
  <2>2. ASSUME NEW q \in Processes, NEW t, Carries(q, t)'
        PROVE  Carries(q, t) /\ ssh'[q] = ssh[q]
    <3>1. \/ ssh'[q] = ssh[q] \/ ssh'[q] = Gone \/ ssh'[q] = Opened(d)
      BY <1>1, <2>1
    <3>2. <<[op |-> "dispatch", task |-> t]>> # << >>
      BY OneLine
    <3> QED
      BY <2>2, <3>1, <3>2 DEF Gone, Opened, Carries
  <2>3. place'[th].step = "write"
    BY <1>4, <1>9 DEF Connect
  <2>4. (\A q : ~Uses(th, q)') /\ ~Busy(th)'
        /\ ~In(th, "close")' /\ ~In(th, "clear")'
    BY <2>3 DEF Uses, Busy, In
  <2> QED
    BY <1>5, <1>7, <2>2, <2>4
<1>10. CASE Requesting(th) /\ WriteLine(th, d, Line(th))
  <2>1. PICK p \in Processes :
             /\ ssh[p].alive /\ ssh'[p].alive
             /\ \A q : ~Uses(th, q) /\ (Uses(th, q)' <=> q = p)
             /\ ssh'[p].inbox = <<Line(th)>>
             /\ \A q \in Processes \ {p} : ssh'[q] = ssh[q]
    BY <1>10, LinesWritten
  <2>2. In(th, "read")'
    BY <1>4, <1>10 DEF WriteLine, In
  <2>3. \A reply : ~Told(p, reply)'
    <3>1. <<Line(th)>> # << >>
      BY OneLine
    <3> QED
      BY <2>1, <3>1 DEF Told
  <2>4. ~Abandoned(th)'
    BY <2>1, <2>2 DEF Abandoned, In
  <2>5. Doomed(th)' => Doomed(th)
    <3>1. At(th, "dispatch", "fail")' \/ At(th, "cancel", "update")'
             => Doomed(th)
      BY <1>2 DEF At, Doomed
    <3> QED
      BY <2>1, <2>3, <2>4, <3>1 DEF Doomed
  <2>6. \A q \in Processes : \A t :
           Carries(q, t)' /\ ~ssh'[q].alive => Carries(q, t) /\ ~ssh[q].alive
    BY <2>1 DEF Carries
  <2> QED
    BY <1>5, <2>5, <2>6
<1>11. CASE Requesting(th) /\ (WriteRefused(th, d) \/ ReadEnd(th))
  <2>1. ssh' = ssh
    BY <1>11 DEF WriteRefused, ReadEnd
  <2>2. place'[th].step = "close"
    BY <1>4, <1>11 DEF WriteRefused, ReadEnd
  <2>3. (\A p : ~Uses(th, p)') /\ ~Busy(th)'
    BY <2>2 DEF Uses, Busy, In
  <2>4. Unsent(th) \/ (Busy(th) /\ \A p \in Processes :
                                     Uses(th, p) => ~ssh[p].alive)
    <3>1. CASE WriteRefused(th, d)
      BY <3>1 DEF WriteRefused, Unsent
    <3>2. CASE ReadEnd(th)
      <4>1. In(th, "wait") /\ \A p : Uses(th, p) => p = place[th].of
        BY <3>2 DEF ReadEnd, Uses, In
      <4> QED
        BY <3>2, <4>1 DEF ReadEnd, Busy, Alive
    <3> QED
      BY <1>11, <3>1, <3>2
  <2> QED
    BY <1>5, <1>7, <2>1, <2>3, <2>4 DEF Carries
<1>12. CASE Requesting(th) /\ BeginRead(th, d)
  <2>1. UNCHANGED <<process, ssh>> /\ In(th, "read") /\ Busy(th)
    BY <1>12 DEF BeginRead, Busy
  <2>2. CASE process[d] = None
    <3>1. place'[th].step = "close"
      BY <1>4, <1>12, <2>2 DEF BeginRead
    <3>2. (\A p : ~Uses(th, p)') /\ ~Busy(th)'
      BY <3>1 DEF Uses, Busy, In
    <3>3. \A p \in Processes : ~Uses(th, p)
      BY <2>1, <2>2 DEF Uses, In
    <3> QED
      BY <1>5, <1>7, <2>1, <3>2, <3>3 DEF Carries
  <2>3. CASE process[d] # None
    <3>1. place'[th] = [step |-> "wait", of |-> process[d]]
      BY <1>1, <1>12, <2>3 DEF BeginRead
    <3>2. \A p : Uses(th, p)' <=> Uses(th, p)
      BY <2>1, <3>1 DEF Uses, In
    <3>3. ~In(th, "close")' /\ ~In(th, "clear")'
      BY <3>1 DEF In
    <3>4. Doomed(th)' => Doomed(th)
      BY <1>2, <1>3, <2>1, <3>2, <3>3 DEF Doomed, Abandoned, At, Told
    <3> QED
      BY <1>5, <2>1, <3>4 DEF Carries
  <2> QED
    BY <2>2, <2>3
<1>13. CASE Requesting(th) /\ Terminate(th, d)
  <2>1. PICK p \in Processes : p = process[d]
    BY <1>13, <1>1, Inside DEF Terminate, In
  <2>2. /\ ssh'[p] = Closed(ssh[p])
        /\ \A q \in Processes \ {p} : ssh'[q] = ssh[q]
    BY <1>1, <1>13, <2>1 DEF Terminate
  <2>3. In(th, "close") /\ place'[th].step = "clear"
    BY <1>4, <1>13 DEF Terminate
  <2>4. (\A q : ~Uses(th, q)') /\ ~Busy(th)' /\ \A q : ~Uses(th, q)
    BY <2>3 DEF Uses, Busy, In
  <2>5. ASSUME NEW t, Carries(p, t)' PROVE Carries(p, t) /\ ~ssh[p].alive
    <3>1. <<[op |-> "dispatch", task |-> t]>> # << >>
      BY OneLine
    <3>2. Carries(p, t)
      BY <2>2, <2>5, Ends, CarriesEnd
    <3>3. ~Empty(p)
      BY <3>1, <3>2 DEF Empty, Carries
    <3> QED
      BY <1>1, <2>4, <3>2, <3>3 DEF Links, LinkOK, OneThread
  <2>6. \A q \in Processes : \A t :
           Carries(q, t)' /\ ~ssh'[q].alive => Carries(q, t) /\ ~ssh[q].alive
    BY <2>2, <2>5 DEF Carries
  <2> QED
    BY <1>5, <1>7, <2>3, <2>4, <2>6
<1> QED
  BY <1>8, <1>9, <1>10, <1>11, <1>12, <1>13 DEF Requesting, Proceed

(* The reply that the thread reads, or the exception, has been foreseen. *)
LEMMA LooseOver ==
    ASSUME OneThread, LinesInv, NEW th \in Threads,
           \/ Launched(th) \/ StillRunning(th) \/ RecordOutcome(th)
           \/ Stopped(th) \/ RequestRaised(th)
    PROVE  Steady
<1> DEFINE c == Current(th)
<1>1. CoordTypeOK /\ Links
  BY DEF LinesInv, LaunchInv
<1>2. ~Dispatching(th)' /\ UNCHANGED <<unit, faults>>
  BY <1>1, RequestOver
<1>3. /\ call[th].step = "request"
      /\ \/ RequestRaised(th)
         \/ \E p \in Processes :
               /\ ReadLine(th) /\ Reply(th) \in Replies
               /\ Uses(th, p) /\ ssh[p].alive /\ Told(p, Reply(th))
  <2>1. ReadLine(th) =>
           \E p \in Processes : /\ Reply(th) \in Replies
                                /\ Uses(th, p) /\ ssh[p].alive
                                /\ Told(p, Reply(th))
    BY <1>1, ReplyRead
  <2> QED
    BY <2>1 DEF Launched, StillRunning, RecordOutcome, Stopped,
                RequestRaised, GetReply, At
<1>4. c \in TaskIds /\ c \in 1..MaxTasks
  <2>1. call[th].todo # {}
    BY <1>1, <1>3 DEF CoordTypeOK, CallOK
  <2> QED
    BY <1>1, <2>1, CurrentTask
<1>5. ASSUME NEW t \in 1..MaxTasks, Late(t)' PROVE Late(t)
  <2>1. PICK p \in Processes : ~ssh'[p].alive /\ Carries(p, t)'
    BY <1>5 DEF Late
  <2>2. Carries(p, t)
    BY <2>1, LinesOver
  <2>3. ~ssh[p].alive
    <3>1. CASE ReadLine(th)
      <4>1. PICK q \in Processes :
               /\ ssh'[q].alive
               /\ \A r \in Processes \ {q} : ssh'[r] = ssh[r]
        BY <1>1, <3>1, ReplyRead
      <4> QED
        BY <2>1, <4>1
    <3>2. CASE RequestRaised(th)
      BY <2>1, <3>2 DEF RequestRaised, Raise, NoProcess, Clear
    <3> QED
      BY <1>3, <3>1, <3>2
  <2> QED
    BY <2>2, <2>3 DEF Late
<1>6. /\ \A p : ~Uses(th, p)'
      /\ ~Busy(th)'
  <2>1. In(th, "out")'
    <3>1. Leave(th)
      BY DEF Launched, StillRunning, RecordOutcome, Stopped, GetReply,
             ReadLine, RequestRaised, Raise, NoProcess, Clear
    <3> QED
      BY <1>1, <3>1, Conns DEF Leave, Enter, In
  <2> QED
    BY <2>1 DEF Uses, Busy, In
<1>7. ASSUME Doomed(th)'
      PROVE  /\ Current(th)' = c
             /\ Doomed(th) \/ unit[c] = "none"
  <2>1. At(th, "dispatch", "fail")' \/ At(th, "cancel", "update")'
    BY <1>2, <1>6, <1>7 DEF Doomed, Abandoned
  <2>2. call'[th].step \in {"fail", "update"}
    BY <2>1 DEF At
  <2>3. ~StillRunning(th) /\ ~RecordOutcome(th)
    BY <1>1, <2>2, Moves DEF StillRunning, RecordOutcome
  <2>4. CASE Launched(th)
    <3>1. Goto(th, "fail") /\ ~Reply(th).ok /\ Dispatching(th)
      BY <1>1, <2>2, <2>4, Moves DEF Launched, GetReply, Dispatching
    <3>2. unit[c] = "none"
      BY <1>3, <2>4, <3>1
         DEF LinesInv, Lines, DispatchOK, RequestRaised, Launched, GetReply,
             Raise, NoProcess, Clear, ReadLine, In
    <3> QED
      BY <1>1, <3>1, <3>2, Moves
  <2>5. CASE Stopped(th)
    <3>1. Goto(th, "update") /\ call[th].op = "cancel"
      BY <1>1, <2>2, <2>5, Moves DEF Stopped, GetReply, At
    <3>2. Doomed(th)
      BY <1>3, <2>5, <3>1
         DEF Doomed, Final, RequestRaised, Stopped, GetReply, Raise,
             NoProcess, Clear, ReadLine, In
    <3> QED
      BY <1>1, <3>1, <3>2, Moves
  <2>6. CASE RequestRaised(th)
    <3>1. Goto(th, "fail") /\ Dispatching(th)
      BY <1>1, <1>3, <2>2, <2>6, Moves DEF RequestRaised, Dispatching, At
    <3>2. In(th, "write") \/ In(th, "close") \/ In(th, "clear")
      BY <2>6 DEF RequestRaised, Raise, NoProcess, Clear
    <3>3. Doomed(th) \/ unit[c] = "none"
      BY <3>1, <3>2
         DEF Doomed, Abandoned, Unsent, LinesInv, Lines, DispatchOK
    <3> QED
      BY <1>1, <3>1, <3>3, Moves
  <2> QED
    BY <2>3, <2>4, <2>5, <2>6
<1>8. /\ TaskIds' = TaskIds
      /\ \A t \in TaskIds :
            \/ tasks'[t] = tasks[t]
            \/ t = c /\ Doomed(th)
  <2>1. CASE RecordOutcome(th)
    <3>1. Doomed(th)
      BY <1>3, <2>1
         DEF Doomed, Final, RequestRaised, RecordOutcome, GetReply, Raise,
             NoProcess, Clear, ReadLine, In, At
    <3>2. Outcome(Reply(th)) \in Statuses /\ TryUpdate(c, Outcome(Reply(th)))
      BY <2>1 DEF RecordOutcome, Outcome, Statuses
    <3>3. UpdateTask(c, Outcome(Reply(th))) \/ UNCHANGED fleetVars
      BY <3>2 DEF TryUpdate
    <3>4. CASE UNCHANGED fleetVars
      BY <3>4 DEF fleetVars, TaskIds
    <3>5. CASE UpdateTask(c, Outcome(Reply(th)))
      BY <1>1, <1>4, <3>1, <3>2, <3>5, UpdatedRow
    <3> QED
      BY <3>3, <3>4, <3>5
  <2>2. CASE ~RecordOutcome(th)
    BY <2>2 DEF Launched, StillRunning, Stopped, RequestRaised, fleetVars,
                TaskIds
  <2> QED
    BY <2>1, <2>2
<1>9. ASSUME NEW t \in TaskIds', Adrift(t)' PROVE t \in Loose
  <2>1. t \in TaskIds /\ t \in 1..MaxTasks
    BY <1>1, <1>8, <1>9, TasksInRange
  <2>2. CASE Late(t)'
    BY <1>5, <2>1, <2>2 DEF Adrift, Loose
  <2>3. CASE unit[t] = "active" /\ tasks'[t].status # "running"
    BY <1>8, <2>1, <2>3 DEF Adrift, Loose
  <2>4. ASSUME unit[t] = "active", Doomed(th)', Current(th)' = t
        PROVE  t \in Loose
    BY <1>7, <2>1, <2>4 DEF Adrift, Loose
  <2> QED
    BY <1>2, <1>9, <2>2, <2>3, <2>4 DEF Adrift, OneThread
<1> QED
  BY <1>2, <1>9 DEF Steady, Loose

LEMMA LooseServe ==
    ASSUME OneThread, LinesInv, NEW p \in Processes, Serve(p)
    PROVE  Steady \/ OneMore
<1>1. /\ CoordTypeOK /\ Links
      /\ faults \in Nat
  BY DEF LinesInv, LaunchInv, CoordTypeOK
<1>2. PICK op \in Ops, t \in 1..MaxTasks, reply \in Replies :
         /\ Head(ssh[p].inbox) = [op |-> op, task |-> t]
         /\ ssh[p].inbox = <<[op |-> op, task |-> t]>>
         /\ Answer(p, reply)
         /\ Effect(op, t, reply)
         /\ \A u \in 1..MaxTasks \ {t} : unit'[u] = unit[u]
         /\ UNCHANGED <<drones, tasks, transports, call, off>>
  BY <1>1, ServeShape
<1>3. /\ \A q \in Processes \ {p} : ssh'[q] = ssh[q]
      /\ ssh'[p].inbox = << >>
      /\ ssh'[p].alive = ssh[p].alive
      /\ UNCHANGED <<process, place>>
  <2>1. ssh[p].alive \in BOOLEAN /\ ssh'[p].alive \in BOOLEAN
    <3>1. ssh \in [Processes -> Connection]
      BY <1>1, Conns
    <3>2. ssh'[p].alive \in {ssh[p].alive, FALSE}
      BY <1>2, <3>1 DEF Answer, Answered, Rest, Gone
    <3> QED
      BY <3>1, <3>2 DEF Connection, Connections
  <2>2. /\ \A q \in Processes \ {p} : ssh'[q] = ssh[q]
        /\ ssh'[p].inbox = << >>
        /\ UNCHANGED <<process, place>>
        /\ ssh[p].alive <=> ssh'[p].alive
    BY <1>1, <1>2, LineServed, Ends
  <2> QED
    BY <2>1, <2>2
<1>4. \A u : Late(u)' => Late(u)
  <2>1. \A q \in Processes : ssh'[q].inbox \in {<< >>, ssh[q].inbox}
    BY <1>3
  <2>2. \A q \in Processes : ssh'[q].alive = ssh[q].alive
    BY <1>3
  <2>3. \A q \in Processes : \A u : Carries(q, u)' => Carries(q, u)
    BY <2>1, CarriesEnd
  <2> QED
    BY <2>2, <2>3 DEF Late
<1>5. TaskIds' = TaskIds /\ TaskIds \subseteq 1..MaxTasks
  BY <1>1, <1>2, TasksInRange DEF TaskIds
(* The reply may doom the task that the line is about, and no other. *)
<1>6. ASSUME NEW th \in Threads, Doomed(th)'
      PROVE  /\ Current(th)' = Current(th)
             /\ \/ Doomed(th)
                \/ /\ Uses(th, p) /\ ssh[p].alive
                   /\ Line(th) = [op |-> op, task |-> t]
                   /\ Final(op, reply)
  <2>1. /\ Current(th)' = Current(th)
        /\ Dispatching(th)' <=> Dispatching(th)
        /\ \A q : Uses(th, q)' <=> Uses(th, q)
        /\ Busy(th)' <=> Busy(th)
    BY <1>2, <1>3 DEF Current, CurrentDrone, Dispatching, At, Uses, Busy, In
  <2>2. Abandoned(th)' => Abandoned(th)
    BY <1>3, <2>1 DEF Abandoned, In
  <2>3. At(th, "dispatch", "fail")' \/ At(th, "cancel", "update")'
           => Doomed(th)
    BY <1>2 DEF At, Doomed
  <2>4. ASSUME NEW q \in Processes, NEW r \in Replies,
               Uses(th, q)', ssh'[q].alive, Told(q, r)',
               Final(call[th].op, r), q # p
        PROVE  Doomed(th)
    BY <1>3, <2>1, <2>4 DEF Doomed, Told
  <2>5. ASSUME NEW r \in Replies, Uses(th, p)', ssh'[p].alive,
               Told(p, r)', Final(call[th].op, r)
        PROVE  /\ Uses(th, p) /\ ssh[p].alive
               /\ Line(th) = [op |-> op, task |-> t]
               /\ Final(op, reply)
    <3>1. Told(p, reply)' /\ Head(ssh[p].inbox) = Line(th)
      BY <1>1, <1>2, <1>3, <2>5, LineServed DEF OneThread
    <3>2. <<r>> = <<reply>>
      BY <2>5, <3>1 DEF Told
    <3>3. r = reply
      BY <3>2, OneLine
    <3>4. Line(th) = [op |-> op, task |-> t]
      BY <1>2, <3>1
    <3>5. Line(th).op = op /\ Line(th).op = call[th].op
      BY <3>4 DEF Line
    <3> QED
      BY <1>3, <2>1, <2>5, <3>3, <3>4, <3>5
  <2>6. ASSUME Doomed(th)', ~Doomed(th)
        PROVE  \E r \in Replies : /\ Uses(th, p)' /\ ssh'[p].alive
                                  /\ Told(p, r)' /\ Final(call[th].op, r)
    <3>1. PICK q \in Processes, r \in Replies :
             /\ Uses(th, q)' /\ ssh'[q].alive /\ Told(q, r)'
             /\ Final(call'[th].op, r)
      BY <2>2, <2>3, <2>6 DEF Doomed
    <3> QED
      BY <1>2, <2>4, <2>6, <3>1
  <2> QED
    BY <1>6, <2>1, <2>5, <2>6
<1>7. ASSUME NEW u \in Loose', u \notin Loose
      PROVE  u = t /\ faults' = faults + 1
  <2>1. u \in TaskIds /\ Adrift(u)' /\ ~Adrift(u)
    BY <1>5, <1>7 DEF Loose
  <2>2. /\ unit'[u] = "active"
        /\ \/ tasks[u].status # "running"
           \/ \E th \in Threads : Doomed(th)' /\ Current(th)' = u
    BY <1>2, <1>4, <2>1 DEF Adrift
  <2>3. u = t
    <3> SUFFICES ASSUME u # t PROVE FALSE
      OBVIOUS
    <3>1. unit[u] = "active"
      BY <1>2, <1>5, <2>1, <2>2
    <3>2. PICK th \in Threads : Doomed(th)' /\ Current(th)' = u
      BY <2>1, <2>2, <3>1 DEF Adrift
    <3>3. ~Doomed(th) /\ Current(th) = u
      BY <1>6, <2>1, <3>1, <3>2 DEF Adrift
    <3>4. Line(th).task = t /\ Line(th).task = Current(th)
      BY <1>6, <3>2, <3>3 DEF Line
    <3> QED
      BY <3>3, <3>4
  <2>4. CASE op = "dispatch"
    <3>1. Carries(p, t) /\ unit[t] = "none" /\ unit'[t] # unit[t]
      BY <1>2, <2>2, <2>3, <2>4
         DEF Carries, LinesInv, Lines, LineOnce
    <3>2. ssh[p].alive
      BY <2>1, <2>3, <3>1 DEF Adrift, Late
    <3>3. PICK th \in Threads :
             /\ Uses(th, p)
             /\ Line(th) = [op |-> op, task |-> t]
      BY <1>1, <1>2, <3>2, LineServed
    <3>4. Line(th).op = "dispatch" /\ Line(th).task = t
      BY <2>4, <3>3
    <3>5. Dispatching(th) /\ Current(th) = t
      BY <1>1, <3>3, <3>4, UsesBusy, Inside DEF Line, Dispatching, At
    <3>6. tasks[t].status = "running"
      BY <3>5 DEF LinesInv, Lines, DispatchOK
    <3>7. Doomed(th)'
      BY <2>2, <2>3, <3>6 DEF OneThread
    <3>8. ~Final(op, reply)
      BY <2>4 DEF Final
    <3>9. Doomed(th)
      BY <1>6, <3>7, <3>8
    <3>10. ~Abandoned(th)
      BY <3>2, <3>3, UsesBusy DEF Abandoned
    <3>11. PICK q \in Processes, r \in Replies :
              Uses(th, q) /\ Final(call[th].op, r)
      BY <3>5, <3>9, <3>10 DEF Doomed, Dispatching, At
    <3> QED
      BY <3>5, <3>11 DEF Final, Dispatching, At
  <2>5. CASE op # "dispatch" /\ faults' = faults
    <3>1. unit[t] = "active" /\ unit'[t] = unit[t]
      BY <1>2, <2>2, <2>3, <2>5 DEF Effect
    <3>2. PICK th \in Threads : Doomed(th)' /\ Current(th)' = t
      BY <2>1, <2>2, <2>3, <3>1 DEF Adrift
    <3>3. Final(op, reply)
      BY <1>6, <2>1, <2>3, <3>1, <3>2 DEF Adrift
    <3>4. op = "reconcile"
      BY <1>1, <1>2, <2>5, <3>1 DEF Effect
    <3> QED
      BY <1>2, <3>1, <3>3, <3>4 DEF Effect, Final
  <2> QED
    BY <1>2, <2>3, <2>4, <2>5 DEF Effect
<1>8. faults' = faults \/ faults' = faults + 1
  BY <1>2 DEF Effect
<1>9. CASE Loose' \subseteq Loose
  BY <1>8, <1>9 DEF Steady, OneMore
<1> QED
  BY <1>7, <1>8, <1>9 DEF OneMore

(* Connections end, units end or are lost: a task is adrift only if it was,
   or if it is the one that a thread is waiting to have launched. *)
LEMMA AdriftFades ==
    ASSUME LinesInv, OneThread, NEW t \in TaskIds, Adrift(t)', ~Adrift(t),
           UNCHANGED <<process, place, call, tasks>>,
           \A q \in Processes : \/ ssh'[q] = ssh[q]
                                \/ ssh'[q] \in {Gone, Closed(ssh[q])},
           \A u \in 1..MaxTasks : unit'[u] = "active" => unit[u] = "active"
    PROVE  \E th \in Threads, p \in Processes :
             /\ Uses(th, p) /\ ssh[p].alive /\ ssh'[p] # ssh[p]
             /\ Current(th) = t /\ Dispatching(th)
             /\ Carries(p, t)' \/ unit'[t] = "active"
<1>1. CoordTypeOK /\ Links /\ t \in 1..MaxTasks
  BY TasksInRange DEF LinesInv, LaunchInv
<1>2. \A q \in Processes : \/ ssh'[q] = ssh[q]
                           \/ /\ ssh'[q].inbox \in {<< >>, ssh[q].inbox}
                              /\ ~ssh'[q].alive
  BY Ends
<1>3. CASE Late(t)'
  <2>1. PICK p \in Processes : ~ssh'[p].alive /\ Carries(p, t)'
    BY <1>3 DEF Late
  <2>2. Carries(p, t)
    BY <1>2, <2>1, CarriesEnd DEF Carries
  <2>3. ssh[p].alive
    BY <2>2 DEF Adrift, Late
  <2>4. PICK th \in Threads : Uses(th, p)
    <3>1. <<[op |-> "dispatch", task |-> t]>> # << >>
      BY OneLine
    <3> QED
      BY <1>1, <2>2, <2>3, <3>1 DEF Links, LinkOK, Empty, Carries
  <2>5. Asked(th, p)
    <3>1. <<[op |-> "dispatch", task |-> t]>> # << >>
      BY OneLine
    <3> QED
      BY <1>1, <2>2, <2>3, <2>4, <3>1 DEF Links, LinkOK, Told, Carries
  <2>6. Line(th) = [op |-> "dispatch", task |-> t]
    BY <2>2, <2>5, OneLine DEF Asked, Carries
  <2>7. Line(th).op = "dispatch" /\ Line(th).task = t
    BY <2>6
  <2>8. Dispatching(th) /\ Current(th) = t
    BY <1>1, <2>4, <2>7, UsesBusy, Inside DEF Line, Dispatching, At
  <2> QED
    BY <2>1, <2>3, <2>4, <2>8
<1>4. ASSUME unit'[t] = "active", ~Late(t)'
      PROVE  \E th \in Threads, p \in Processes :
                /\ Uses(th, p) /\ ssh[p].alive /\ ssh'[p] # ssh[p]
                /\ Current(th) = t /\ Dispatching(th)
  <2>1. unit[t] = "active" /\ tasks[t].status = "running"
    BY <1>1, <1>4 DEF Adrift
  <2>2. PICK th \in Threads : Doomed(th)' /\ Current(th)' = t
    BY <1>4, <2>1 DEF Adrift
  <2>3. /\ Current(th) = t
        /\ Dispatching(th)' <=> Dispatching(th)
        /\ \A q : Uses(th, q)' <=> Uses(th, q)
        /\ Busy(th)' <=> Busy(th)
    BY <2>2 DEF Current, CurrentDrone, Dispatching, At, Uses, Busy, In
  <2>4. ~Doomed(th)
    BY <2>1, <2>3 DEF Adrift
  <2>5. Abandoned(th)'
    <3>1. ~(At(th, "dispatch", "fail")' \/ At(th, "cancel", "update")')
      BY <2>4 DEF At, Doomed
    <3>2. ASSUME NEW q \in Processes, NEW r \in Replies,
                 Uses(th, q)', ssh'[q].alive, Told(q, r)',
                 Final(call'[th].op, r)
          PROVE  FALSE
      BY <1>2, <2>3, <2>4, <3>2 DEF Doomed, Told
    <3> QED
      BY <2>2, <3>1, <3>2 DEF Doomed
  <2>6. PICK p \in Processes : Uses(th, p) /\ ssh[p].alive
    BY <2>3, <2>4, <2>5 DEF Abandoned, Doomed, In
  <2>7. ~ssh'[p].alive
    BY <2>3, <2>5, <2>6, UsesBusy DEF Abandoned, In
  <2> QED
    BY <2>3, <2>5, <2>6, <2>7 DEF Abandoned
<1> QED
  BY <1>3, <1>4 DEF Adrift

LEMMA LooseStep ==
    ASSUME OneThread, LinesInv, [Next]_vars
    PROVE  Steady \/ OneMore
<1>1. /\ CoordTypeOK /\ unit \in [1..MaxTasks -> UnitStates]
      /\ Links
  BY DEF LinesInv, LaunchInv, CoordTypeOK
<1>2. ASSUME UNCHANGED <<process, place, ssh, call, tasks, faults>>,
             \A u \in 1..MaxTasks :
                  unit'[u] = "active" => unit[u] = "active"
      PROVE  Steady
  <2>1. UNCHANGED <<process, place, call, tasks>>
        /\ \A q \in Processes : ssh'[q] = ssh[q]
    BY <1>2
  <2>2. ASSUME NEW t \in TaskIds, Adrift(t)' PROVE Adrift(t)
    BY <1>2, <2>1, <2>2, AdriftFades
  <2> QED
    BY <1>2, <2>2 DEF Steady, Loose, TaskIds
<1>3. ASSUME NEW th \in Threads, StartCall(th) PROVE Steady
  <2>1. CASE Idle(th)
    BY <1>3, <2>1, LooseApart
  <2> QED
    BY <1>3, <2>1 DEF StartCall, RegisterByGateway, SubmitJob, BeginDispatch,
       BeginReconcile, BeginCancel, Begin
<1>4. ASSUME NEW th \in Threads, Step(th) PROVE Steady
  BY <1>4, LooseApart, LooseRequest, LooseOver DEF Step
<1>5. ASSUME UNCHANGED <<process, place, call, tasks>>,
             \A q \in Processes : \/ ssh'[q] = ssh[q]
                                  \/ ssh'[q] \in {Gone, Closed(ssh[q])},
             \A u \in 1..MaxTasks :
                  unit'[u] = "active" => unit[u] = "active"
      PROVE  \A t \in Loose' \ Loose : \E th \in Threads, p \in Processes :
                /\ Uses(th, p) /\ ssh[p].alive /\ ssh'[p] # ssh[p]
                /\ Current(th) = t /\ Dispatching(th)
                /\ Carries(p, t)' \/ unit'[t] = "active"
  <2>1. TaskIds' = TaskIds
    BY <1>5 DEF TaskIds
  <2> QED
    BY <1>5, <2>1, AdriftFades DEF Loose
<1>6. ASSUME NEW p \in Processes, Wither(p) PROVE Steady
  <2>1. /\ UNCHANGED <<process, place, call, tasks, unit, faults>>
        /\ ssh' = [ssh EXCEPT ![p] = Gone]
    BY <1>6 DEF Wither, Lose, Retire, fleetVars
  <2>2. ASSUME NEW th \in Threads, Uses(th, p), ssh[p].alive PROVE FALSE
    <3>1. Retire(p)
      BY <1>6, <2>2 DEF Wither, Lose
    <3>2. ~In(th, "read") \/ process[CurrentDrone(th)] # p
      BY <1>1, <2>2, <3>1, UsesBusy, Inside DEF Retire
    <3>3. ssh[p].inbox = << >> /\ ssh[p].outbox = << >>
      BY <2>2, <3>1, <3>2 DEF Retire, Uses
    <3>4. <<Line(th)>> # << >> /\ \A r : <<r>> # << >>
      BY OneLine
    <3> QED
      BY <1>1, <2>2, <3>3, <3>4 DEF Links, LinkOK, Asked, Told
  <2>3. \A q \in Processes : ssh'[q] = ssh[q] \/ ssh'[q] = Gone
    BY <2>1, Conns
  <2>4. \A q \in Processes \ {p} : ssh'[q] = ssh[q]
    BY <1>1, <2>1, Conns
  <2>5. Loose' \subseteq Loose
    BY <1>5, <2>1, <2>2, <2>3, <2>4
  <2> QED
    BY <2>1, <2>5 DEF Steady
<1>7. ASSUME NEW p \in Processes, Disconnect(p) PROVE OneMore
  <2>1. /\ UNCHANGED <<process, place, call, tasks, unit>>
        /\ faults' = faults + 1
        /\ \A q \in Processes : \/ ssh'[q] = ssh[q]
                                \/ ssh'[q] \in {Gone, Closed(ssh[q])}
    BY <1>1, <1>7, Conns DEF Disconnect, Break, Fault, fleetVars
  <2> QED
    BY <1>5, <2>1 DEF OneMore, OneThread
<1>8. ASSUME NEW d \in Drones, DroneDown(d) PROVE OneMore
  <2>1. /\ UNCHANGED <<process, place, call, tasks>>
        /\ faults' = faults + 1
        /\ \A q \in Processes : ssh'[q] = ssh[q] \/ ssh'[q] = Gone
    BY <1>8 DEF DroneDown, LoseAgents, Fault, fleetVars
  <2>2. \A u \in 1..MaxTasks : unit'[u] = "active" => unit[u] = "active"
    BY <1>8 DEF DroneDown, LoseUnits
  <2> QED
    BY <1>5, <2>1, <2>2 DEF OneMore, OneThread
<1>9. ASSUME NEW t \in TaskIds, Exit(t) PROVE Steady
  <2>1. \A u \in 1..MaxTasks : unit'[u] = "active" => unit[u] = "active"
    BY <1>1, <1>9 DEF Exit, UnitExit
  <2>2. UNCHANGED <<process, place, ssh, call, tasks, faults>>
    BY <1>9 DEF Exit, fleetVars, connVars
  <2> QED
    BY <1>2, <2>1, <2>2
<1>10. ASSUME Restart PROVE OneMore
  <2>1. /\ tasks' = tasks /\ unit' = unit /\ TaskIds' = TaskIds
        /\ faults' = faults + 1
        /\ \A q \in Processes : ssh'[q].inbox \in {<< >>, ssh[q].inbox}
    BY <1>10, Ends DEF Restart, Reset, Fault, fleetVars, TaskIds
  <2>2. \A th \in Threads : ~Doomed(th)'
    <3>1. \A th \in Threads : call'[th].step = "next" /\ In(th, "out")'
      BY <1>10 DEF Restart, Reset, Outside, In, NoCall, NewCall
    <3> QED
      BY <3>1 DEF Doomed, Abandoned, Dispatching, At, Uses, In
  <2>3. ASSUME NEW t \in Loose' \ Loose
        PROVE  \E th \in Threads : Current(th) = t
    <3>1. t \in TaskIds /\ Adrift(t)' /\ ~Adrift(t)
      BY <2>1, <2>3 DEF Loose
    <3>2. Late(t)'
      BY <2>1, <2>2, <3>1 DEF Adrift
    <3>3. PICK p \in Processes : Carries(p, t)'
      BY <3>2 DEF Late
    <3>4. Carries(p, t)
      BY <2>1, <3>3, CarriesEnd
    <3>5. ssh[p].alive /\ <<[op |-> "dispatch", task |-> t]>> # << >>
      BY <3>1, <3>4, OneLine DEF Adrift, Late
    <3>6. PICK th \in Threads : Uses(th, p)
      BY <1>1, <3>4, <3>5 DEF Links, LinkOK, Empty, Carries
    <3>7. Asked(th, p)
      BY <1>1, <3>4, <3>5, <3>6 DEF Links, LinkOK, Told, Carries
    <3>8. Line(th) = [op |-> "dispatch", task |-> t]
      BY <3>4, <3>7, OneLine DEF Asked, Carries
    <3>9. Line(th).task = t
      BY <3>8
    <3> QED
      BY <3>9 DEF Line
  <2> QED
    BY <2>1, <2>3 DEF OneMore, OneThread
<1>11. ASSUME NEW d \in Drones, NEW offer \in Offers[d],
              RegisterByDashboard(d, offer)
       PROVE  Steady \/ OneMore
  BY <1>2, <1>11 DEF RegisterByDashboard, RegisterDrone, connVars
<1>12. CASE UNCHANGED vars
  BY <1>2, <1>12 DEF vars, connVars
<1>13. ASSUME NEW p \in Processes, Serve(p) PROVE Steady \/ OneMore
  BY <1>13, LooseServe
<1> QED
  BY <1>3, <1>4, <1>6, <1>7, <1>8, <1>9, <1>10, <1>11, <1>12, <1>13 DEF Next

LEMMA LinesInit == Init => LinesInv /\ LooseBounded
<1> SUFFICES ASSUME Init PROVE LinesInv /\ LooseBounded
  OBVIOUS
<1>1. LaunchInv
  BY LaunchInit
<1>2. /\ \A p \in Processes : ssh[p] = Gone
      /\ \A d \in Drones : process[d] = None
      /\ \A th \in Threads : place[th].step = "out"
      /\ \A th \in Threads : call[th].step = "next"
      /\ faults = 0 /\ tasks = << >>
  BY DEF Init, ConnInit, Unconnected, Outside, FleetInit, NoCall, NewCall
<1>3. Links
  BY <1>2, Ends DEF Links, LinkOK, Short
<1>4. \A p, t : p \in Processes => ~Carries(p, t)
  <2>1. \A t : <<[op |-> "dispatch", task |-> t]>> # << >>
    BY OneLine
  <2> QED
    BY <1>2, <2>1, Ends DEF Carries
<1>5. Lines
  BY <1>2, <1>4 DEF Lines, LineOnce, DispatchOK, Dispatching, At
<1>6. Loose = {}
  BY <1>2 DEF Loose, TaskIds
<1>7. Cardinality(Loose) = 0
  BY <1>6, FS_EmptySet
<1> QED
  BY <1>1, <1>2, <1>3, <1>5, <1>7 DEF LinesInv, LooseBounded

(* With one thread, whatever the faults and the number of tasks, drones and
   connections: there are at most as many commands that run without a task
   recorded running as there have been faults. *)
THEOREM OrphansOwed == ASSUME OneThread PROVE Spec => []OrphansBounded
<1>1. Init => LinesInv /\ LooseBounded
  BY LinesInit
<1>2. LinesInv /\ LooseBounded /\ [Next]_vars => (LinesInv /\ LooseBounded)'
  <2> SUFFICES ASSUME LinesInv, LooseBounded, [Next]_vars
               PROVE  LinesInv' /\ LooseBounded'
    OBVIOUS
  <2>1. LinesInv'
    BY LinesStep
  <2>2. CoordTypeOK /\ CoordTypeOK'
    BY <2>1 DEF LinesInv, LaunchInv
  <2>3. Steady \/ OneMore
    BY LooseStep
  <2> QED
    BY <2>1, <2>2, <2>3, LooseGrows
<1>3. LinesInv /\ LooseBounded => OrphansBounded
  <2> SUFFICES ASSUME LinesInv, LooseBounded PROVE OrphansBounded
    OBVIOUS
  <2>1. CoordTypeOK
    BY DEF LinesInv, LaunchInv
  <2>2. Orphans \subseteq Loose
    BY DEF Orphans, Loose, Adrift
  <2>3. IsFiniteSet(Loose) /\ faults \in Nat
    BY <2>1, TasksInRange
  <2>4. /\ IsFiniteSet(Orphans)
        /\ Cardinality(Orphans) <= Cardinality(Loose)
    BY <2>2, <2>3, FS_Subset
  <2>5. Cardinality(Orphans) \in Nat /\ Cardinality(Loose) \in Nat
    BY <2>3, <2>4, FS_CardinalityType
  <2> QED
    BY <2>3, <2>4, <2>5 DEF LooseBounded, OrphansBounded
<1> QED
  BY <1>1, <1>2, <1>3, PTL DEF Spec

-----------------------------------------------------------------------------
(* What is completed has run *)

(* Connections break and units cannot be stopped, but the drones and the
   coordinator stay up. *)
StaysUp == FaultKinds \subseteq {"disconnect", "stop"}

Ended(t) == unit[t] \in {"exited", "stopped"}

RanOK(t) ==
    /\ tasks[t].status = "completed" /\ tasks[t].mode = "once" => Ended(t)
    /\ unit[t] = "service" => tasks[t].mode = "service"
    /\ tasks[t].status = "running" /\ Launching(t) = {} => unit[t] # "none"

(* The unit is still as the reply that is about to be read says. *)
StillSo(th, reply) ==
    /\ Dispatching(th) /\ reply.ok => unit[Current(th)] # "none"
    /\ (/\ call[th].op = "reconcile" /\ reply.active = "inactive"
        /\ tasks[Current(th)].status = "running"
        /\ tasks[Current(th)].mode = "once") => Ended(Current(th))

ToldOK(th) ==
    \A p \in Processes, reply \in Replies :
        Uses(th, p) /\ ssh[p].alive /\ Told(p, reply) => StillSo(th, reply)

Ran == /\ \A t \in TaskIds : RanOK(t)
       /\ \A th \in Threads : ToldOK(th)

RanInv == LinesInv /\ Ran

(* A unit is started once, and ends once. *)
UnitMoves(t) ==
    \/ unit'[t] = unit[t]
    \/ unit[t] = "none" /\ unit'[t] = UnitName(t, tasks[t].mode)
    \/ unit[t] = "active" /\ unit'[t] \in {"exited", "failed", "stopped"}

LEMMA UnitMovesStep ==
    ASSUME StaysUp, LinesInv, [Next]_vars, NEW t \in 1..MaxTasks
    PROVE  UnitMoves(t)
<1>1. /\ CoordTypeOK /\ Links
      /\ unit \in [1..MaxTasks -> UnitStates]
  BY DEF LinesInv, LaunchInv, CoordTypeOK
<1>2. CASE UNCHANGED unit
  BY <1>2 DEF UnitMoves
<1>3. ASSUME NEW th \in Threads, StartCall(th) \/ Step(th)
      PROVE  UNCHANGED unit
  BY <1>3 DEF StartCall, RegisterByGateway,
     SubmitJob, BeginDispatch, BeginReconcile, BeginCancel,
     Step, Reserve, Poll, SkipTask, EndLoop, SendRequest, Requesting, Launched,
     StillRunning, RecordOutcome, Stopped, RequestRaised, FailLaunch,
     RecordCancelled
<1>4. ASSUME NEW p \in Processes, Serve(p) PROVE UnitMoves(t)
  <2>1. PICK op \in Ops, u \in 1..MaxTasks, reply \in Replies :
           /\ ssh[p].inbox = <<[op |-> op, task |-> u]>>
           /\ Effect(op, u, reply)
           /\ \A v \in 1..MaxTasks \ {u} : unit'[v] = unit[v]
    BY <1>1, <1>4, ServeShape
  <2>2. CASE t # u
    BY <2>1, <2>2 DEF UnitMoves
  <2>3. CASE t = u /\ op = "dispatch"
    <3>1. unit[t] = "none"
      BY <2>1, <2>3 DEF LinesInv, Lines, LineOnce, Carries
    <3> QED
      BY <2>1, <2>3, <3>1 DEF UnitMoves, Effect
  <2>4. CASE t = u /\ op # "dispatch"
    BY <2>1, <2>4 DEF UnitMoves, Effect
  <2> QED
    BY <2>2, <2>3, <2>4
<1>5. ASSUME NEW u \in TaskIds, Exit(u) PROVE UnitMoves(t)
  BY <1>1, <1>5 DEF Exit, UnitExit, UnitMoves
<1>6. ASSUME \/ \E p \in Processes : Wither(p) \/ Disconnect(p)
             \/ \E d \in Drones : \E offer \in Offers[d] :
                   RegisterByDashboard(d, offer)
      PROVE  UNCHANGED unit
  BY <1>6 DEF Wither, Disconnect, RegisterByDashboard
<1>7. ~Restart /\ \A d \in Drones : ~DroneDown(d)
  BY DEF StaysUp, Restart, DroneDown, Fault
<1>8. CASE UNCHANGED vars
  BY <1>2, <1>8 DEF vars
<1> QED
  BY <1>2, <1>3, <1>4, <1>5, <1>6, <1>7, <1>8 DEF Next

LEMMA UnitKept ==
    ASSUME NEW t, UnitMoves(t)
    PROVE  /\ Ended(t) => Ended(t)'
           /\ unit[t] # "none" => unit'[t] # "none"
           /\ unit'[t] = "service" =>
                  unit[t] = "service" \/ tasks[t].mode = "service"
BY DEF UnitMoves, Ended, UnitName

(* How the row of a task changes. *)
RowMoves(t) ==
    \/ tasks'[t].status \in {tasks[t].status, "failed", "cancelled"}
    \/ \E th \in Threads :
          /\ Current(th) = t
          /\ \/ Reserve(th) /\ Launches(th, t)' /\ tasks'[t].status = "running"
             \/ /\ RecordOutcome(th) /\ tasks[t].status = "running"
                /\ tasks'[t].status # "running"

LEMMA UpdateMoves ==
    ASSUME CoordTypeOK, NEW u \in TaskIds, NEW status \in Statuses,
           TryUpdate(u, status), NEW t \in TaskIds
    PROVE  /\ t \in TaskIds' /\ tasks'[t].mode = tasks[t].mode
           /\ \/ tasks'[t].status = tasks[t].status
              \/ /\ t = u /\ tasks'[t].status = status
                 /\ status = "completed" => tasks[t].status = "running"
<1>1. CASE UpdateTask(u, status)
  <2>1. /\ TaskIds' = TaskIds
        /\ status \in Transitions[tasks[u].status]
        /\ tasks[u].status \in {"queued", "running"}
        /\ tasks'[u].status = status
        /\ tasks'[u].mode = tasks[u].mode
        /\ \A v \in TaskIds \ {u} : tasks'[v] = tasks[v]
    BY <1>1, UpdatedRow
  <2>2. status = "completed" => tasks[u].status = "running"
    BY <2>1 DEF Transitions, Statuses
  <2> QED
    BY <2>1, <2>2
<1>2. CASE UNCHANGED fleetVars
  BY <1>2 DEF fleetVars, TaskIds
<1> QED
  BY <1>1, <1>2 DEF TryUpdate

LEMMA RowMovesStep ==
    ASSUME LinesInv, [Next]_vars, NEW t \in TaskIds
    PROVE  tasks'[t].mode = tasks[t].mode /\ RowMoves(t)
<1>1. LaunchInv /\ CoordTypeOK /\ FleetTypeOK
  BY DEF LinesInv, LaunchInv, CoordTypeOK
<1>2. CASE tasks'[t] = tasks[t]
  BY <1>2 DEF RowMoves
<1>3. ASSUME NEW th \in Threads, StartCall(th) PROVE tasks'[t] = tasks[t]
  <2>1. ASSUME NEW job \in Jobs, CreateTask(job) PROVE tasks'[t] = tasks[t]
    BY <1>1, <2>1, CreateShape
  <2> QED
    BY <1>3, <2>1 DEF StartCall, RegisterByGateway, RegisterDrone, SubmitJob,
       BeginDispatch, BeginReconcile, BeginCancel, fleetVars
<1>4. ASSUME NEW th \in Threads, Reserve(th)
      PROVE  tasks'[t].mode = tasks[t].mode /\ RowMoves(t)
  <2>1. CASE t # Current(th)
    BY <1>1, <1>2, <1>4, <2>1, Reserved
  <2>2. CASE t = Current(th)
    <3>1. /\ tasks'[t].status = "running" /\ tasks'[t].mode = tasks[t].mode
          /\ Current(th)' = t
      BY <1>1, <1>4, <2>2, Reserved
    <3>2. call'[th].op = "dispatch" /\ call'[th].step = "request"
      BY <1>1, <1>4, Moves DEF Reserve, AtNext, At
    <3> QED
      BY <1>4, <2>2, <3>1, <3>2 DEF RowMoves, Launches
  <2> QED
    BY <2>1, <2>2
<1>5. ASSUME NEW th \in Threads, NEW status \in {"failed", "cancelled"},
             call[th].step # "next", TryUpdate(Current(th), status)
      PROVE  tasks'[t].mode = tasks[t].mode /\ RowMoves(t)
  <2>1. Current(th) \in TaskIds /\ status \in Statuses
    BY <1>1, <1>5, CurrentTask DEF CoordTypeOK, CallOK, Statuses
  <2> QED
    BY <1>1, <1>5, <2>1, UpdateMoves DEF RowMoves
<1>6. ASSUME NEW th \in Threads, FailLaunch(th) \/ RecordCancelled(th)
      PROVE  tasks'[t].mode = tasks[t].mode /\ RowMoves(t)
  BY <1>5, <1>6 DEF FailLaunch, RecordCancelled, At
<1>7. ASSUME NEW th \in Threads, RecordOutcome(th)
      PROVE  tasks'[t].mode = tasks[t].mode /\ RowMoves(t)
  <2>1. call[th].todo # {}
    BY <1>1, <1>7 DEF RecordOutcome, GetReply, At, CoordTypeOK, CallOK
  <2>2. PICK u \in TaskIds : u = Current(th)
    BY <1>1, <2>1, CurrentTask
  <2>3. PICK status \in {"completed", "failed"} :
           status = Outcome(Reply(th)) /\ TryUpdate(u, status)
    BY <1>7, <2>2 DEF RecordOutcome, Outcome
  <2>4. status \in Statuses
    BY <2>3 DEF Statuses
  <2>5. /\ tasks'[t].mode = tasks[t].mode
        /\ \/ tasks'[t].status = tasks[t].status
           \/ /\ t = u /\ tasks'[t].status = status
              /\ status = "completed" => tasks[t].status = "running"
    BY <1>1, <2>3, <2>4, UpdateMoves
  <2>6. CASE status = "failed" \/ tasks'[t].status = tasks[t].status
    BY <2>5, <2>6 DEF RowMoves
  <2>7. CASE status = "completed" /\ tasks'[t].status # tasks[t].status
    BY <1>7, <2>2, <2>5, <2>7 DEF RowMoves
  <2> QED
    BY <2>3, <2>6, <2>7
<1>8. ASSUME NEW th \in Threads,
             \/ Poll(th) \/ SkipTask(th) \/ EndLoop(th) \/ SendRequest(th)
             \/ Requesting(th) \/ Launched(th) \/ StillRunning(th)
             \/ Stopped(th) \/ RequestRaised(th)
      PROVE  tasks'[t] = tasks[t]
  BY <1>8 DEF Poll, SkipTask, EndLoop, SendRequest, Requesting, Launched,
              StillRunning, Stopped, RequestRaised, fleetVars
<1>9. ASSUME \/ \E p \in Processes : Serve(p) \/ Wither(p) \/ Disconnect(p)
             \/ \E u \in TaskIds : Exit(u)
             \/ \E d \in Drones :
                   \/ \E offer \in Offers[d] : RegisterByDashboard(d, offer)
                   \/ DroneDown(d)
             \/ Restart
             \/ UNCHANGED vars
      PROVE  tasks'[t] = tasks[t]
  BY <1>9 DEF Serve, Wither, Disconnect, Exit, RegisterByDashboard,
     RegisterDrone, DroneDown, Restart, fleetVars, vars
<1> QED
  BY <1>2, <1>3, <1>4, <1>6, <1>7, <1>8, <1>9 DEF Next, Step

LEMMA NewRow ==
    ASSUME LinesInv, [Next]_vars, NEW t \in TaskIds', t \notin TaskIds
    PROVE  tasks'[t].status = "queued" /\ unit'[t] = "none"
<1>1. LaunchInv /\ CoordTypeOK /\ FleetTypeOK
  BY DEF LinesInv, LaunchInv, CoordTypeOK
<1>2. [FleetNext]_fleetVars
  BY <1>1, StepUsesState
<1>3. PICK job \in Jobs : CreateTask(job)
  <2>1. ASSUME NEW u \in TaskIds, NEW status \in Statuses,
               UpdateTask(u, status)
        PROVE  TaskIds' = TaskIds
    BY <1>1, <2>1, UpdatedRow
  <2>2. tasks' = tasks => TaskIds' = TaskIds
    BY DEF TaskIds
  <2> QED
    BY <1>2, <2>1, <2>2 DEF FleetNext, fleetVars, RegisterDrone
<1>4. t = Len(tasks) + 1
  BY <1>1, <1>3, CreateShape
<1>5. tasks'[t].status = "queued"
  <2>1. PICK d : tasks' = Append(tasks, [target |-> d, mode |-> job.mode,
                                       status |-> "queued", started |-> FALSE])
    BY <1>3 DEF CreateTask
  <2>2. tasks \in Seq(TaskRow)
    BY <1>1 DEF FleetTypeOK
  <2> QED
    BY <1>4, <2>1, <2>2
<1>6. t \in 1..MaxTasks
  <2>1. Len(tasks) \in Nat /\ Len(tasks) < MaxTasks
    BY <1>1, <1>3 DEF CreateTask, FleetTypeOK
  <2> QED
    BY <1>4, <2>1, MaxTasksAssumption
<1>7. ~Touched(t)
  BY <1>1, <1>6 DEF LaunchInv, TouchedOnlyReserved, Past
<1>8. unit'[t] = "none"
  BY <1>1, <1>6, <1>7, UnitStep DEF Touched
<1> QED
  BY <1>5, <1>8

(* A launch is over when the agent has accepted it or the task has failed. *)
LEMMA LaunchEnds ==
    ASSUME OneThread, StaysUp, LinesInv, [Next]_vars,
           NEW th \in Threads, NEW t, Launches(th, t), ~Launches(th, t)'
    PROVE  /\ t = Current(th)
           /\ (Launched(th) /\ Reply(th).ok) \/ FailLaunch(th)
<1>1. CoordTypeOK /\ t = Current(th)
  BY DEF LinesInv, LaunchInv, Launches
<1>2. call[th].op = "dispatch" /\ call[th].step # "next"
  BY DEF Launches
<1>3. ~UNCHANGED call
  <2> SUFFICES ASSUME call' = call PROVE Launches(th, t)'
    OBVIOUS
  <2>1. Current(th)' = Current(th) /\ call'[th] = call[th]
    BY DEF Current
  <2> QED
    BY <2>1 DEF Launches
<1>4. ~StartCall(th)
  <2>1. StartCall(th) => Idle(th)
    BY DEF StartCall, RegisterByGateway, SubmitJob, BeginDispatch,
       BeginReconcile, BeginCancel, Begin
  <2>2. NoCall.op = "idle"
    BY DEF NoCall, NewCall
  <2> QED
    BY <1>2, <2>1, <2>2 DEF Idle
<1>5. \A step : step # "next" => ~Goto(th, step)
  BY <1>1, <1>2, Moves DEF Launches
<1>6. Step(th)
  <2>1. ~Restart /\ \A d \in Drones : ~DroneDown(d)
    BY DEF StaysUp, Restart, DroneDown, Fault
  <2> QED
    BY <1>3, <1>4, <2>1 DEF OneThread, Next, vars, Serve, Wither, Disconnect,
       Exit, RegisterByDashboard
<1>7. ~(\/ Reserve(th) \/ Poll(th) \/ SkipTask(th) \/ EndLoop(th)
        \/ SendRequest(th) \/ Requesting(th) \/ StillRunning(th)
        \/ RecordOutcome(th) \/ Stopped(th) \/ RecordCancelled(th))
  BY <1>2, <1>3 DEF Reserve, Poll, SkipTask, EndLoop, SendRequest, Requesting,
     StillRunning, RecordOutcome, Stopped, RecordCancelled, GetReply, AtNext,
     At
<1>8. ~RequestRaised(th)
  BY <1>2, <1>5 DEF RequestRaised
<1>9. Launched(th) => Reply(th).ok
  BY <1>5 DEF Launched
<1> QED
  BY <1>1, <1>6, <1>7, <1>8, <1>9 DEF Step

(* What the thread reads has been said before, to the same call. *)
LEMMA ToldBefore ==
    ASSUME OneThread, LinesInv, NEW th \in Threads, NEW p \in Processes,
           NEW reply \in Replies, StartCall(th) \/ Step(th),
           Uses(th, p)', ssh'[p].alive, Told(p, reply)'
    PROVE  /\ Uses(th, p) /\ ssh[p].alive /\ Told(p, reply)
           /\ UNCHANGED <<call, tasks>>
<1> DEFINE d == CurrentDrone(th)
<1>1. /\ CoordTypeOK /\ Links
      /\ process \in [Drones -> Processes \cup {None}]
      /\ place \in [Threads -> Places]
  BY Conns DEF LinesInv, LaunchInv
<1>2. ASSUME NEW step, Enter(th, step) PROVE place'[th].step = step
  BY <1>1, <1>2 DEF Enter
<1>3. place'[th].step \in {"read", "wait"}
  BY DEF Uses, In
<1>4. In(th, "out") => place' # place
  BY <1>3 DEF In
<1>5. ~StartCall(th)
  <2>1. ASSUME StartCall(th) PROVE Idle(th) /\ place' = place
    BY <2>1 DEF StartCall, RegisterByGateway, SubmitJob, BeginDispatch,
       BeginReconcile, BeginCancel, Begin, connVars
  <2>2. Idle(th) => In(th, "out")
    BY <1>1 DEF CoordTypeOK, Idle, NoCall, NewCall
  <2> QED
    BY <1>4, <2>1, <2>2
<1>6. ~(\/ Reserve(th) \/ Poll(th) \/ SkipTask(th) \/ EndLoop(th)
        \/ FailLaunch(th) \/ RecordCancelled(th))
  <2>1. call[th].step # "request" => In(th, "out")
    BY <1>1 DEF CoordTypeOK
  <2> QED
    BY <1>4, <2>1 DEF Reserve, Poll, SkipTask, EndLoop, FailLaunch,
       RecordCancelled, AtNext, At, connVars
<1>7. ~(\/ Launched(th) \/ StillRunning(th) \/ RecordOutcome(th)
        \/ Stopped(th) \/ RequestRaised(th))
  BY <1>2, <1>3 DEF Launched, StillRunning, RecordOutcome, Stopped,
     RequestRaised, GetReply, ReadLine, Raise, NoProcess, Clear, Leave
<1>8. ~SendRequest(th)
  BY <1>2, <1>3 DEF SendRequest, BeginRequest
<1>9. Requesting(th)
  BY <1>5, <1>6, <1>7, <1>8 DEF Step
<1>10. UNCHANGED <<call, tasks>>
  BY <1>9 DEF Requesting, fleetVars
<1>11. ~WriteLine(th, d, Line(th))
  <2> SUFFICES ASSUME WriteLine(th, d, Line(th)) PROVE FALSE
    OBVIOUS
  <2>1. ssh'[p].inbox = <<Line(th)>>
    BY <1>9, LinesWritten
  <2> QED
    BY <2>1, OneLine DEF Told
<1>12. BeginRead(th, d)
  BY <1>2, <1>3, <1>9, <1>11 DEF Requesting, Proceed, Connect, WriteRefused,
     ReadEnd, Terminate
<1>13. process[d] # None
  BY <1>2, <1>3, <1>12 DEF BeginRead
<1>14. place'[th] = [step |-> "wait", of |-> process[d]]
  BY <1>1, <1>12, <1>13 DEF BeginRead
<1> QED
  BY <1>10, <1>12, <1>14 DEF BeginRead, Uses, Told, In

LEMMA ToldStep ==
    ASSUME OneThread, StaysUp, RanInv, [Next]_vars, NEW th \in Threads
    PROVE  ToldOK(th)'
<1>1. /\ LinesInv /\ CoordTypeOK /\ Links
      /\ unit \in [1..MaxTasks -> UnitStates]
      /\ ssh \in [Processes -> Connection]
  BY Conns DEF RanInv, LinesInv, LaunchInv, CoordTypeOK
<1> SUFFICES ASSUME NEW p \in Processes, NEW reply \in Replies,
                    Uses(th, p)', ssh'[p].alive, Told(p, reply)'
             PROVE  StillSo(th, reply)'
  BY DEF ToldOK
<1> DEFINE c == Current(th)
<1>2. ASSUME Uses(th, p), ssh[p].alive, Told(p, reply),
             UNCHANGED <<call, tasks>>
      PROVE  StillSo(th, reply)'
  <2>1. StillSo(th, reply)
    BY <1>2 DEF RanInv, Ran, ToldOK
  <2>2. c \in 1..MaxTasks
    BY <1>1, <1>2, UsesBusy, Inside
  <2>3. UnitMoves(c)
    BY <1>1, <2>2, UnitMovesStep
  <2>4. Current(th)' = c /\ (Dispatching(th)' <=> Dispatching(th))
    BY <1>2 DEF Current, Dispatching, At
  <2>5. /\ Ended(c) => unit'[c] \in {"exited", "stopped"}
        /\ unit[c] # "none" => unit'[c] # "none"
    BY <2>3 DEF UnitMoves, Ended, UnitName
  <2> QED
    BY <1>2, <2>1, <2>4, <2>5 DEF StillSo, Ended
<1>3. CASE StartCall(th) \/ Step(th)
  BY <1>1, <1>2, <1>3, ToldBefore
<1>4. ASSUME UNCHANGED <<process, place, call, tasks>>, ssh'[p] = ssh[p]
      PROVE  StillSo(th, reply)'
  <2>1. CurrentDrone(th)' = CurrentDrone(th)
    BY <1>4 DEF CurrentDrone, Current
  <2>2. Uses(th, p) /\ ssh[p].alive /\ Told(p, reply)
    BY <1>4, <2>1 DEF Uses, In, Told
  <2> QED
    BY <1>2, <1>4, <2>2
<1>5. ASSUME NEW q \in Processes, Serve(q) PROVE StillSo(th, reply)'
  <2>1. PICK op \in Ops, t \in 1..MaxTasks, r \in Replies :
           /\ Head(ssh[q].inbox) = [op |-> op, task |-> t]
           /\ Answer(q, r)
           /\ Effect(op, t, r)
           /\ UNCHANGED <<tasks, call>>
    BY <1>1, <1>5, ServeShape
  <2>2. /\ \A o \in Processes \ {q} : ssh'[o] = ssh[o]
        /\ UNCHANGED <<process, place>>
        /\ \/ ~ssh'[q].alive
           \/ \E other \in Threads : /\ Uses(other, q)
                                     /\ Head(ssh[q].inbox) = Line(other)
                                     /\ Told(q, r)'
    BY <1>1, <2>1, LineServed, Ends
  <2>3. CASE p # q
    BY <1>4, <2>1, <2>2, <2>3
  <2>4. ASSUME p = q, Uses(th, p), [op |-> op, task |-> t] = Line(th),
               Told(p, r)'
        PROVE  StillSo(th, reply)'
    <3>1. reply = r
      <4>1. <<reply>> = <<r>>
        BY <2>4 DEF Told
      <4> QED
        BY <4>1, OneLine
    <3>2. op = call[th].op /\ t = c
      <4>1. Line(th).op = op /\ Line(th).task = t
        BY <2>4
      <4> QED
        BY <4>1 DEF Line
    <3>3. c \in TaskIds /\ RanOK(c)
      BY <1>1, <2>4, UsesBusy, Inside DEF RanInv, Ran
    <3>4. Current(th)' = c /\ call'[th] = call[th] /\ tasks' = tasks
      BY <2>1 DEF Current
    <3>5. Dispatching(th)' /\ reply.ok => unit'[c] # "none"
      BY <2>1, <3>1, <3>2, <3>4 DEF Effect, Dispatching, At, UnitName
    <3>6. ASSUME call[th].op = "reconcile", reply.active = "inactive",
                 tasks[c].status = "running", tasks[c].mode = "once"
          PROVE  unit'[c] \in {"exited", "stopped"}
      <4>1. unit'[c] = unit[c] /\ unit[c] \notin {"active", "failed"}
        BY <2>1, <3>1, <3>2, <3>6 DEF Effect
      <4>2. Launching(c) = {}
        BY <3>6 DEF Launching, Launches, OneThread
      <4>3. unit[c] # "none" /\ unit[c] # "service"
        BY <3>3, <3>6, <4>2 DEF RanOK
      <4>4. unit[c] \in UnitStates
        BY <1>1, <2>1, <3>2
      <4> QED
        BY <4>1, <4>3, <4>4 DEF UnitStates
    <3> QED
      BY <3>4, <3>5, <3>6 DEF StillSo, Ended
  <2>5. p = q => Uses(th, p) /\ [op |-> op, task |-> t] = Line(th)
                 /\ Told(p, r)'
    BY <2>1, <2>2 DEF OneThread
  <2> QED
    BY <2>3, <2>4, <2>5
<1>6. ASSUME NEW q \in Processes, Wither(q) \/ Disconnect(q)
      PROVE  StillSo(th, reply)'
  <2>1. /\ UNCHANGED <<process, place, call, tasks>>
        /\ ssh'[p] \in {ssh[p], Gone, Closed(ssh[p])}
    BY <1>1, <1>6 DEF Wither, Lose, Retire, Disconnect, Break, fleetVars
  <2>2. ssh'[p] = ssh[p]
    BY <2>1, Ends
  <2> QED
    BY <1>4, <2>1, <2>2
<1>7. ASSUME \/ \E t \in TaskIds : Exit(t)
             \/ \E d \in Drones : \E offer \in Offers[d] :
                   RegisterByDashboard(d, offer)
             \/ UNCHANGED vars
      PROVE  StillSo(th, reply)'
  <2>1. UNCHANGED <<process, place, call, tasks, ssh>>
    BY <1>7 DEF Exit, RegisterByDashboard, RegisterDrone, fleetVars, connVars,
                vars
  <2> QED
    BY <1>4, <2>1
<1>8. ~Restart /\ \A d \in Drones : ~DroneDown(d)
  BY DEF StaysUp, Restart, DroneDown, Fault
<1> QED
  BY <1>3, <1>5, <1>6, <1>7, <1>8 DEF Next, OneThread

LEMMA RanStep ==
    ASSUME OneThread, StaysUp, RanInv, [Next]_vars
    PROVE  Ran'
<1>1. LinesInv /\ LaunchInv /\ CoordTypeOK /\ Links
  BY DEF RanInv, LinesInv, LaunchInv
<1>2. ASSUME NEW t \in TaskIds' PROVE RanOK(t)'
  <2>1. CASE t \notin TaskIds
    BY <1>1, <1>2, <2>1, NewRow DEF RanOK
  <2>2. ASSUME t \in TaskIds PROVE RanOK(t)'
    <3>1. RanOK(t) /\ t \in 1..MaxTasks
      BY <1>1, <2>2, TasksInRange DEF RanInv, Ran
    <3>2. /\ Ended(t) => Ended(t)'
          /\ unit[t] # "none" => unit'[t] # "none"
          /\ unit'[t] = "service" =>
                 unit[t] = "service" \/ tasks[t].mode = "service"
      BY <1>1, <3>1, UnitMovesStep, UnitKept
    <3>3. tasks'[t].mode = tasks[t].mode /\ RowMoves(t)
      BY <1>1, <2>2, RowMovesStep
    (* An outcome is recorded on the word of the agent. *)
    <3>4. ASSUME NEW th \in Threads, Current(th) = t, RecordOutcome(th),
                 tasks[t].status = "running", tasks[t].mode = "once"
          PROVE  Ended(t)
      <4>1. PICK p \in Processes :
               /\ Reply(th) \in Replies
               /\ Uses(th, p) /\ ssh[p].alive /\ Told(p, Reply(th))
        BY <1>1, <3>4, ReplyRead DEF RecordOutcome, GetReply
      <4>2. StillSo(th, Reply(th))
        BY <4>1 DEF RanInv, Ran, ToldOK
      <4> QED
        BY <3>4, <4>2 DEF StillSo, RecordOutcome, GetReply, At
    <3>5. tasks'[t].status = "completed" /\ tasks'[t].mode = "once"
             => Ended(t)'
      BY <3>1, <3>2, <3>3, <3>4 DEF RanOK, RowMoves
    (* A launch that is over leaves a unit, or a task that has failed. *)
    <3>6. ASSUME tasks'[t].status = "running", Launching(t)' = {}
          PROVE  unit'[t] # "none"
      <4>1. \A th \in Threads : ~Launches(th, t)'
        BY <3>6 DEF Launching
      <4>2. tasks[t].status = "running"
        BY <3>3, <3>6, <4>1 DEF RowMoves
      <4>3. CASE Launching(t) = {}
        BY <3>1, <3>2, <4>2, <4>3 DEF RanOK
      <4>4. ASSUME NEW th \in Threads, Launches(th, t)
            PROVE  unit'[t] # "none"
        <5>1. /\ t = Current(th)
              /\ (Launched(th) /\ Reply(th).ok) \/ FailLaunch(th)
          BY <1>1, <4>1, <4>4, LaunchEnds
        <5>2. CASE Launched(th) /\ Reply(th).ok
          <6>1. PICK p \in Processes :
                   /\ Reply(th) \in Replies
                   /\ Uses(th, p) /\ ssh[p].alive /\ Told(p, Reply(th))
            BY <1>1, <5>2, ReplyRead DEF Launched, GetReply
          <6>2. StillSo(th, Reply(th))
            BY <6>1 DEF RanInv, Ran, ToldOK
          <6>3. unit[t] # "none"
            BY <5>1, <5>2, <6>2 DEF StillSo, Launched, GetReply, Dispatching
          <6> QED
            BY <3>2, <6>3
        <5>3. ~FailLaunch(th)
          <6> SUFFICES ASSUME TryUpdate(t, "failed") PROVE FALSE
            BY <5>1 DEF FailLaunch
          <6>1. CanUpdate(t, "failed")
            BY <4>2 DEF CanUpdate, Transitions
          <6>2. UpdateTask(t, "failed") /\ "failed" \in Statuses
            BY <6>1 DEF TryUpdate, Statuses
          <6>3. tasks'[t].status = "failed"
            BY <1>1, <2>2, <6>2, UpdatedRow
          <6> QED
            BY <3>6, <6>3
        <5> QED
          BY <5>1, <5>2, <5>3
      <4> QED
        BY <4>3, <4>4 DEF Launching
    <3> QED
      BY <3>1, <3>2, <3>3, <3>5, <3>6 DEF RanOK
  <2> QED
    BY <2>1, <2>2
<1>3. \A th \in Threads : ToldOK(th)'
  BY ToldStep
<1> QED
  BY <1>2, <1>3 DEF Ran

(* With one thread, and as long as neither a drone nor the coordinator goes
   down, a one-shot task that is recorded completed has run, or was stopped
   on request: broken connections and failed stops do not change that. *)
THEOREM CompletedHasRun ==
    ASSUME OneThread, StaysUp PROVE Spec => []CompletedAfterRun
<1>1. Init => RanInv
  <2> SUFFICES ASSUME Init PROVE RanInv
    OBVIOUS
  <2>1. tasks = << >> /\ \A th \in Threads : place[th].step = "out"
    BY DEF Init, FleetInit, ConnInit, Outside
  <2>2. \A th \in Threads : \A p : ~Uses(th, p)
    BY <2>1 DEF Uses, In
  <2>3. TaskIds = {}
    BY <2>1 DEF TaskIds
  <2> QED
    BY <2>2, <2>3, LinesInit DEF RanInv, Ran, ToldOK
<1>2. RanInv /\ [Next]_vars => RanInv'
  <2> SUFFICES ASSUME RanInv, [Next]_vars PROVE RanInv'
    OBVIOUS
  <2>1. LinesInv'
    BY LinesStep DEF RanInv
  <2> QED
    BY <2>1, RanStep DEF RanInv
<1>3. RanInv => CompletedAfterRun
  BY DEF RanInv, Ran, RanOK, Ended, CompletedAfterRun
<1> QED
  BY <1>1, <1>2, <1>3, PTL DEF Spec
=============================================================================
