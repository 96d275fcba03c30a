-------------------------- MODULE SSHTransportProofs --------------------------
(***************************************************************************)
(* Theorems about SSHTransport, for any number of threads and processes.   *)
(***************************************************************************)
EXTENDS SSHTransport, FiniteSetTheorems, TLAPS

(* One thread moves on. *)
LEMMA CallMoves ==
    ASSUME SSHTypeOK, NEW th \in Threads, NEW next \in Calls,
           next.of # None <=> next.step \in {"wait", "clear"},
           call' = [call EXCEPT ![th] = next]
    PROVE  /\ call' \in [Threads -> Calls]
           /\ call'[th] = next
           /\ \A other \in Threads \ {th} : call'[other] = call[other]
           /\ \A other \in Threads :
                 call'[other].of # None <=> call'[other].step \in {"wait", "clear"}
BY DEF SSHTypeOK

LEMMA Kinds ==
    /\ NoCall \in Calls /\ Fresh \in Process /\ Ended \in Process
    /\ NoCall.step = "idle" /\ NoCall.of = None
    /\ \A p \in Processes : /\ [step |-> "wait", of |-> p] \in Calls
                            /\ [step |-> "clear", of |-> p] \in Calls
    /\ [step |-> "close", of |-> None] \in Calls
BY DEF NoCall, Calls, Steps, Fresh, Ended, Process

(* Without a process, a thread only changes its step. *)
LEMMA StepMoves ==
    ASSUME SSHTypeOK, NEW th \in Threads, NEW step \in Steps,
           call[th].step \notin {"wait", "clear"}, step \notin {"wait", "clear"},
           Goto(th, step)
    PROVE  call' = [call EXCEPT ![th] = [step |-> step, of |-> None]]
           /\ [step |-> step, of |-> None] \in Calls
<1>1. call[th] \in Calls /\ call[th].of = None
  BY DEF SSHTypeOK
<1>2. [call[th] EXCEPT !.step = step] = [step |-> step, of |-> None]
  BY <1>1 DEF Calls
<1> QED
  BY <1>2 DEF Goto, Calls

-----------------------------------------------------------------------------
(* What the actions do: which thread moves, to which call, and which process
   changes. *)

Moves(th, next) ==
    /\ next \in Calls
    /\ next.of # None <=> next.step \in {"wait", "clear"}
    /\ call' = [call EXCEPT ![th] = next]

LEMMA BeginShape ==
    ASSUME SSHTypeOK, NEW th \in Threads, BeginRequest(th) \/ BeginPush(th)
    PROVE  \E step \in {"connect", "write", "push"} :
              Moves(th, [step |-> step, of |-> None])
<1>1. call[th].step = "idle"
  BY DEF BeginRequest, BeginPush, At
<1>2. PICK step \in {"connect", "write", "push"} : Goto(th, step)
  BY DEF BeginRequest, BeginPush
<1> QED
  BY <1>1, <1>2, StepMoves DEF Moves, Steps

LEMMA PopenShape ==
    ASSUME SSHTypeOK, NEW th \in Threads, Connect(th) \/ ConnectForPush(th)
    PROVE  /\ call[th].step \in {"connect", "push"}
           /\ \E step \in {"write", "idle"} :
                 Moves(th, [step |-> step, of |-> None])
           /\ Popen(th)
<1>1. call[th].step \in {"connect", "push"} /\ Popen(th)
  BY DEF Connect, ConnectForPush, At
<1>2. CASE Goto(th, "write")
  BY <1>1, <1>2, StepMoves DEF Moves, Steps
<1>3. CASE Return(th)
  BY <1>1, <1>3, Kinds DEF Return, NoCall, Moves
<1> QED
  BY <1>1, <1>2, <1>3 DEF Connect, ConnectForPush

LEMMA WriteShape ==
    ASSUME SSHTypeOK, NEW th \in Threads, WriteLine(th)
    PROVE  /\ call[th].step = "write" /\ process' = process /\ raced' = raced
           /\ \/ /\ process = None /\ ssh' = ssh
                 /\ Moves(th, [step |-> "idle", of |-> None])
              \/ /\ process # None /\ ssh[process].alive
                 /\ ssh' = [ssh EXCEPT ![process].inbox = Append(@, th)]
                 /\ Moves(th, [step |-> "read", of |-> None])
              \/ /\ process # None /\ ~ssh[process].alive /\ ssh' = ssh
                 /\ Moves(th, [step |-> "close", of |-> None])
<1>1. call[th].step = "write" /\ process' = process /\ raced' = raced
  BY DEF WriteLine, At
<1>2. CASE process = None /\ Return(th) /\ ssh' = ssh
  BY <1>1, <1>2, Kinds DEF Return, NoCall, Moves
<1>3. CASE /\ process # None /\ ~Alive(process) /\ ssh' = ssh
           /\ Goto(th, "close")
  BY <1>1, <1>3, StepMoves DEF Moves, Steps, Alive
<1>4. CASE /\ Alive(process) /\ Goto(th, "read")
           /\ ssh' = [ssh EXCEPT ![process].inbox = Append(@, th)]
  BY <1>1, <1>4, StepMoves DEF Moves, Steps, Alive
<1> QED
  BY <1>1, <1>2, <1>3, <1>4 DEF WriteLine

LEMMA ReadShape ==
    ASSUME SSHTypeOK, NEW th \in Threads,
           BeginRead(th) \/ ReadLine(th) \/ ReadEnd(th)
    PROVE  /\ process' = process /\ raced' = raced
           /\ \/ /\ call[th].step = "read" /\ ssh' = ssh /\ process = None
                 /\ Moves(th, [step |-> "close", of |-> None])
              \/ /\ call[th].step = "read" /\ ssh' = ssh /\ process # None
                 /\ Moves(th, [step |-> "wait", of |-> process])
              \/ /\ call[th].step = "wait" /\ call[th].of \in Processes
                 /\ ssh[call[th].of].outbox # << >>
                 /\ ssh' = [ssh EXCEPT ![call[th].of].outbox = Tail(@)]
                 /\ Moves(th, [step |-> "idle", of |-> None])
              \/ /\ call[th].step = "wait" /\ call[th].of \in Processes
                 /\ ~ssh[call[th].of].alive /\ ssh' = ssh
                 /\ Moves(th, [step |-> "close", of |-> None])
<1>1. call[th] \in Calls /\ process \in Processes \cup {None}
  BY DEF SSHTypeOK
<1>2. CASE BeginRead(th)
  BY <1>1, <1>2, Kinds DEF BeginRead, At, Moves
<1>3. CASE ReadLine(th)
  <2>1. call[th].step = "wait" /\ call[th].of \in Processes
    BY <1>1, <1>3 DEF ReadLine, At, SSHTypeOK, Calls
  <2> QED
    BY <1>3, <2>1, Kinds DEF ReadLine, Return, NoCall, Moves
<1>4. CASE ReadEnd(th)
  <2>1. call[th].step = "wait" /\ call[th].of \in Processes
    BY <1>1, <1>4 DEF ReadEnd, At, SSHTypeOK, Calls
  <2> QED
    BY <1>4, <2>1, Kinds DEF ReadEnd, Moves
<1> QED
  BY <1>2, <1>3, <1>4

LEMMA CloseShape ==
    ASSUME SSHTypeOK, NEW th \in Threads, Terminate(th) \/ Clear(th)
    PROVE  \/ /\ call[th].step = "close" /\ process = None
              /\ process' = process /\ raced' = raced /\ ssh' = ssh
              /\ Moves(th, [step |-> "idle", of |-> None])
           \/ /\ call[th].step = "close" /\ process \in Processes
              /\ process' = process /\ raced' = raced
              /\ ssh' = [ssh EXCEPT ![process] = Ended]
              /\ Moves(th, [step |-> "clear", of |-> process])
           \/ /\ call[th].step = "clear" /\ process' = None /\ ssh' = ssh
              /\ raced' = (raced \/ process \notin {None, call[th].of})
              /\ Moves(th, [step |-> "idle", of |-> None])
<1>1. call[th] \in Calls /\ process \in Processes \cup {None}
  BY DEF SSHTypeOK
<1>2. CASE Terminate(th)
  BY <1>1, <1>2, Kinds, NoneAssumption DEF Terminate, At, Return, NoCall, Moves
<1>3. CASE Clear(th)
  BY <1>3, Kinds DEF Clear, At, Return, NoCall, Moves
<1> QED
  BY <1>2, <1>3
-----------------------------------------------------------------------------
(* The type invariant *)

LEMMA InitType == SSHInit => SSHTypeOK
<1> SUFFICES ASSUME SSHInit PROVE SSHTypeOK
  OBVIOUS
<1>1. /\ ssh \in [Processes -> Process]
      /\ \A p \in Processes : ssh[p] = Ended
  BY Kinds DEF SSHInit
<1>2. /\ call \in [Threads -> Calls]
      /\ \A th \in Threads : call[th] = NoCall
  BY Kinds DEF SSHInit
<1> QED
  BY <1>1, <1>2, Kinds DEF SSHInit, SSHTypeOK

LEMMA ProcessUpdates ==
    ASSUME NEW r \in Process, NEW x, NEW y
    PROVE  /\ [r EXCEPT !.inbox = x] =
                 [alive |-> r.alive, inbox |-> x, outbox |-> r.outbox]
           /\ [r EXCEPT !.outbox = y] =
                 [alive |-> r.alive, inbox |-> r.inbox, outbox |-> y]
           /\ [r EXCEPT !.inbox = x, !.outbox = y] =
                 [alive |-> r.alive, inbox |-> x, outbox |-> y]
<1>1. r = [alive |-> r.alive, inbox |-> r.inbox, outbox |-> r.outbox]
  BY DEF Process
<1>2. [r EXCEPT !.inbox = x] =
        [alive |-> r.alive, inbox |-> x, outbox |-> r.outbox]
  BY <1>1
<1>3. [r EXCEPT !.outbox = y] =
        [alive |-> r.alive, inbox |-> r.inbox, outbox |-> y]
  BY <1>1
<1>4. [r EXCEPT !.inbox = x, !.outbox = y] =
        [[r EXCEPT !.inbox = x] EXCEPT !.outbox = y]
  BY Zenon
<1>5. [[alive |-> r.alive, inbox |-> x, outbox |-> r.outbox]
          EXCEPT !.outbox = y] =
        [alive |-> r.alive, inbox |-> x, outbox |-> y]
  OBVIOUS
<1> QED
  BY <1>2, <1>3, <1>4, <1>5

LEMMA PopenType ==
    ASSUME SSHTypeOK, NEW th \in Threads, Popen(th)
    PROVE  /\ process' \in Processes
           /\ process' # process /\ ~ssh[process'].alive /\ Using(process') = {}
           /\ ssh' \in [Processes -> Process]
           /\ ssh' = [ssh EXCEPT ![process'] = Fresh]
           /\ raced' = (raced \/ Overtakes(th))
<1>1. PICK p \in Free : process' = p /\ ssh' = [ssh EXCEPT ![p] = Fresh]
  BY DEF Popen
<1>2. p \in Processes /\ p # process /\ ~ssh[p].alive /\ Using(p) = {}
  BY <1>1 DEF Free
<1> QED
  BY <1>1, <1>2, Kinds DEF Popen, SSHTypeOK

LEMMA AnswerType ==
    ASSUME SSHTypeOK, NEW p \in Processes, Answer(p)
    PROVE  /\ ssh[p].alive /\ ssh' \in [Processes -> Process]
           /\ ssh'[p].alive
           /\ ssh'[p].inbox = Tail(ssh[p].inbox)
           /\ ssh'[p].outbox = Append(ssh[p].outbox, Head(ssh[p].inbox))
           /\ \A q \in Processes \ {p} : ssh'[q] = ssh[q]
<1>1. ssh \in [Processes -> Process] /\ ssh[p] \in Process
  BY DEF SSHTypeOK
<1>2. ssh[p].inbox # << >> /\ ssh[p].alive
  BY DEF Answer, SSHTypeOK, Ended
<1>3. /\ ssh[p].inbox \in Seq(Threads) /\ ssh[p].outbox \in Seq(Threads)
      /\ ssh[p].alive \in BOOLEAN
  BY <1>1 DEF Process
<1>4. Head(ssh[p].inbox) \in Threads /\ Tail(ssh[p].inbox) \in Seq(Threads)
  BY <1>2, <1>3
<1>5. [alive |-> ssh[p].alive, inbox |-> Tail(ssh[p].inbox),
       outbox |-> Append(ssh[p].outbox, Head(ssh[p].inbox))] \in Process
  BY <1>3, <1>4 DEF Process
<1>6. ssh' = [ssh EXCEPT ![p] =
        [alive |-> ssh[p].alive, inbox |-> Tail(ssh[p].inbox),
         outbox |-> Append(ssh[p].outbox, Head(ssh[p].inbox))]]
  BY <1>1 DEF Answer
<1>7. /\ ssh'[p].alive = ssh[p].alive
      /\ ssh'[p].inbox = Tail(ssh[p].inbox)
      /\ ssh'[p].outbox = Append(ssh[p].outbox, Head(ssh[p].inbox))
  BY <1>1, <1>6
<1> QED
  BY <1>1, <1>2, <1>5, <1>6, <1>7

LEMMA WriteType ==
    ASSUME SSHTypeOK, NEW th \in Threads, process \in Processes,
           ssh[process].alive,
           ssh' = [ssh EXCEPT ![process].inbox = Append(@, th)]
    PROVE  /\ ssh' \in [Processes -> Process]
           /\ ssh'[process].alive
           /\ ssh'[process].inbox = Append(ssh[process].inbox, th)
           /\ ssh'[process].outbox = ssh[process].outbox
           /\ \A q \in Processes \ {process} : ssh'[q] = ssh[q]
<1>1. ssh \in [Processes -> Process] /\ ssh[process] \in Process
  BY DEF SSHTypeOK
<1>2. /\ ssh[process].inbox \in Seq(Threads)
      /\ ssh[process].outbox \in Seq(Threads)
      /\ ssh[process].alive \in BOOLEAN
  BY <1>1 DEF Process
<1>3. [alive |-> ssh[process].alive, inbox |-> Append(ssh[process].inbox, th),
       outbox |-> ssh[process].outbox] \in Process
  BY <1>2 DEF Process
<1>4. ssh' = [ssh EXCEPT ![process] =
        [alive |-> ssh[process].alive, inbox |-> Append(ssh[process].inbox, th),
         outbox |-> ssh[process].outbox]]
  BY <1>1, ProcessUpdates
<1>5. /\ ssh'[process].alive = ssh[process].alive
      /\ ssh'[process].inbox = Append(ssh[process].inbox, th)
      /\ ssh'[process].outbox = ssh[process].outbox
  BY <1>1, <1>4
<1> QED
  BY <1>1, <1>3, <1>4, <1>5

LEMMA ReadType ==
    ASSUME SSHTypeOK, NEW p \in Processes, ssh[p].outbox # << >>,
           ssh' = [ssh EXCEPT ![p].outbox = Tail(@)]
    PROVE  /\ ssh[p].alive /\ ssh' \in [Processes -> Process]
           /\ ssh'[p].alive
           /\ ssh'[p].inbox = ssh[p].inbox
           /\ ssh'[p].outbox = Tail(ssh[p].outbox)
           /\ \A q \in Processes \ {p} : ssh'[q] = ssh[q]
<1>1. ssh \in [Processes -> Process] /\ ssh[p] \in Process
  BY DEF SSHTypeOK
<1>2. ssh[p].alive
  BY DEF SSHTypeOK, Ended
<1>3. /\ ssh[p].inbox \in Seq(Threads) /\ ssh[p].outbox \in Seq(Threads)
      /\ ssh[p].alive \in BOOLEAN
  BY <1>1 DEF Process
<1>4. Tail(ssh[p].outbox) \in Seq(Threads)
  BY <1>3
<1>5. [alive |-> ssh[p].alive, inbox |-> ssh[p].inbox,
       outbox |-> Tail(ssh[p].outbox)] \in Process
  BY <1>3, <1>4 DEF Process
<1>6. ssh' = [ssh EXCEPT ![p] = [alive |-> ssh[p].alive, inbox |-> ssh[p].inbox,
                                 outbox |-> Tail(ssh[p].outbox)]]
  BY <1>1, ProcessUpdates
<1>7. /\ ssh'[p].alive = ssh[p].alive
      /\ ssh'[p].inbox = ssh[p].inbox
      /\ ssh'[p].outbox = Tail(ssh[p].outbox)
  BY <1>1, <1>6
<1> QED
  BY <1>1, <1>2, <1>5, <1>6, <1>7

(* The threads keep their types, and so do the processes. *)
LEMMA TypeFrom ==
    ASSUME SSHTypeOK,
           \/ call' = call
           \/ \E th \in Threads : \E next \in Calls : Moves(th, next),
           process' \in Processes \cup {None}, raced' \in BOOLEAN,
           ssh' \in [Processes -> Process],
           \A p \in Processes : ssh'[p].alive \/ ssh'[p] = Ended
    PROVE  SSHTypeOK'
<1>1. CASE call' = call
  BY <1>1 DEF SSHTypeOK
<1>2. CASE \E th \in Threads : \E next \in Calls : Moves(th, next)
  <2>1. PICK th \in Threads, next \in Calls : Moves(th, next)
    BY <1>2
  <2> QED
    BY <2>1, CallMoves DEF Moves, SSHTypeOK
<1> QED
  BY <1>1, <1>2

LEMMA TypeStep == SSHTypeOK /\ [SSHNext]_vars => SSHTypeOK'
<1> SUFFICES ASSUME SSHTypeOK, [SSHNext]_vars PROVE SSHTypeOK'
  OBVIOUS
<1>0. /\ process \in Processes \cup {None} /\ raced \in BOOLEAN
      /\ ssh \in [Processes -> Process]
      /\ \A p \in Processes : ssh[p].alive \/ ssh[p] = Ended
  BY DEF SSHTypeOK
<1>1. ASSUME NEW th \in Threads, BeginRequest(th) \/ BeginPush(th)
      PROVE  SSHTypeOK'
  <2>1. process' = process /\ ssh' = ssh /\ raced' = raced
    BY <1>1 DEF BeginRequest, BeginPush
  <2> QED
    BY <1>0, <1>1, <2>1, BeginShape, TypeFrom DEF Moves
<1>2. ASSUME NEW th \in Threads, Connect(th) \/ ConnectForPush(th)
      PROVE  SSHTypeOK'
  <2>1. /\ process' \in Processes /\ ssh' \in [Processes -> Process]
        /\ ssh' = [ssh EXCEPT ![process'] = Fresh]
        /\ raced' = (raced \/ Overtakes(th))
    BY <1>2, PopenShape, PopenType
  <2>2. \A p \in Processes : ssh'[p].alive \/ ssh'[p] = Ended
    BY <1>0, <2>1 DEF Fresh
  <2>3. raced' \in BOOLEAN
    BY <1>0, <2>1 DEF Overtakes
  <2>4. \E next \in Calls : Moves(th, next)
    BY <1>2, PopenShape DEF Moves
  <2> QED
    BY <2>1, <2>2, <2>3, <2>4, TypeFrom
<1>3. ASSUME NEW th \in Threads, WriteLine(th)
      PROVE  SSHTypeOK'
  <2>1. process' = process /\ raced' = raced
    BY <1>3, WriteShape
  <2>2. \E next \in Calls : Moves(th, next)
    BY <1>3, WriteShape DEF Moves
  <2>3. /\ ssh' \in [Processes -> Process]
        /\ \A p \in Processes : ssh'[p].alive \/ ssh'[p] = Ended
    BY <1>0, <1>3, WriteShape, WriteType
  <2> QED
    BY <1>0, <2>1, <2>2, <2>3, TypeFrom
<1>4. ASSUME NEW th \in Threads, BeginRead(th) \/ ReadLine(th) \/ ReadEnd(th)
      PROVE  SSHTypeOK'
  <2>1. process' = process /\ raced' = raced
    BY <1>4, ReadShape
  <2>2. \E next \in Calls : Moves(th, next)
    BY <1>4, ReadShape DEF Moves
  <2>3. /\ ssh' \in [Processes -> Process]
        /\ \A p \in Processes : ssh'[p].alive \/ ssh'[p] = Ended
    <3>1. CASE ssh' = ssh
      BY <1>0, <3>1
    <3>2. CASE \E p \in Processes :
                 /\ ssh[p].outbox # << >>
                 /\ ssh' = [ssh EXCEPT ![p].outbox = Tail(@)]
      BY <1>0, <3>2, ReadType
    <3> QED
      BY <1>4, <3>1, <3>2, ReadShape
  <2> QED
    BY <1>0, <2>1, <2>2, <2>3, TypeFrom
<1>5. ASSUME NEW th \in Threads, Terminate(th) \/ Clear(th)
      PROVE  SSHTypeOK'
  <2>1. process' \in Processes \cup {None} /\ raced' \in BOOLEAN
    BY <1>0, <1>5, CloseShape
  <2>2. \E next \in Calls : Moves(th, next)
    BY <1>5, CloseShape DEF Moves
  <2>3. /\ ssh' \in [Processes -> Process]
        /\ \A p \in Processes : ssh'[p].alive \/ ssh'[p] = Ended
    BY <1>0, <1>5, CloseShape, Kinds
  <2> QED
    BY <2>1, <2>2, <2>3, TypeFrom
<1>6. ASSUME NEW p \in Processes, Answer(p)
      PROVE  SSHTypeOK'
  <2>1. process' = process /\ raced' = raced /\ call' = call
    BY <1>6 DEF Answer
  <2>2. /\ ssh' \in [Processes -> Process]
        /\ \A q \in Processes : ssh'[q].alive \/ ssh'[q] = Ended
    BY <1>0, <1>6, AnswerType
  <2> QED
    BY <1>0, <2>1, <2>2, TypeFrom
<1>7. ASSUME NEW p \in Processes, End(p)
      PROVE  SSHTypeOK'
  <2>1. /\ process' = process /\ raced' = raced /\ call' = call
        /\ ssh' = [ssh EXCEPT ![p] = Ended]
    BY <1>7 DEF End
  <2> QED
    BY <1>0, <2>1, Kinds, TypeFrom
<1>8. CASE UNCHANGED vars
  BY <1>0, <1>8, TypeFrom DEF vars
<1> QED
  BY <1>1, <1>2, <1>3, <1>4, <1>5, <1>6, <1>7, <1>8 DEF SSHNext, Proceed

(* Whatever threads do to each other, the object keeps its types: a process
   that has ended holds no lines. *)
THEOREM SSHTypeCorrect == SSHSpec => []SSHTypeOK
<1> QED
  BY InitType, TypeStep, PTL DEF SSHSpec

-----------------------------------------------------------------------------
(* Lines and readers *)

IsReader(k) == k.step = "read" \/ (k.step = "wait" /\ k.of = process)

(* Between the lines in the stream in use and those who read from it. *)
LinesInv ==
    process # None =>
        /\ Lines(process) <= Cardinality(Readers)
        /\ ~raced /\ ssh[process].alive => Lines(process) = Cardinality(Readers)

Base == SSHTypeOK /\ LinesInv

LEMMA ReadersFinite ==
    /\ Readers = {th \in Threads : IsReader(call[th])}
    /\ IsFiniteSet(Readers) /\ Cardinality(Readers) \in Nat
<1>1. Readers = {th \in Threads : IsReader(call[th])}
  BY DEF Readers, IsReader, At
<1>2. Readers \subseteq Threads
  BY <1>1
<1> QED
  BY <1>1, <1>2, ThreadsAssumption, FS_Subset, FS_CardinalityType

(* While self.process stays, a thread that moves joins the readers, leaves
   them, or neither. *)
LEMMA ReadersMove ==
    ASSUME SSHTypeOK, NEW th \in Threads, NEW next \in Calls, Moves(th, next),
           process' = process
    PROVE  /\ Readers' = IF IsReader(next) THEN Readers \cup {th}
                         ELSE Readers \ {th}
           /\ th \in Readers <=> IsReader(call[th])
           /\ Cardinality(Readers') =
                 IF IsReader(next) = IsReader(call[th]) THEN Cardinality(Readers)
                 ELSE IF IsReader(next) THEN Cardinality(Readers) + 1
                 ELSE Cardinality(Readers) - 1
<1>1. /\ call'[th] = next
      /\ \A other \in Threads \ {th} : call'[other] = call[other]
  BY CallMoves DEF Moves
<1>2. /\ Readers = {o \in Threads : IsReader(call[o])}
      /\ Readers' = {o \in Threads : IsReader(call[o])'}
  BY DEF Readers, IsReader, At
<1>3. \A o \in Threads : IsReader(call[o])' <=>
          IF o = th THEN IsReader(next) ELSE IsReader(call[o])
  BY <1>1 DEF IsReader
<1>4. th \in Readers <=> IsReader(call[th])
  BY <1>2
<1>5. Readers' = IF IsReader(next) THEN Readers \cup {th} ELSE Readers \ {th}
  BY <1>2, <1>3
<1>6. IsReader(next) \in BOOLEAN /\ IsReader(call[th]) \in BOOLEAN
  BY DEF IsReader
<1>7. CASE IsReader(next) = IsReader(call[th])
  <2>1. Readers' = Readers
    BY <1>4, <1>5, <1>7
  <2> QED
    BY <1>4, <1>5, <1>7, <2>1
<1>8. CASE IsReader(next) /\ ~IsReader(call[th])
  <2>1. Cardinality(Readers \cup {th}) = Cardinality(Readers) + 1
    BY <1>4, <1>8, ReadersFinite, FS_AddElement
  <2> QED
    BY <1>4, <1>5, <1>8, <2>1
<1>9. CASE ~IsReader(next) /\ IsReader(call[th])
  <2>1. Cardinality(Readers \ {th}) = Cardinality(Readers) - 1
    BY <1>4, <1>9, ReadersFinite, FS_RemoveElement
  <2> QED
    BY <1>4, <1>5, <1>9, <2>1
<1> QED
  BY <1>6, <1>7, <1>8, <1>9

LEMMA ReadersStay ==
    ASSUME UNCHANGED <<process, call>>
    PROVE  Readers' = Readers
BY DEF Readers, At

LEMMA LineCounts ==
    ASSUME SSHTypeOK, NEW p \in Processes
    PROVE  /\ ssh[p].inbox \in Seq(Threads) /\ ssh[p].outbox \in Seq(Threads)
           /\ Lines(p) \in Nat
           /\ Lines(p) # 0 => ssh[p].alive
<1>1. ssh[p] \in Process
  BY DEF SSHTypeOK
<1>2. ssh[p].inbox \in Seq(Threads) /\ ssh[p].outbox \in Seq(Threads)
  BY <1>1 DEF Process
<1>3. ~ssh[p].alive => Lines(p) = 0
  <2>1. Len(Ended.inbox) = 0 /\ Len(Ended.outbox) = 0
    BY DEF Ended
  <2>2. ~ssh[p].alive => ssh[p] = Ended
    BY DEF SSHTypeOK
  <2>3. ssh[p] = Ended => Lines(p) = 0 + 0
    BY <2>1 DEF Lines
  <2> QED
    BY <2>2, <2>3
<1>4. Lines(p) \in Nat
  <2>1. PICK m \in Nat, n \in Nat :
           m = Len(ssh[p].inbox) /\ n = Len(ssh[p].outbox)
    BY <1>2
  <2>2. Lines(p) = m + n
    BY <2>1 DEF Lines
  <2> QED
    BY <2>2
<1> QED
  BY <1>2, <1>3, <1>4

LEMMA InitBase == SSHInit => Base
BY InitType DEF SSHInit, Base, LinesInv

(* self.process and the lines in its stream stay as they are. *)
LEMMA SameLines ==
    ASSUME Base, process' = process, raced' = raced,
           process # None =>
              /\ Lines(process)' = Lines(process)
              /\ ssh'[process].alive <=> ssh[process].alive,
           Cardinality(Readers') = Cardinality(Readers)
    PROVE  LinesInv'
BY DEF Base, LinesInv

LEMMA PopenLines ==
    ASSUME Base, NEW th \in Threads, Connect(th) \/ ConnectForPush(th)
    PROVE  LinesInv'
<1>0. SSHTypeOK
  BY DEF Base
<1>1. /\ process' \in Processes /\ Using(process') = {}
      /\ ssh' = [ssh EXCEPT ![process'] = Fresh]
      /\ raced' = (raced \/ Overtakes(th))
      /\ ssh \in [Processes -> Process]
  BY <1>0, PopenShape, PopenType DEF SSHTypeOK
<1>2. Lines(process)' = 0
  <2>1. ssh'[process'] = Fresh
    BY <1>1
  <2>2. Len(Fresh.inbox) = 0 /\ Len(Fresh.outbox) = 0
    BY DEF Fresh
  <2> QED
    BY <2>1, <2>2 DEF Lines
<1>3. SSHTypeOK'
  BY <1>0, TypeStep DEF SSHNext, Proceed
<1>4. IsFiniteSet(Readers') /\ Cardinality(Readers') \in Nat
  <2>1. Readers' \subseteq Threads
    BY DEF Readers
  <2> QED
    BY <2>1, ThreadsAssumption, FS_Subset, FS_CardinalityType
<1>5. ~raced' => Readers' = {}
  <2>1. PICK next \in Calls : Moves(th, next) /\ next.of = None
                              /\ next.step \in {"write", "idle"}
    BY <1>0, PopenShape DEF Moves
  <2>2. /\ call'[th] = next
        /\ \A o \in Threads \ {th} : call'[o] = call[o]
    BY <1>0, <2>1, CallMoves DEF Moves
  <2>3. ~raced' => \A o \in Threads \ {th} : call[o].step # "read"
    BY <1>1 DEF Overtakes, At
  <2>4. \A o \in Threads : call[o].of # process'
    BY <1>1 DEF Using
  <2> QED
    BY <2>1, <2>2, <2>3, <2>4 DEF Readers, At
<1>6. Cardinality({}) = 0
  BY FS_EmptySet
<1> QED
  BY <1>1, <1>2, <1>4, <1>5, <1>6 DEF LinesInv

LEMMA WriteLines ==
    ASSUME Base, NEW th \in Threads, WriteLine(th)
    PROVE  LinesInv'
<1>0. SSHTypeOK /\ LinesInv
  BY DEF Base
<1>1. /\ call[th].step = "write" /\ process' = process /\ raced' = raced
      /\ process \in Processes \cup {None} /\ ~IsReader(call[th])
  BY <1>0, WriteShape DEF SSHTypeOK, IsReader
<1>2. CASE /\ ssh' = ssh
           /\ \E step \in {"idle", "close"} :
                 Moves(th, [step |-> step, of |-> None])
  <2>1. PICK next \in Calls : Moves(th, next) /\ ~IsReader(next)
    BY <1>2 DEF IsReader, Moves
  <2>2. Cardinality(Readers') = Cardinality(Readers)
    BY <1>0, <1>1, <2>1, ReadersMove
  <2> QED
    BY <1>1, <1>2, <2>2, SameLines DEF Lines
<1>3. CASE /\ process # None /\ ssh[process].alive
           /\ ssh' = [ssh EXCEPT ![process].inbox = Append(@, th)]
           /\ Moves(th, [step |-> "read", of |-> None])
  <2>1. PICK next \in Calls : Moves(th, next) /\ IsReader(next)
    BY <1>3 DEF IsReader, Moves
  <2>2. Cardinality(Readers') = Cardinality(Readers) + 1
    BY <1>0, <1>1, <2>1, ReadersMove DEF IsReader
  <2>3. /\ ssh'[process].inbox = Append(ssh[process].inbox, th)
        /\ ssh'[process].outbox = ssh[process].outbox
    BY <1>0, <1>1, <1>3, WriteType
  <2>4. Len(Append(ssh[process].inbox, th)) = Len(ssh[process].inbox) + 1
    BY <1>0, <1>1, <1>3, LineCounts
  <2>5. Lines(process)' = Lines(process) + 1
    <3>1. /\ Len(ssh[process].inbox) \in Nat
          /\ Len(ssh[process].outbox) \in Nat
      BY <1>0, <1>1, <1>3, LineCounts
    <3>2. PICK m \in Nat, n \in Nat : /\ m = Len(ssh[process].inbox)
                                      /\ n = Len(ssh[process].outbox)
      BY <3>1
    <3>3. Lines(process) = m + n /\ Lines(process)' = (m + 1) + n
      BY <1>1, <2>3, <2>4, <3>2 DEF Lines
    <3> QED
      BY <3>3
  <2>6. Lines(process) \in Nat /\ Cardinality(Readers) \in Nat
    BY <1>0, <1>1, <1>3, LineCounts, ReadersFinite
  <2> QED
    BY <1>0, <1>1, <1>3, <2>2, <2>5, <2>6 DEF LinesInv
<1> QED
  BY <1>0, <1>2, <1>3, WriteShape

LEMMA ReadLines ==
    ASSUME Base, NEW th \in Threads, BeginRead(th) \/ ReadLine(th) \/ ReadEnd(th)
    PROVE  LinesInv'
<1>0. /\ SSHTypeOK /\ LinesInv /\ process' = process /\ raced' = raced
      /\ process \in Processes \cup {None}
  BY ReadShape DEF Base, SSHTypeOK
<1>1. CASE process = None
  BY <1>0, <1>1 DEF LinesInv
<1>2. CASE /\ process # None /\ call[th].step = "read" /\ ssh' = ssh
           /\ Moves(th, [step |-> "wait", of |-> process])
  <2>1. PICK next \in Calls : Moves(th, next) /\ IsReader(next)
    BY <1>2 DEF IsReader, Moves
  <2>2. Cardinality(Readers') = Cardinality(Readers)
    BY <1>0, <1>2, <2>1, ReadersMove DEF IsReader
  <2> QED
    BY <1>0, <1>2, <2>2, SameLines DEF Lines
<1>3. CASE /\ process # None
           /\ call[th].step = "wait" /\ call[th].of \in Processes
           /\ ssh[call[th].of].outbox # << >>
           /\ ssh' = [ssh EXCEPT ![call[th].of].outbox = Tail(@)]
           /\ Moves(th, [step |-> "idle", of |-> None])
  <2>1. PICK next \in Calls : Moves(th, next) /\ ~IsReader(next)
    BY <1>3 DEF IsReader, Moves
  <2>2. CASE call[th].of # process
    <3>1. Cardinality(Readers') = Cardinality(Readers)
      BY <1>0, <1>3, <2>1, <2>2, ReadersMove DEF IsReader
    <3>2. ssh'[process] = ssh[process]
      BY <1>0, <1>3, <2>2, ReadType
    <3> QED
      BY <1>0, <3>1, <3>2, SameLines DEF Lines
  <2>3. CASE call[th].of = process
    <3>1. Cardinality(Readers') = Cardinality(Readers) - 1
      BY <1>0, <1>3, <2>1, <2>3, ReadersMove DEF IsReader
    <3>2. /\ ssh'[process].inbox = ssh[process].inbox /\ ssh[process].alive
          /\ ssh'[process].outbox = Tail(ssh[process].outbox)
      BY <1>0, <1>3, <2>3, ReadType
    <3>3. /\ ssh[process].inbox \in Seq(Threads)
          /\ ssh[process].outbox \in Seq(Threads)
      BY <1>0, <1>3, LineCounts
    <3>4. /\ Len(Tail(ssh[process].outbox)) = Len(ssh[process].outbox) - 1
          /\ Len(ssh[process].inbox) \in Nat
          /\ Len(ssh[process].outbox) \in Nat
      BY <1>3, <2>3, <3>3
    <3>5. Lines(process)' = Lines(process) - 1
      <4>1. PICK m \in Nat, n \in Nat : /\ m = Len(ssh[process].inbox)
                                        /\ n = Len(ssh[process].outbox)
        BY <3>4
      <4>2. Lines(process) = m + n /\ Lines(process)' = m + (n - 1)
        BY <1>0, <3>2, <3>4, <4>1 DEF Lines
      <4> QED
        BY <4>2
    <3>6. Lines(process) \in Nat /\ Cardinality(Readers) \in Nat
      BY <1>0, <1>3, LineCounts, ReadersFinite
    <3> QED
      BY <1>0, <3>1, <3>2, <3>5, <3>6 DEF LinesInv
  <2> QED
    BY <2>2, <2>3
<1>4. CASE /\ process # None
           /\ call[th].step = "wait" /\ call[th].of \in Processes
           /\ ~ssh[call[th].of].alive /\ ssh' = ssh
           /\ Moves(th, [step |-> "close", of |-> None])
  <2>1. PICK next \in Calls : Moves(th, next) /\ ~IsReader(next)
    BY <1>4 DEF IsReader, Moves
  <2>2. CASE call[th].of # process
    <3>1. Cardinality(Readers') = Cardinality(Readers)
      BY <1>0, <1>4, <2>1, <2>2, ReadersMove DEF IsReader
    <3> QED
      BY <1>0, <1>4, <3>1, SameLines DEF Lines
  <2>3. CASE call[th].of = process
    <3>1. Lines(process)' = 0 /\ ~ssh'[process].alive
      BY <1>0, <1>4, <2>3, LineCounts DEF Lines
    <3>2. Cardinality(Readers') \in Nat
      <4>1. Readers' \subseteq Threads
        BY DEF Readers
      <4> QED
        BY <4>1, ThreadsAssumption, FS_Subset, FS_CardinalityType
    <3> QED
      BY <1>0, <3>1, <3>2 DEF LinesInv
  <2> QED
    BY <2>2, <2>3
<1> QED
  BY <1>0, <1>1, <1>2, <1>3, <1>4, ReadShape

LEMMA CloseLines ==
    ASSUME Base, NEW th \in Threads, Terminate(th) \/ Clear(th)
    PROVE  LinesInv'
<1>0. SSHTypeOK /\ process \in Processes \cup {None}
  BY DEF Base, SSHTypeOK
<1>1. CASE process' = None
  BY <1>1 DEF LinesInv
<1>2. CASE /\ process \in Processes /\ process' = process
           /\ ssh' = [ssh EXCEPT ![process] = Ended]
  <2>1. Readers' \subseteq Threads
    BY DEF Readers
  <2>2. Cardinality(Readers') \in Nat
    BY <2>1, ThreadsAssumption, FS_Subset, FS_CardinalityType
  <2>3. ssh'[process] = Ended
    BY <1>0, <1>2 DEF SSHTypeOK
  <2>4. Len(Ended.inbox) = 0 /\ Len(Ended.outbox) = 0 /\ ~Ended.alive
    BY DEF Ended
  <2>5. Lines(process)' = 0 + 0
    BY <1>2, <2>3, <2>4 DEF Lines
  <2> QED
    BY <1>2, <2>2, <2>3, <2>4, <2>5 DEF LinesInv
<1> QED
  BY <1>0, <1>1, <1>2, CloseShape

LEMMA OtherSideLines ==
    ASSUME Base, NEW p \in Processes, Answer(p) \/ End(p)
    PROVE  LinesInv'
<1>0. /\ SSHTypeOK /\ LinesInv /\ process \in Processes \cup {None}
      /\ process' = process /\ raced' = raced /\ call' = call
  BY DEF Base, SSHTypeOK, Answer, End
<1>1. Readers' = Readers /\ Cardinality(Readers) \in Nat
  BY <1>0, ReadersStay, ReadersFinite
<1>2. CASE process = None
  BY <1>0, <1>2 DEF LinesInv
<1>3. CASE process # None /\ process # p
  <2>1. ssh'[process] = ssh[process]
    BY <1>0, <1>3 DEF Answer, End, SSHTypeOK
  <2> QED
    BY <1>0, <1>1, <2>1, SameLines DEF Lines
<1>4. CASE process = p /\ Answer(p)
  <2>1. /\ ssh[p].alive /\ ssh'[p].alive
        /\ ssh'[p].inbox = Tail(ssh[p].inbox)
        /\ ssh'[p].outbox = Append(ssh[p].outbox, Head(ssh[p].inbox))
    BY <1>0, <1>4, AnswerType
  <2>2. /\ ssh[p].inbox \in Seq(Threads) /\ ssh[p].outbox \in Seq(Threads)
        /\ ssh[p].inbox # << >>
    BY <1>0, <1>4, LineCounts DEF Answer
  <2>3. PICK m \in Nat, n \in Nat : /\ m = Len(ssh[p].inbox)
                                    /\ n = Len(ssh[p].outbox)
    BY <2>2
  <2>4. Len(Tail(ssh[p].inbox)) = m - 1
    BY <2>2, <2>3
  <2>5. Len(Append(ssh[p].outbox, Head(ssh[p].inbox))) = n + 1
    BY <2>2, <2>3
  <2>6. Lines(p) = m + n /\ Lines(p)' = (m - 1) + (n + 1)
    BY <2>1, <2>3, <2>4, <2>5 DEF Lines
  <2>7. Lines(process)' = Lines(process)
    BY <1>0, <1>4, <2>6
  <2> QED
    BY <1>0, <1>1, <1>4, <2>1, <2>7, SameLines
<1>5. CASE process = p /\ End(p)
  <2>1. ssh'[process] = Ended
    BY <1>0, <1>5 DEF End, SSHTypeOK
  <2>2. Len(Ended.inbox) = 0 /\ Len(Ended.outbox) = 0 /\ ~Ended.alive
    BY DEF Ended
  <2>3. Lines(process)' = 0 + 0
    BY <1>0, <2>1, <2>2 DEF Lines
  <2> QED
    BY <1>0, <1>1, <2>1, <2>2, <2>3 DEF LinesInv
<1> QED
  BY <1>0, <1>2, <1>3, <1>4, <1>5

LEMMA BaseStep == Base /\ [SSHNext]_vars => Base'
<1> SUFFICES ASSUME Base, [SSHNext]_vars PROVE Base'
  OBVIOUS
<1>0. SSHTypeOK /\ LinesInv /\ SSHTypeOK'
  BY TypeStep DEF Base
<1>1. ASSUME NEW th \in Threads, BeginRequest(th) \/ BeginPush(th)
      PROVE  LinesInv'
  <2>1. process' = process /\ ssh' = ssh /\ raced' = raced
    BY <1>1 DEF BeginRequest, BeginPush
  <2>2. ~IsReader(call[th])
    BY <1>1 DEF BeginRequest, BeginPush, At, IsReader
  <2>3. PICK next \in Calls : Moves(th, next) /\ ~IsReader(next)
    BY <1>0, <1>1, BeginShape DEF Moves, IsReader
  <2>4. Cardinality(Readers') = Cardinality(Readers)
    BY <1>0, <2>1, <2>2, <2>3, ReadersMove
  <2> QED
    BY <2>1, <2>4, SameLines DEF Lines
<1>2. ASSUME UNCHANGED vars
      PROVE  LinesInv'
  <2>1. UNCHANGED <<process, ssh, call, raced>>
    BY <1>2 DEF vars
  <2>2. Readers' = Readers
    BY <2>1, ReadersStay
  <2>3. Lines(process)' = Lines(process)
    BY <2>1 DEF Lines
  <2> QED
    BY <1>0, <2>1, <2>2, <2>3, SameLines
<1>3. LinesInv'
  BY <1>0, <1>1, <1>2, PopenLines, WriteLines, ReadLines, CloseLines,
     OtherSideLines DEF SSHNext, Proceed
<1> QED
  BY <1>0, <1>3 DEF Base

(* No reply is ever left over in the stream in use, whatever the threads do
   to each other. *)
THEOREM NothingLeftOver == SSHSpec => []NoReplyLeftOver
<1>1. Base => NoReplyLeftOver
  BY DEF Base, LinesInv, NoReplyLeftOver
<1> QED
  BY <1>1, InitBase, BaseStep, PTL DEF SSHSpec

-----------------------------------------------------------------------------
(* The shared stream *)

(* A process that was terminated by a thread about to clear is not used
   again before; without a race, nobody waits at a live process that is not
   the one in use. *)
WaitInv ==
    \A th \in Threads :
        /\ At(th, "clear") => ~ssh[call[th].of].alive
        /\ (~raced /\ At(th, "wait") /\ call[th].of # process)
              => ~ssh[call[th].of].alive

Inv == Base /\ WaitInv

LEMMA PlaceOf ==
    ASSUME SSHTypeOK, NEW th \in Threads, call[th].step \in {"wait", "clear"}
    PROVE  call[th].of \in Processes
BY DEF SSHTypeOK, Calls

LEMMA WaitStep == Inv /\ [SSHNext]_vars => WaitInv'
<1> SUFFICES ASSUME Inv, [SSHNext]_vars PROVE WaitInv'
  OBVIOUS
<1>0. /\ SSHTypeOK /\ WaitInv
      /\ ssh \in [Processes -> Process] /\ process \in Processes \cup {None}
  BY DEF Inv, Base, SSHTypeOK
<1>1. ASSUME NEW th \in Threads, BeginRequest(th) \/ BeginPush(th)
      PROVE  WaitInv'
  <2>1. process' = process /\ ssh' = ssh /\ raced' = raced
    BY <1>1 DEF BeginRequest, BeginPush
  <2>2. PICK next \in Calls : Moves(th, next) /\ next.step \notin {"wait", "clear"}
    BY <1>0, <1>1, BeginShape DEF Moves
  <2> QED
    BY <1>0, <2>1, <2>2, CallMoves DEF WaitInv, At, Moves
<1>2. ASSUME NEW th \in Threads, Connect(th) \/ ConnectForPush(th)
      PROVE  WaitInv'
  <2>1. /\ process' \in Processes /\ Using(process') = {}
        /\ ssh' = [ssh EXCEPT ![process'] = Fresh]
        /\ raced' = (raced \/ Overtakes(th))
    BY <1>0, <1>2, PopenShape, PopenType
  <2>2. PICK next \in Calls : Moves(th, next) /\ next.step \notin {"wait", "clear"}
    BY <1>0, <1>2, PopenShape DEF Moves
  <2>3. /\ call'[th] = next
        /\ \A o \in Threads \ {th} : call'[o] = call[o]
    BY <1>0, <2>2, CallMoves DEF Moves
  <2>4. ASSUME NEW o \in Threads, call'[o].step \in {"wait", "clear"}
        PROVE  /\ o # th /\ call'[o] = call[o] /\ call[o].of \in Processes
               /\ ssh'[call[o].of] = ssh[call[o].of]
    <3>1. o # th /\ call'[o] = call[o]
      BY <2>2, <2>3, <2>4
    <3>2. call[o].of \in Processes /\ call[o].of # process'
      BY <1>0, <2>1, <2>4, <3>1, PlaceOf DEF Using
    <3> QED
      BY <1>0, <2>1, <3>1, <3>2
  <2>5. ~raced' => ~raced /\ process = None
    BY <2>1 DEF Overtakes
  <2> QED
    BY <1>0, <2>4, <2>5, NoneAssumption DEF WaitInv, At
<1>3. ASSUME NEW th \in Threads, WriteLine(th)
      PROVE  WaitInv'
  <2>1. process' = process /\ raced' = raced
    BY <1>0, <1>3, WriteShape
  <2>2. PICK next \in Calls : Moves(th, next) /\ next.step \notin {"wait", "clear"}
    BY <1>0, <1>3, WriteShape DEF Moves
  <2>3. \A p \in Processes : ~ssh[p].alive => ssh'[p] = ssh[p]
    BY <1>0, <1>3, WriteShape, WriteType
  <2>4. /\ call'[th] = next
        /\ \A o \in Threads \ {th} : call'[o] = call[o]
    BY <1>0, <2>2, CallMoves DEF Moves
  <2> QED
    BY <1>0, <2>1, <2>2, <2>3, <2>4, PlaceOf DEF WaitInv, At
<1>4. ASSUME NEW th \in Threads, BeginRead(th) \/ ReadLine(th) \/ ReadEnd(th)
      PROVE  WaitInv'
  <2>1. process' = process /\ raced' = raced
    BY <1>0, <1>4, ReadShape
  <2>2. PICK next \in Calls :
           /\ Moves(th, next) /\ next.step # "clear"
           /\ next.step = "wait" => next.of = process
    BY <1>0, <1>4, ReadShape DEF Moves
  <2>3. \A p \in Processes : ~ssh[p].alive => ssh'[p] = ssh[p]
    <3>1. CASE ssh' = ssh
      BY <3>1
    <3>2. CASE \E p \in Processes :
                 /\ ssh[p].outbox # << >>
                 /\ ssh' = [ssh EXCEPT ![p].outbox = Tail(@)]
      BY <1>0, <3>2, ReadType
    <3> QED
      BY <1>0, <1>4, <3>1, <3>2, ReadShape
  <2>4. /\ call'[th] = next
        /\ \A o \in Threads \ {th} : call'[o] = call[o]
    BY <1>0, <2>2, CallMoves DEF Moves
  <2> QED
    BY <1>0, <2>1, <2>2, <2>3, <2>4, PlaceOf DEF WaitInv, At
<1>5. ASSUME NEW th \in Threads, Terminate(th) \/ Clear(th)
      PROVE  WaitInv'
  <2>1. CASE /\ process = None /\ process' = process /\ raced' = raced
             /\ ssh' = ssh /\ Moves(th, [step |-> "idle", of |-> None])
    <3>1. PICK next \in Calls : Moves(th, next)
                                /\ next.step \notin {"wait", "clear"}
      BY <2>1 DEF Moves
    <3> QED
      BY <1>0, <2>1, <3>1, CallMoves DEF WaitInv, At, Moves
  <2>2. CASE /\ process \in Processes /\ process' = process /\ raced' = raced
             /\ ssh' = [ssh EXCEPT ![process] = Ended]
             /\ Moves(th, [step |-> "clear", of |-> process])
    <3>1. PICK next \in Calls : /\ Moves(th, next)
                                /\ next.step = "clear" /\ next.of = process
      BY <2>2 DEF Moves
    <3>2. \A p \in Processes : ~ssh[p].alive => ~ssh'[p].alive
      BY <1>0, <2>2 DEF Ended
    <3>3. ~ssh'[process].alive
      BY <1>0, <2>2 DEF Ended
    <3>4. /\ call'[th] = next
          /\ \A o \in Threads \ {th} : call'[o] = call[o]
      BY <1>0, <3>1, CallMoves DEF Moves
    <3> QED
      BY <1>0, <2>2, <3>1, <3>2, <3>3, <3>4, PlaceOf DEF WaitInv, At
  <2>3. CASE /\ call[th].step = "clear" /\ process' = None /\ ssh' = ssh
             /\ raced' = (raced \/ process \notin {None, call[th].of})
             /\ Moves(th, [step |-> "idle", of |-> None])
    <3>1. PICK next \in Calls : Moves(th, next)
                                /\ next.step \notin {"wait", "clear"}
      BY <2>3 DEF Moves
    <3>2. /\ call'[th] = next
          /\ \A o \in Threads \ {th} : call'[o] = call[o]
      BY <1>0, <3>1, CallMoves DEF Moves
    <3>3. ~ssh[call[th].of].alive
      BY <1>0, <2>3 DEF WaitInv, At
    <3>4. ~raced' => ~raced /\ (process = None \/ process = call[th].of)
      BY <2>3
    <3> QED
      BY <1>0, <2>3, <3>1, <3>2, <3>3, <3>4, PlaceOf DEF WaitInv, At
  <2> QED
    BY <1>0, <1>5, <2>1, <2>2, <2>3, CloseShape
<1>6. ASSUME NEW p \in Processes, Answer(p) \/ End(p)
      PROVE  WaitInv'
  <2>1. process' = process /\ raced' = raced /\ call' = call
    BY <1>6 DEF Answer, End
  <2>2. \A q \in Processes : ~ssh[q].alive => ~ssh'[q].alive
    <3>1. CASE Answer(p)
      BY <1>0, <3>1, AnswerType
    <3>2. CASE End(p)
      BY <1>0, <3>2 DEF End, Ended
    <3> QED
      BY <1>6, <3>1, <3>2
  <2> QED
    BY <1>0, <2>1, <2>2, PlaceOf DEF WaitInv, At
<1>7. CASE UNCHANGED vars
  BY <1>0, <1>7 DEF WaitInv, At, vars
<1> QED
  BY <1>1, <1>2, <1>3, <1>4, <1>5, <1>6, <1>7 DEF SSHNext, Proceed

LEMMA InvStep == Inv /\ [SSHNext]_vars => Inv'
BY BaseStep, WaitStep DEF Inv

LEMMA InitInv == SSHInit => Inv
BY InitBase DEF SSHInit, Inv, WaitInv, At, NoCall

-----------------------------------------------------------------------------
(* Steps of WorkerStream, for its one drone *)

Stream(inbox, outbox, readers, raised) ==
    [inbox |-> inbox, outbox |-> outbox, readers |-> readers, raised |-> raised]

Whole(s) == s = Stream(s.inbox, s.outbox, s.readers, s.raised)

LEMMA AbstractKind == Whole(Abstract)
BY DEF Abstract, Whole, Stream

Written(s, x, y) ==
    [[d \in {"drone"} |-> s] EXCEPT !["drone"].inbox = x, !["drone"].readers = y]

LEMMA InboxAndReaders ==
    ASSUME NEW s, NEW x, NEW y, Whole(s)
    PROVE  Written(s, x, y) = [d \in {"drone"} |-> Stream(x, s.outbox, y, s.raised)]
<1> DEFINE f == [d \in {"drone"} |-> s]
           one == Stream(x, s.outbox, s.readers, s.raised)
<1>1. Written(s, x, y) =
        [[f EXCEPT !["drone"].inbox = x] EXCEPT !["drone"].readers = y]
  BY Zenon DEF Written
<1>2. [f EXCEPT !["drone"].inbox = x] = [d \in {"drone"} |-> one]
  <2>1. f["drone"] = s /\ [s EXCEPT !.inbox = x] = one
    BY DEF Whole, Stream
  <2>2. [f EXCEPT !["drone"].inbox = x] = [f EXCEPT !["drone"] = one]
    BY <2>1
  <2> QED
    BY <2>2
<1>3. [[d \in {"drone"} |-> one] EXCEPT !["drone"].readers = y] =
        [d \in {"drone"} |-> Stream(x, s.outbox, y, s.raised)]
  BY DEF Stream
<1> QED
  BY <1>1, <1>2, <1>3

Answered(s, x, y) ==
    [[d \in {"drone"} |-> s] EXCEPT !["drone"].inbox = x, !["drone"].outbox = y]

LEMMA InboxAndOutbox ==
    ASSUME NEW s, NEW x, NEW y, Whole(s)
    PROVE  Answered(s, x, y) = [d \in {"drone"} |-> Stream(x, y, s.readers, s.raised)]
<1> DEFINE f == [d \in {"drone"} |-> s]
           one == Stream(x, s.outbox, s.readers, s.raised)
<1>1. Answered(s, x, y) =
        [[f EXCEPT !["drone"].inbox = x] EXCEPT !["drone"].outbox = y]
  BY Zenon DEF Answered
<1>2. [f EXCEPT !["drone"].inbox = x] = [d \in {"drone"} |-> one]
  <2>1. f["drone"] = s /\ [s EXCEPT !.inbox = x] = one
    BY DEF Whole, Stream
  <2>2. [f EXCEPT !["drone"].inbox = x] = [f EXCEPT !["drone"] = one]
    BY <2>1
  <2> QED
    BY <2>2
<1>3. [[d \in {"drone"} |-> one] EXCEPT !["drone"].outbox = y] =
        [d \in {"drone"} |-> Stream(x, y, s.readers, s.raised)]
  BY DEF Stream
<1> QED
  BY <1>1, <1>2, <1>3

WasRead(s, x, y) ==
    [[d \in {"drone"} |-> s] EXCEPT !["drone"].outbox = x, !["drone"].readers = y]

LEMMA OutboxAndReaders ==
    ASSUME NEW s, NEW x, NEW y, Whole(s)
    PROVE  WasRead(s, x, y) = [d \in {"drone"} |-> Stream(s.inbox, x, y, s.raised)]
<1> DEFINE f == [d \in {"drone"} |-> s]
           one == Stream(s.inbox, x, s.readers, s.raised)
<1>1. WasRead(s, x, y) =
        [[f EXCEPT !["drone"].outbox = x] EXCEPT !["drone"].readers = y]
  BY Zenon DEF WasRead
<1>2. [f EXCEPT !["drone"].outbox = x] = [d \in {"drone"} |-> one]
  <2>1. f["drone"] = s /\ [s EXCEPT !.outbox = x] = one
    BY DEF Whole, Stream
  <2>2. [f EXCEPT !["drone"].outbox = x] = [f EXCEPT !["drone"] = one]
    BY <2>1
  <2> QED
    BY <2>2
<1>3. [[d \in {"drone"} |-> one] EXCEPT !["drone"].readers = y] =
        [d \in {"drone"} |-> Stream(s.inbox, x, y, s.raised)]
  BY DEF Stream
<1> QED
  BY <1>1, <1>2, <1>3

LEMMA StreamWrites ==
    ASSUME NEW th \in Threads,
           Abstract' = Stream(Append(Abstract.inbox, th), Abstract.outbox,
                              Abstract.readers \cup {th}, Abstract.raised)
    PROVE  WS!WriteLine(th, "drone", th)
<1> DEFINE old == [d \in {"drone"} |-> Abstract]
<1>1. old["drone"] = Abstract
  OBVIOUS
<1>2. Written(Abstract, Append(Abstract.inbox, th),
              Abstract.readers \cup {th}) = [d \in {"drone"} |-> Abstract']
  BY AbstractKind, InboxAndReaders
<1> QED
  BY <1>1, <1>2 DEF Written, WS!WriteLine

LEMMA StreamAnswers ==
    ASSUME NEW reply, Abstract.inbox # << >>,
           Abstract' = Stream(Tail(Abstract.inbox), Append(Abstract.outbox, reply),
                              Abstract.readers, Abstract.raised)
    PROVE  WS!Answer("drone", reply)
<1> DEFINE old == [d \in {"drone"} |-> Abstract]
<1>1. old["drone"] = Abstract
  OBVIOUS
<1>2. Answered(Abstract, Tail(Abstract.inbox),
              Append(Abstract.outbox, reply)) = [d \in {"drone"} |-> Abstract']
  BY AbstractKind, InboxAndOutbox
<1> QED
  BY <1>1, <1>2 DEF Answered, WS!Answer

LEMMA StreamReads ==
    ASSUME NEW th \in Threads, th \in Abstract.readers,
           Abstract.outbox # << >>,
           Abstract' = Stream(Abstract.inbox, Tail(Abstract.outbox),
                              Abstract.readers \ {th}, Abstract.raised)
    PROVE  WS!ReadLine(th, "drone")
<1> DEFINE old == [d \in {"drone"} |-> Abstract]
<1>1. old["drone"] = Abstract
  OBVIOUS
<1>2. WasRead(Abstract, Tail(Abstract.outbox), Abstract.readers \ {th}) =
        [d \in {"drone"} |-> Stream(Abstract.inbox, Tail(Abstract.outbox),
                                    Abstract.readers \ {th}, Abstract.raised)]
  BY AbstractKind, OutboxAndReaders
<1>3. WasRead(Abstract, Tail(Abstract.outbox), Abstract.readers \ {th}) =
        [d \in {"drone"} |-> Abstract']
  BY <1>2
<1> QED
  BY <1>1, <1>3 DEF WasRead, WS!ReadLine

LEMMA StreamEnds ==
    ASSUME Abstract' = Stream(<< >>, << >>, {}, Abstract.raised \cup Abstract.readers),
           Abstract.readers # {}
    PROVE  WS!EndOfFile("drone")
BY DEF Stream, WS!EndOfFile, WS!Ended

LEMMA StreamRaises ==
    ASSUME NEW th \in Threads, th \in Abstract.raised,
           Abstract' = Stream(<< >>, << >>, {},
                   (Abstract.raised \cup Abstract.readers) \ {th})
    PROVE  WS!Raise(th, "drone")
BY DEF Stream, WS!Raise, WS!Ended

LEMMA StreamRefuses ==
    ASSUME NEW th \in Threads,
           Abstract' = Stream(Abstract.inbox, Abstract.outbox, Abstract.readers,
                   Abstract.raised \cup {th})
    PROVE  Refused(th)
BY AbstractKind DEF Whole, Stream, Refused

-----------------------------------------------------------------------------
(* What the threads and processes contribute to the stream *)

(* The read of this thread has met the end of its stream, or will. *)
IsRaised(k) ==
    \/ k.step = "close"
    \/ k.step = "wait" /\ ~Alive(k.of)
    \/ k.step = "read" /\ ~Alive(process)

(* While no process starts or ends, only the thread that moves may join the
   raised threads or leave them. *)
LEMMA RaisedMove ==
    ASSUME SSHTypeOK, NEW th \in Threads, NEW next \in Calls, Moves(th, next),
           process' = process,
           \A p \in Processes : ssh'[p].alive <=> ssh[p].alive
    PROVE  /\ Raised' = IF IsRaised(next) THEN Raised \cup {th}
                        ELSE Raised \ {th}
           /\ th \in Raised <=> IsRaised(call[th])
<1>1. /\ call'[th] = next
      /\ \A other \in Threads \ {th} : call'[other] = call[other]
  BY CallMoves DEF Moves
<1>2. \A k \in Calls : IsRaised(k)' <=> IsRaised(k)
  BY DEF SSHTypeOK, IsRaised, Alive, Calls
<1>3. /\ Raised = {o \in Threads : IsRaised(call[o])}
      /\ Raised' = {o \in Threads : IsRaised(call[o])'}
  BY DEF Raised, IsRaised, At
<1>4. /\ IsRaised(next)' <=> IsRaised(next)
      /\ \A o \in Threads : IsRaised(call[o])' <=>
            IF o = th THEN IsRaised(next) ELSE IsRaised(call[o])
  BY <1>1, <1>2 DEF SSHTypeOK, IsRaised, Alive, Calls
<1> QED
  BY <1>3, <1>4

(* Nor do the raised threads change if nobody moves. *)
LEMMA RaisedStay ==
    ASSUME SSHTypeOK, process' = process, call' = call,
           \A p \in Processes : ssh'[p].alive <=> ssh[p].alive
    PROVE  Raised' = Raised
BY DEF Raised, SSHTypeOK, Alive, At, Calls

(* The stream is the same if its process, its readers and the raised threads
   are. *)
LEMMA SameStream ==
    ASSUME SSHTypeOK, process' = process, Raised' = Raised,
           Alive(process) => Readers' = Readers,
           process # None =>
              /\ ssh'[process].alive <=> ssh[process].alive
              /\ ssh'[process].inbox = ssh[process].inbox
              /\ ssh'[process].outbox = ssh[process].outbox
    PROVE  UNCHANGED Abstract
BY DEF Abstract, Alive

LEMMA LiveStream ==
    ASSUME Alive(process)
    PROVE  /\ Abstract.inbox = ssh[process].inbox
           /\ Abstract.outbox = ssh[process].outbox
           /\ Abstract.readers = Readers /\ Abstract.raised = Raised
BY DEF Abstract

LEMMA DeadStream ==
    ASSUME ~Alive(process)
    PROVE  /\ Abstract.inbox = << >> /\ Abstract.outbox = << >>
           /\ Abstract.readers = {} /\ Abstract.raised = Raised
BY DEF Abstract

(* Nobody waits for a live process other than the one in use. *)
LEMMA WaitsHere ==
    ASSUME Inv, ~raced, NEW th \in Threads, At(th, "wait"),
           ssh[call[th].of].alive
    PROVE  call[th].of = process /\ Alive(process)
<1>1. call[th].of \in Processes /\ call[th].of = process
  BY PlaceOf DEF Inv, Base, WaitInv, At
<1> QED
  BY <1>1, NoneAssumption DEF Alive

-----------------------------------------------------------------------------
(* Every step of the code is a step of the shared stream, or none. *)

Maps == StreamStep \/ UNCHANGED Abstract

LEMMA BeginMaps ==
    ASSUME Inv, NEW th \in Threads, BeginRequest(th) \/ BeginPush(th)
    PROVE  Maps
<1>0. SSHTypeOK /\ UNCHANGED <<process, ssh>>
  BY DEF Inv, Base, BeginRequest, BeginPush
<1>1. ~IsReader(call[th]) /\ ~IsRaised(call[th])
  BY DEF BeginRequest, BeginPush, At, IsReader, IsRaised
<1>2. PICK next \in Calls : Moves(th, next) /\ ~IsReader(next) /\ ~IsRaised(next)
  BY <1>0, BeginShape DEF Moves, IsReader, IsRaised
<1>3. Readers' = Readers /\ Raised' = Raised
  BY <1>0, <1>1, <1>2, ReadersMove, RaisedMove
<1> QED
  BY <1>0, <1>3, SameStream DEF Maps

(* Without a race nobody is about to read, so the new stream has no reader. *)
LEMMA PopenMaps ==
    ASSUME Inv, NEW th \in Threads, Connect(th) \/ ConnectForPush(th), ~raced'
    PROVE  Maps
<1>0. SSHTypeOK
  BY DEF Inv, Base
<1>1. /\ process' \in Processes /\ Using(process') = {}
      /\ ssh' = [ssh EXCEPT ![process'] = Fresh]
      /\ ssh \in [Processes -> Process] /\ call \in [Threads -> Calls]
      /\ process = None /\ \A o \in Threads \ {th} : call[o].step # "read"
  BY <1>0, PopenShape, PopenType DEF SSHTypeOK, Overtakes, At
<1>2. PICK next \in Calls : Moves(th, next) /\ next.of = None
                            /\ next.step \in {"write", "idle"}
  BY <1>0, PopenShape DEF Moves
<1>3. /\ call'[th] = next /\ call[th].step \in {"connect", "push"}
      /\ \A o \in Threads \ {th} : call'[o] = call[o]
  BY <1>0, <1>2, CallMoves, PopenShape DEF Moves
<1>4. \A o \in Threads : call[o].of # process'
  BY <1>1 DEF Using
<1>5. Readers' = {}
  BY <1>1, <1>2, <1>3, <1>4 DEF Readers, At
<1>6. Raised' = Raised
  <2>1. \A o \in Threads : ~At(o, "read") /\ ~At(o, "read")'
    BY <1>1, <1>2, <1>3 DEF At
  <2>2. \A o \in Threads : At(o, "close")' <=> At(o, "close")
    BY <1>2, <1>3 DEF At
  <2>3. ASSUME NEW o \in Threads
        PROVE  /\ At(o, "wait")' <=> At(o, "wait")
               /\ At(o, "wait") => /\ call'[o] = call[o]
                                   /\ ssh'[call[o].of] = ssh[call[o].of]
    <3>1. At(o, "wait")' <=> At(o, "wait")
      BY <1>2, <1>3 DEF At
    <3>2. ASSUME At(o, "wait")
          PROVE  call'[o] = call[o] /\ ssh'[call[o].of] = ssh[call[o].of]
      <4>1. o # th /\ call[o].of \in Processes
        BY <1>0, <1>3, <3>2, PlaceOf DEF At
      <4> QED
        BY <1>1, <1>3, <1>4, <4>1
    <3> QED
      BY <3>1, <3>2
  <2> QED
    BY <2>1, <2>2, <2>3 DEF Raised, Alive
<1>7. /\ ssh'[process'].inbox = << >> /\ ssh'[process'].outbox = << >>
      /\ ~Alive(process)
  BY <1>1 DEF Fresh, Alive
<1> QED
  BY <1>5, <1>6, <1>7 DEF Abstract, Maps

LEMMA WriteMaps ==
    ASSUME Inv, NEW th \in Threads, WriteLine(th)
    PROVE  Maps
<1>0. SSHTypeOK /\ process \in Processes \cup {None}
  BY DEF Inv, Base, SSHTypeOK
<1>1. /\ process' = process /\ ~IsReader(call[th]) /\ ~IsRaised(call[th])
  BY <1>0, WriteShape DEF IsReader, IsRaised
<1>2. CASE process = None /\ ssh' = ssh /\ Moves(th, [step |-> "idle", of |-> None])
  <2>1. PICK next \in Calls : Moves(th, next) /\ ~IsReader(next)
                              /\ ~IsRaised(next)
    BY <1>2 DEF Moves, IsReader, IsRaised
  <2>2. Readers' = Readers /\ Raised' = Raised
    BY <1>0, <1>1, <1>2, <2>1, ReadersMove, RaisedMove
  <2> QED
    BY <1>0, <1>1, <1>2, <2>2, SameStream DEF Maps
<1>3. CASE /\ process # None /\ ssh[process].alive
           /\ ssh' = [ssh EXCEPT ![process].inbox = Append(@, th)]
           /\ Moves(th, [step |-> "read", of |-> None])
  <2>1. PICK next \in Calls : Moves(th, next) /\ IsReader(next)
                              /\ ~IsRaised(next)
    BY <1>3 DEF Moves, IsReader, IsRaised, Alive
  <2>2. /\ ssh'[process].alive
        /\ ssh'[process].inbox = Append(ssh[process].inbox, th)
        /\ ssh'[process].outbox = ssh[process].outbox
        /\ \A q \in Processes \ {process} : ssh'[q] = ssh[q]
    BY <1>0, <1>3, WriteType
  <2>3. Readers' = Readers \cup {th} /\ Raised' = Raised
    <3>1. Readers' = Readers \cup {th}
      BY <1>0, <1>1, <2>1, ReadersMove
    <3>2. \A p \in Processes : ssh'[p].alive <=> ssh[p].alive
      BY <1>3, <2>2
    <3>3. Raised' = Raised
      BY <1>0, <1>1, <2>1, <3>2, RaisedMove
    <3> QED
      BY <3>1, <3>3
  <2>4. Alive(process) /\ Alive(process)'
    BY <1>1, <1>3, <2>2 DEF Alive
  <2>5. Abstract' = Stream(Append(Abstract.inbox, th), Abstract.outbox,
                           Abstract.readers \cup {th}, Abstract.raised)
    BY <1>1, <2>2, <2>3, <2>4 DEF Abstract, Stream
  <2> QED
    BY <2>5, StreamWrites DEF Maps, StreamStep
<1>4. CASE /\ process # None /\ ~ssh[process].alive /\ ssh' = ssh
           /\ Moves(th, [step |-> "close", of |-> None])
  <2>1. PICK next \in Calls : Moves(th, next) /\ IsRaised(next)
    BY <1>4 DEF Moves, IsRaised
  <2>2. Raised' = Raised \cup {th}
    BY <1>0, <1>1, <1>4, <2>1, RaisedMove
  <2>3. ~Alive(process) /\ ~Alive(process)'
    BY <1>1, <1>4 DEF Alive
  <2>4. Abstract' = Stream(Abstract.inbox, Abstract.outbox, Abstract.readers,
                           Abstract.raised \cup {th})
    BY <2>2, <2>3 DEF Abstract, Stream
  <2> QED
    BY <2>4, StreamRefuses DEF Maps, StreamStep
<1> QED
  BY <1>0, <1>2, <1>3, <1>4, WriteShape

LEMMA ReadMaps ==
    ASSUME Inv, ~raced, NEW th \in Threads,
           BeginRead(th) \/ ReadLine(th) \/ ReadEnd(th)
    PROVE  Maps
<1>0. SSHTypeOK /\ process' = process /\ process \in Processes \cup {None}
  BY ReadShape DEF Inv, Base, SSHTypeOK
<1>1. CASE /\ call[th].step = "read" /\ ssh' = ssh /\ process = None
           /\ Moves(th, [step |-> "close", of |-> None])
  <2>1. PICK next \in Calls : Moves(th, next) /\ IsRaised(next)
    BY <1>1 DEF Moves, IsRaised
  <2>2. IsRaised(call[th]) /\ ~Alive(process)
    BY <1>1 DEF IsRaised, Alive
  <2>3. Raised' = Raised
    BY <1>0, <1>1, <2>1, <2>2, RaisedMove
  <2> QED
    BY <1>0, <1>1, <2>2, <2>3, SameStream DEF Maps
<1>2. CASE /\ call[th].step = "read" /\ ssh' = ssh /\ process # None
           /\ Moves(th, [step |-> "wait", of |-> process])
  <2>1. PICK next \in Calls : /\ Moves(th, next) /\ IsReader(next)
                              /\ IsRaised(next) <=> ~Alive(process)
    BY <1>2 DEF Moves, IsReader, IsRaised
  <2>2. IsReader(call[th]) /\ (IsRaised(call[th]) <=> ~Alive(process))
    BY <1>2 DEF IsReader, IsRaised
  <2>3. Readers' = Readers /\ Raised' = Raised
    BY <1>0, <1>2, <2>1, <2>2, ReadersMove, RaisedMove
  <2> QED
    BY <1>0, <1>2, <2>3, SameStream DEF Maps
<1>3. CASE /\ call[th].step = "wait" /\ call[th].of \in Processes
           /\ ssh[call[th].of].outbox # << >>
           /\ ssh' = [ssh EXCEPT ![call[th].of].outbox = Tail(@)]
           /\ Moves(th, [step |-> "idle", of |-> None])
  <2>1. /\ ssh[call[th].of].alive
        /\ ssh'[call[th].of].alive
        /\ ssh'[call[th].of].inbox = ssh[call[th].of].inbox
        /\ ssh'[call[th].of].outbox = Tail(ssh[call[th].of].outbox)
        /\ \A q \in Processes \ {call[th].of} : ssh'[q] = ssh[q]
    BY <1>0, <1>3, ReadType
  <2>2. call[th].of = process /\ Alive(process)
    BY <1>3, <2>1, WaitsHere DEF At
  <2>3. PICK next \in Calls : Moves(th, next) /\ ~IsReader(next)
                              /\ ~IsRaised(next)
    BY <1>3 DEF Moves, IsReader, IsRaised
  <2>4. IsReader(call[th]) /\ ~IsRaised(call[th])
    BY <1>3, <2>2 DEF IsReader, IsRaised
  <2>5. Readers' = Readers \ {th} /\ th \in Readers /\ Raised' = Raised
    BY <1>0, <2>1, <2>3, <2>4, ReadersMove, RaisedMove
  <2>6. Alive(process)'
    BY <1>0, <2>1, <2>2 DEF Alive
  <2>7. Abstract' = Stream(Abstract.inbox, Tail(Abstract.outbox),
                           Abstract.readers \ {th}, Abstract.raised)
    BY <1>0, <2>1, <2>2, <2>5, <2>6 DEF Abstract, Stream
  <2>8. th \in Abstract.readers /\ Abstract.outbox # << >>
    BY <1>3, <2>2, <2>5, LiveStream
  <2> QED
    BY <2>7, <2>8, StreamReads DEF Maps, StreamStep
<1>4. CASE /\ call[th].step = "wait" /\ call[th].of \in Processes
           /\ ~ssh[call[th].of].alive /\ ssh' = ssh
           /\ Moves(th, [step |-> "close", of |-> None])
  <2>1. PICK next \in Calls : Moves(th, next) /\ ~IsReader(next)
                              /\ IsRaised(next)
    BY <1>4 DEF Moves, IsReader, IsRaised
  <2>2. IsRaised(call[th]) /\ (Alive(process) => ~IsReader(call[th]))
    BY <1>4 DEF IsReader, IsRaised, Alive
  <2>3. Raised' = Raised /\ (Alive(process) => Readers' = Readers)
    BY <1>0, <1>4, <2>1, <2>2, ReadersMove, RaisedMove
  <2> QED
    BY <1>0, <1>4, <2>3, SameStream DEF Maps
<1> QED
  BY <1>0, <1>1, <1>2, <1>3, <1>4, ReadShape

LEMMA CloseMaps ==
    ASSUME Inv, ~raced', NEW th \in Threads, Terminate(th) \/ Clear(th)
    PROVE  Maps
<1>0. SSHTypeOK /\ WaitInv /\ call[th] \in Calls
  BY DEF Inv, Base, SSHTypeOK
<1>1. CASE /\ call[th].step = "close" /\ process = None
           /\ process' = process /\ raced' = raced /\ ssh' = ssh
           /\ Moves(th, [step |-> "idle", of |-> None])
  <2>1. PICK next \in Calls : Moves(th, next) /\ ~IsRaised(next)
    BY <1>1 DEF Moves, IsRaised
  <2>2. IsRaised(call[th]) /\ ~Alive(process) /\ ~Alive(process)'
    BY <1>1 DEF IsRaised, Alive
  <2>3. Raised' = Raised \ {th} /\ th \in Raised
    BY <1>0, <1>1, <2>1, <2>2, RaisedMove
  <2>4. Abstract' = Stream(<< >>, << >>, {},
                           (Abstract.raised \cup Abstract.readers) \ {th})
    BY <2>2, <2>3 DEF Abstract, Stream
  <2> QED
    BY <2>2, <2>3, <2>4, DeadStream, StreamRaises DEF Maps, StreamStep
<1>2. CASE /\ call[th].step = "close" /\ process \in Processes
           /\ process' = process /\ raced' = raced
           /\ ssh' = [ssh EXCEPT ![process] = Ended]
           /\ Moves(th, [step |-> "clear", of |-> process])
  <2>1. PICK next \in Calls : Moves(th, next) /\ next.step = "clear"
    BY <1>2 DEF Moves
  <2>2. /\ call'[th] = next
        /\ \A o \in Threads \ {th} : call'[o] = call[o]
    BY <1>0, <2>1, CallMoves DEF Moves
  <2>3. /\ ~ssh'[process].alive /\ ~Alive(process)'
        /\ \A q \in Processes \ {process} : ssh'[q] = ssh[q]
    BY <1>0, <1>2 DEF SSHTypeOK, Ended, Alive
  <2>4. \A o \in Threads : call[o].step = "wait" =>
           call[o].of \in Processes /\ call[o].of # None
    BY <1>0, PlaceOf, NoneAssumption
  <2>5. Raised' = (Raised \cup (IF Alive(process) THEN Readers ELSE {})) \ {th}
    BY <1>2, <2>1, <2>2, <2>3, <2>4, NoneAssumption
       DEF Raised, Readers, At, Alive
  <2>6. th \in Raised
    BY <1>2 DEF Raised, At
  <2>7. Abstract' = Stream(<< >>, << >>, {},
                           (Abstract.raised \cup Abstract.readers) \ {th})
    BY <2>3, <2>5 DEF Abstract, Stream
  <2>8. th \in Abstract.raised
    BY <2>6, LiveStream, DeadStream
  <2> QED
    BY <2>7, <2>8, StreamRaises DEF Maps, StreamStep
<1>3. CASE /\ call[th].step = "clear" /\ process' = None /\ ssh' = ssh
           /\ raced' = (raced \/ process \notin {None, call[th].of})
           /\ Moves(th, [step |-> "idle", of |-> None])
  <2>1. PICK next \in Calls : Moves(th, next) /\ next.step = "idle"
    BY <1>3 DEF Moves
  <2>2. /\ call'[th] = next
        /\ \A o \in Threads \ {th} : call'[o] = call[o]
    BY <1>0, <2>1, CallMoves DEF Moves
  <2>3. ~Alive(process) /\ ~Alive(process)'
    BY <1>0, <1>3 DEF WaitInv, At, Alive
  <2>4. Raised' = Raised
    BY <1>3, <2>1, <2>2, <2>3 DEF Raised, At, Alive
  <2> QED
    BY <2>3, <2>4 DEF Abstract, Maps
<1> QED
  BY <1>0, <1>1, <1>2, <1>3, CloseShape

LEMMA AnswerMaps ==
    ASSUME Inv, NEW p \in Processes, Answer(p)
    PROVE  Maps
<1>0. SSHTypeOK /\ process' = process /\ call' = call
  BY DEF Inv, Base, Answer
<1>1. /\ ssh[p].alive /\ ssh'[p].alive
      /\ ssh'[p].inbox = Tail(ssh[p].inbox)
      /\ ssh'[p].outbox = Append(ssh[p].outbox, Head(ssh[p].inbox))
      /\ \A q \in Processes \ {p} : ssh'[q] = ssh[q]
  BY <1>0, AnswerType
<1>2. Readers' = Readers /\ Raised' = Raised
  BY <1>0, <1>1, ReadersStay, RaisedStay
<1>3. CASE process # p
  <2>1. process # None => ssh'[process] = ssh[process]
    BY <1>0, <1>1, <1>3 DEF SSHTypeOK
  <2> QED
    BY <1>0, <1>2, <2>1, SameStream DEF Maps
<1>4. CASE process = p
  <2>1. Alive(process) /\ Alive(process)'
    BY <1>0, <1>1, <1>4, NoneAssumption DEF Alive
  <2>2. ssh[p].inbox # << >> /\ Head(ssh[p].inbox) \in Threads
    BY <1>0, LineCounts DEF Answer
  <2>3. Abstract' = Stream(Tail(Abstract.inbox),
                           Append(Abstract.outbox, Head(ssh[p].inbox)),
                           Abstract.readers, Abstract.raised)
    BY <1>0, <1>1, <1>2, <1>4, <2>1 DEF Abstract, Stream
  <2>4. Abstract.inbox # << >>
    BY <1>4, <2>1, <2>2, LiveStream
  <2> QED
    BY <2>2, <2>3, <2>4, StreamAnswers DEF Maps, StreamStep
<1> QED
  BY <1>3, <1>4

LEMMA EndMaps ==
    ASSUME Inv, ~raced, NEW p \in Processes, End(p)
    PROVE  Maps
<1>0. /\ SSHTypeOK /\ LinesInv /\ process' = process /\ call' = call
      /\ ssh[p].alive /\ ssh \in [Processes -> Process]
      /\ ssh' = [ssh EXCEPT ![p] = Ended]
  BY DEF Inv, Base, End, SSHTypeOK
<1>1. /\ ~ssh'[p].alive /\ \A q \in Processes \ {p} : ssh'[q] = ssh[q]
  BY <1>0 DEF Ended
<1>2. \A o \in Threads : call[o].step = "wait" =>
         /\ call[o].of \in Processes /\ call[o].of # None
         /\ ssh[call[o].of].alive => call[o].of = process
  BY <1>0, PlaceOf, WaitsHere, NoneAssumption DEF At
<1>3. CASE process # p
  <2>1. process # None => ssh'[process] = ssh[process]
    BY <1>0, <1>1, <1>3 DEF SSHTypeOK
  <2>2. Raised' = Raised
    BY <1>0, <1>1, <1>2, <1>3, <2>1 DEF Raised, At, Alive
  <2> QED
    BY <1>0, <2>1, <2>2, ReadersStay, SameStream DEF Maps
<1>4. CASE process = p
  <2>1. Alive(process) /\ ~Alive(process)'
    BY <1>0, <1>1, <1>4, NoneAssumption DEF Alive
  <2>2. Raised' = Raised \cup Readers
    BY <1>0, <1>1, <1>2, <1>4, <2>1 DEF Raised, Readers, At, Alive
  <2>3. Abstract' = Stream(<< >>, << >>, {}, Abstract.raised \cup Abstract.readers)
    BY <2>1, <2>2 DEF Abstract, Stream
  <2>4. CASE Readers # {}
    BY <2>1, <2>3, <2>4, LiveStream, StreamEnds DEF Maps, StreamStep
  <2>5. CASE Readers = {}
    <3>1. /\ ssh[p].inbox \in Seq(Threads) /\ ssh[p].outbox \in Seq(Threads)
          /\ Lines(p) = 0
      BY <1>0, <1>4, <2>1, <2>5, LineCounts, FS_EmptySet DEF LinesInv, Alive
    <3>2. PICK m \in Nat, n \in Nat : /\ m = Len(ssh[p].inbox)
                                      /\ n = Len(ssh[p].outbox)
      BY <3>1
    <3>3. Lines(p) = m + n
      BY <3>2 DEF Lines
    <3>4. m = 0 /\ n = 0
      BY <3>1, <3>3
    <3>5. \A q \in Seq(Threads) : Len(q) = 0 => q = << >>
      OBVIOUS
    <3>6. ssh[p].inbox = << >> /\ ssh[p].outbox = << >>
      BY <3>1, <3>2, <3>4, <3>5
    <3>7. Abstract' = Abstract
      BY <1>4, <2>1, <2>3, <2>5, <3>6, LiveStream, AbstractKind DEF Whole
    <3> QED
      BY <3>7 DEF Maps
  <2> QED
    BY <2>4, <2>5
<1> QED
  BY <1>3, <1>4

(* Without a race, whoever reads is owed one line. *)
LEMMA OneReply == Inv /\ ~raced => WS!OneReplyPerReader
<1> SUFFICES ASSUME Inv, ~raced PROVE WS!OneReplyPerReader
  OBVIOUS
<1>0. \A S : WS!Cardinality(S) = Cardinality(S)
  BY DEF Cardinality, WS!Cardinality
<1>1. CASE ~Alive(process)
  <2>1. Len(<< >>) = 0 /\ Cardinality({}) = 0 /\ 0 + 0 = 0
    BY FS_EmptySet
  <2> QED
    BY <1>0, <1>1, <2>1, DeadStream DEF WS!OneReplyPerReader
<1>2. CASE Alive(process)
  <2>1. Lines(process) = Cardinality(Readers)
    BY <1>2 DEF Inv, Base, LinesInv, Alive
  <2> QED
    BY <1>0, <1>2, <2>1, LiveStream DEF WS!OneReplyPerReader, Lines
<1> QED
  BY <1>1, <1>2

LEMMA NextMaps ==
    ASSUME Inv, [SSHNext]_vars, ~raced'
    PROVE  Maps
<1>1. ~raced
  BY DEF SSHNext, Proceed, BeginRequest, BeginPush, Connect, WriteLine,
         BeginRead, ReadLine, ReadEnd, Terminate, Clear, ConnectForPush, Popen,
         Answer, End, vars
<1>2. CASE UNCHANGED vars
  BY <1>2 DEF vars, Maps, Abstract, Alive, Readers, Raised, At
<1> QED
  BY <1>1, <1>2, BeginMaps, PopenMaps, WriteMaps, ReadMaps, CloseMaps,
     AnswerMaps, EndMaps DEF SSHNext, Proceed

(* As long as no thread connects or clears between the write and the read of
   another, the object of ssh_transport.py is the shared stream that
   Coordinator is built on, and everybody who reads is owed one reply. *)
THEOREM SharedStream == SSHSpec => ImplementsWorkerStream
<1>1. Inv /\ [SSHNext]_vars =>
        [~raced' => (WS!OneReplyPerReader' /\ (StreamStep \/ UNCHANGED Abstract))]_vars
  <2> SUFFICES ASSUME Inv, [SSHNext]_vars, ~raced'
               PROVE  WS!OneReplyPerReader' /\ Maps
    BY DEF Maps
  <2>1. Inv'
    BY InvStep
  <2>2. WS!OneReplyPerReader'
    BY <2>1, OneReply, PTL
  <2> QED
    BY <2>2, NextMaps
<1> QED
  BY <1>1, InitInv, InvStep, PTL DEF SSHSpec, ImplementsWorkerStream

=============================================================================
