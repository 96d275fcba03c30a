---------------------------- MODULE SSHTransport ----------------------------
(***************************************************************************)
(* SSHDrone of ssh_transport.py line by line.  WorkerStream takes request  *)
(* as three steps: a line is written, a line is read, the stream ends.     *)
(* The code reads self.process anew at each of its lines, and threads of   *)
(* the dashboard share the object without a lock: between the check, the   *)
(* connect, the write and the read of one thread another may connect or    *)
(* close.  A thread may so write to one SSH process and read from the next.*)
(*                                                                         *)
(* Here an action is the code between two uses of self.process.  The       *)
(* property ImplementsWorkerStream says how far the simpler view goes.     *)
(***************************************************************************)
EXTENDS Naturals, Sequences, FiniteSets

CONSTANTS
    Threads,      \* threads that share the SSHDrone
    Processes,    \* bound: SSH processes there may be at a time
    None          \* self.process before connect() and after close()

ASSUME ThreadsAssumption == IsFiniteSet(Threads)
ASSUME NoneAssumption == None \notin Processes

VARIABLES
    process,      \* self.process
    ssh,          \* ssh[p]: an SSH process and the lines in it
    call,         \* call[th]: where thread th is
    raced         \* a reassignment has come between a write and its read

vars == <<process, ssh, call, raced>>

-----------------------------------------------------------------------------
(* A line is told by the thread that wrote it. *)
Process == [alive: BOOLEAN, inbox: Seq(Threads), outbox: Seq(Threads)]

Fresh == [alive |-> TRUE, inbox |-> << >>, outbox |-> << >>]

(* Its lines are lost.  One that has arrived already is read before the end
   is seen, which is as if it had been read before the end. *)
Ended == [alive |-> FALSE, inbox |-> << >>, outbox |-> << >>]

(* connect, push: self.process was None.  write: request() has a process.
   read: the line is written.  wait: inside readline() of process "of".
   close: in the exception handler.  clear: "of" has been terminated. *)
Steps == {"idle", "connect", "push", "write", "read", "wait", "close", "clear"}

Calls == [step: Steps, of: Processes \cup {None}]

NoCall == [step |-> "idle", of |-> None]

At(th, step) == call[th].step = step

Goto(th, step) == call' = [call EXCEPT ![th].step = step]

Return(th) == call' = [call EXCEPT ![th] = NoCall]

Alive(p) == p # None /\ ssh[p].alive

Using(p) == {th \in Threads : call[th].of = p}

-----------------------------------------------------------------------------
(* connect() *)

(* An SSH process nobody refers to stands for the new one. *)
Free == {p \in Processes : p # process /\ ~ssh[p].alive /\ Using(p) = {}}

(* The process in use is replaced, or a thread that has written to an
   earlier one has yet to look for the stream to read from. *)
Overtakes(th) == process # None \/ \E other \in Threads \ {th} : At(other, "read")

Popen(th) ==
    /\ \E p \in Free :
          /\ process' = p
          /\ ssh' = [ssh EXCEPT ![p] = Fresh]
    /\ raced' = (raced \/ Overtakes(th))

-----------------------------------------------------------------------------
(* request() *)

BeginRequest(th) ==
    /\ At(th, "idle")
    /\ Goto(th, IF process = None THEN "connect" ELSE "write")
    /\ UNCHANGED <<process, ssh, raced>>

Connect(th) ==
    /\ At(th, "connect")
    /\ Popen(th)
    /\ Goto(th, "write")

(* Without a process the assertion fails, before the try. *)
WriteLine(th) ==
    /\ At(th, "write")
    /\ \/ /\ process = None
          /\ Return(th)
          /\ UNCHANGED ssh
       \/ /\ Alive(process)
          /\ ssh' = [ssh EXCEPT ![process].inbox = Append(@, th)]
          /\ Goto(th, "read")
       \/ /\ process # None /\ ~Alive(process)
          /\ Goto(th, "close")
          /\ UNCHANGED ssh
    /\ UNCHANGED <<process, raced>>

(* Faulty variant: a thread waits whether or not there is a process. *)
WaitAnyway(th) ==
    /\ At(th, "read")
    /\ call' = [call EXCEPT ![th] = [step |-> "wait", of |-> process]]
    /\ UNCHANGED <<process, ssh, raced>>

(* self.process.stdout, evaluated after the write. *)
BeginRead(th) ==
    /\ At(th, "read")
    /\ call' = [call EXCEPT ![th] =
         IF process = None THEN [step |-> "close", of |-> None]
         ELSE [step |-> "wait", of |-> process]]
    /\ UNCHANGED <<process, ssh, raced>>

(* Whoever reads next gets the next line. *)
ReadLine(th) ==
    /\ At(th, "wait")
    /\ LET p == call[th].of
       IN  /\ ssh[p].outbox # << >>
           /\ ssh' = [ssh EXCEPT ![p].outbox = Tail(@)]
    /\ Return(th)
    /\ UNCHANGED <<process, raced>>

(* Faulty variant: the end of the stream is taken for an empty line. *)
ReadOn(th) ==
    /\ At(th, "wait")
    /\ ~ssh[call[th].of].alive
    /\ call' = [call EXCEPT ![th] = [step |-> "read", of |-> None]]
    /\ UNCHANGED <<process, ssh, raced>>

(* Faulty variant: readline() gives up after a time, and the stream is kept
   for the next request. *)
TimedOut(th) ==
    /\ At(th, "wait")
    /\ IF ssh[call[th].of].alive THEN Return(th)
       ELSE call' = [call EXCEPT ![th] = [step |-> "close", of |-> None]]
    /\ UNCHANGED <<process, ssh, raced>>

ReadEnd(th) ==
    /\ At(th, "wait")
    /\ ~ssh[call[th].of].alive
    /\ call' = [call EXCEPT ![th] = [step |-> "close", of |-> None]]
    /\ UNCHANGED <<process, ssh, raced>>

-----------------------------------------------------------------------------
(* close() *)

(* Faulty variant: the process is forgotten and not terminated. *)
Forget(th) ==
    /\ At(th, "close")
    /\ IF process = None THEN Return(th)
       ELSE call' = [call EXCEPT ![th] = [step |-> "clear", of |-> process]]
    /\ UNCHANGED <<process, ssh, raced>>

(* Whatever self.process is by now is terminated. *)
Terminate(th) ==
    /\ At(th, "close")
    /\ IF process = None
       THEN Return(th) /\ UNCHANGED ssh
       ELSE /\ ssh' = [ssh EXCEPT ![process] = Ended]
            /\ call' = [call EXCEPT ![th] = [step |-> "clear", of |-> process]]
    /\ UNCHANGED <<process, raced>>

(* Another thread may have connected since. *)
Clear(th) ==
    /\ At(th, "clear")
    /\ process' = None
    /\ raced' = (raced \/ process \notin {None, call[th].of})
    /\ Return(th)
    /\ UNCHANGED ssh

-----------------------------------------------------------------------------
(* push() wants the control connection that connect() opens.  What it does
   with it, like fetch(), goes through processes of its own. *)

BeginPush(th) ==
    /\ At(th, "idle")
    /\ process = None
    /\ Goto(th, "push")
    /\ UNCHANGED <<process, ssh, raced>>

ConnectForPush(th) ==
    /\ At(th, "push")
    /\ Popen(th)
    /\ Return(th)

-----------------------------------------------------------------------------
(* The other side *)

(* The agent answers the oldest line. *)
Answer(p) ==
    /\ ssh[p].inbox # << >>
    /\ ssh' = [ssh EXCEPT ![p] =
         [alive |-> @.alive, inbox |-> Tail(@.inbox),
          outbox |-> Append(@.outbox, Head(@.inbox))]]
    /\ UNCHANGED <<process, call, raced>>

(* The connection breaks, the drone goes down, or nobody holds the process
   any more and its standard input is closed. *)
End(p) ==
    /\ ssh[p].alive
    /\ ssh' = [ssh EXCEPT ![p] = Ended]
    /\ UNCHANGED <<process, call, raced>>

-----------------------------------------------------------------------------
SSHInit ==
    /\ process = None
    /\ ssh = [p \in Processes |-> Ended]
    /\ call = [th \in Threads |-> NoCall]
    /\ raced = FALSE

(* A thread goes on with what it has begun. *)
Proceed(th) ==
    \/ Connect(th) \/ WriteLine(th) \/ BeginRead(th) \/ ReadEnd(th)
    \/ Terminate(th) \/ Clear(th) \/ ConnectForPush(th)

SSHNext ==
    \/ \E th \in Threads : \/ BeginRequest(th) \/ BeginPush(th)
                           \/ Proceed(th) \/ ReadLine(th)
    \/ \E p \in Processes : Answer(p) \/ End(p)

(* Threads are scheduled, and agents answer.  Of the threads in readline()
   the first holds the lock of the buffer, so none is overtaken for ever. *)
SSHFairness ==
    /\ \A th \in Threads : WF_vars(Proceed(th)) /\ SF_vars(ReadLine(th))
    /\ \A p \in Processes : WF_vars(Answer(p))

SSHSpec == SSHInit /\ [][SSHNext]_vars /\ SSHFairness

-----------------------------------------------------------------------------
(* A process that has ended holds no lines, and a thread inside readline()
   or past terminate() has a process. *)
SSHTypeOK ==
    /\ process \in Processes \cup {None}
    /\ ssh \in [Processes -> Process]
    /\ \A p \in Processes : ssh[p].alive \/ ssh[p] = Ended
    /\ call \in [Threads -> Calls]
    /\ \A th \in Threads :
          call[th].of # None <=> call[th].step \in {"wait", "clear"}
    /\ raced \in BOOLEAN

Lines(p) == Len(ssh[p].inbox) + Len(ssh[p].outbox)

(* Threads that will take a line from the stream in use. *)
Readers == {th \in Threads : \/ At(th, "read")
                             \/ At(th, "wait") /\ call[th].of = process}

(* Whatever the threads do to each other, no line stays behind in the stream
   in use for a later request to take for its answer: at worst a thread
   waits for a line that does not come. *)
NoReplyLeftOver ==
    process # None => Lines(process) <= Cardinality(Readers)

(* The threads whose read has met the end of a stream, or will. *)
Raised == {th \in Threads :
              \/ At(th, "close")
              \/ At(th, "wait") /\ ~Alive(call[th].of)
              \/ At(th, "read") /\ ~Alive(process)}

(* The stream that WorkerStream speaks of. *)
Abstract ==
    IF Alive(process)
    THEN [inbox |-> ssh[process].inbox, outbox |-> ssh[process].outbox,
          readers |-> Readers, raised |-> Raised]
    ELSE [inbox |-> << >>, outbox |-> << >>, readers |-> {}, raised |-> Raised]

WS == INSTANCE WorkerStream WITH
          Drones <- {"drone"}, stream <- [d \in {"drone"} |-> Abstract]

(* A line written to a stream that has ended already. *)
Refused(th) == Abstract' = [Abstract EXCEPT !.raised = @ \cup {th}]

StreamStep ==
    \/ \E th \in Threads : \/ WS!WriteLine(th, "drone", th)
                           \/ WS!ReadLine(th, "drone")
                           \/ WS!Raise(th, "drone")
                           \/ Refused(th)
    \/ \E reply \in Threads : WS!Answer("drone", reply)
    \/ WS!EndOfFile("drone")

(* As long as no thread connects between the write and the read of another,
   over the process another has opened, or clears such a process, the
   object is the shared stream of WorkerStream, whatever ends and is
   reopened meanwhile: in particular everybody is owed one reply. *)
ImplementsWorkerStream ==
    [][~raced' => (WS!OneReplyPerReader' /\ (StreamStep \/ UNCHANGED Abstract))]_vars

(* And then every request returns or raises.  Without that a thread may
   wait for ever for a reply that went to another process. *)
RequestsEnd ==
    \A th \in Threads :
        [](~raced) => (~At(th, "idle") ~> At(th, "idle"))
=============================================================================
