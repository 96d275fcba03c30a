----------------------------- MODULE SSHDrones -----------------------------
(***************************************************************************)
(* The SSHDrone objects of ssh_transport.py, one for each drone, which the *)
(* threads of a process share without a lock.  An action is the code       *)
(* between two uses of self.process, as in SSHTransport, which looks at    *)
(* one object by itself.  Here the lines are requests and replies, the     *)
(* agents at the other end outlive the SSH processes, and a line that was  *)
(* on its way when its connection ended may still be read by the agent.    *)
(***************************************************************************)
EXTENDS Naturals, Sequences, FiniteSets

CONSTANTS
    Drones,       \* one SSHDrone for each
    Threads,      \* threads of the process
    Processes,    \* bound: SSH processes there may be at a time
    None          \* self.process before connect() and after close()

VARIABLES
    process,      \* process[d]: self.process of the SSHDrone of d
    ssh,          \* ssh[p]: an SSH process, its agent and the lines between
    place         \* place[th]: where in request() thread th is

NoDrone == 0

(* connect: self.process was None.  write: request() has a process.  read:
   the line is written.  wait: inside readline() of process "of".  close:
   in the exception handler.  clear: the process has been terminated. *)
Places == [step: {"out", "connect", "write", "read", "wait", "close", "clear"},
           of: Processes \cup {None}]

In(th, step) == place[th].step = step

Enter(th, step) == place' = [place EXCEPT ![th] = [step |-> step, of |-> None]]

Leave(th) == Enter(th, "out")

(* No connection: not started, or ended with nothing left in it. *)
Gone == [drone |-> NoDrone, alive |-> FALSE,
         inbox |-> << >>, outbox |-> << >>]

Opened(d) == [drone |-> d, alive |-> TRUE, inbox |-> << >>, outbox |-> << >>]

Rest(c) == IF c.alive \/ c.inbox # << >> THEN c ELSE Gone

(* The replies are lost.  One that has arrived already is read before the
   end is seen, which is as if it had been read before the end. *)
Closed(c) == Rest([drone |-> c.drone, alive |-> FALSE,
                  inbox |-> c.inbox, outbox |-> << >>])

Alive(p) == p # None /\ ssh[p].alive

InUse == {process[d] : d \in Drones} \cup {place[th].of : th \in Threads}

(* An SSH process nobody refers to stands for the new one. *)
Free == {p \in Processes \ InUse : ssh[p] = Gone}

-----------------------------------------------------------------------------
(* request() *)

BeginRequest(th, d) ==
    /\ In(th, "out")
    /\ Enter(th, IF process[d] = None THEN "connect" ELSE "write")
    /\ UNCHANGED <<process, ssh>>

(* Where nobody answers the SSH process ends by itself. *)
Connect(th, d, answers) ==
    /\ In(th, "connect")
    /\ \E p \in Free :
          /\ process' = [process EXCEPT ![d] = p]
          /\ ssh' = [ssh EXCEPT ![p] = IF answers THEN Opened(d) ELSE Gone]
    /\ Enter(th, "write")

WriteLine(th, d, request) ==
    /\ In(th, "write")
    /\ Alive(process[d])
    /\ ssh' = [ssh EXCEPT ![process[d]].inbox = Append(@, request)]
    /\ Enter(th, "read")
    /\ UNCHANGED process

WriteRefused(th, d) ==
    /\ In(th, "write")
    /\ process[d] # None /\ ~Alive(process[d])
    /\ Enter(th, "close")
    /\ UNCHANGED <<process, ssh>>

(* self.process.stdout, evaluated after the write. *)
BeginRead(th, d) ==
    /\ In(th, "read")
    /\ IF process[d] = None THEN Enter(th, "close")
       ELSE place' = [place EXCEPT ![th] = [step |-> "wait", of |-> process[d]]]
    /\ UNCHANGED <<process, ssh>>

(* Whoever reads next gets the next line. *)
ReadLine(th) ==
    /\ In(th, "wait")
    /\ ssh[place[th].of].outbox # << >>
    /\ ssh' = [ssh EXCEPT ![place[th].of].outbox = Tail(@)]
    /\ Leave(th)
    /\ UNCHANGED process

ReadEnd(th) ==
    /\ In(th, "wait")
    /\ ~Alive(place[th].of)
    /\ Enter(th, "close")
    /\ UNCHANGED <<process, ssh>>

(* close() terminates whatever self.process is by now ... *)
Terminate(th, d) ==
    /\ In(th, "close")
    /\ process[d] # None
    /\ ssh' = [ssh EXCEPT ![process[d]] = Closed(@)]
    /\ Enter(th, "clear")
    /\ UNCHANGED process

(* ... and clears it, though another thread may have connected since. *)
Clear(th, d) ==
    /\ In(th, "clear")
    /\ process' = [process EXCEPT ![d] = None]
    /\ Leave(th)
    /\ UNCHANGED ssh

(* Another thread has closed the object: the assertion before the try
   fails, or there is nothing left to close. *)
NoProcess(th, d) ==
    /\ In(th, "write") \/ In(th, "close")
    /\ process[d] = None
    /\ Leave(th)
    /\ UNCHANGED <<process, ssh>>

(* request() goes on ... *)
Proceed(th, d, request, answers) ==
    \/ Connect(th, d, answers) \/ WriteLine(th, d, request)
    \/ WriteRefused(th, d) \/ BeginRead(th, d) \/ ReadEnd(th)
    \/ Terminate(th, d)

(* ... until it raises, or returns with ReadLine. *)
Raise(th, d) == NoProcess(th, d) \/ Clear(th, d)

-----------------------------------------------------------------------------
(* The other side *)

(* The oldest line is answered, if anybody is left to answer to. *)
Answered(c, reply) ==
    Rest([drone |-> c.drone, alive |-> c.alive, inbox |-> Tail(c.inbox),
          outbox |-> IF c.alive THEN Append(c.outbox, reply) ELSE c.outbox])

Answer(p, reply) ==
    /\ ssh[p].inbox # << >>
    /\ ssh' = [ssh EXCEPT ![p] = Answered(@, reply)]
    /\ UNCHANGED <<process, place>>

Break(p) ==
    /\ ssh[p].alive
    /\ ssh' = [ssh EXCEPT ![p] = Closed(@)]
    /\ UNCHANGED <<process, place>>

(* The lines still on their way when the connection ended do not arrive. *)
Lose(p) ==
    /\ ~ssh[p].alive /\ ssh[p] # Gone
    /\ ssh' = [ssh EXCEPT ![p] = Gone]
    /\ UNCHANGED <<process, place>>

(* A process that another one has replaced loses its last reference and
   with it its standard input: the agent ends when it has read all of it. *)
Retire(p) ==
    /\ ssh[p].alive
    /\ \A d \in Drones : process[d] # p
    /\ ssh[p].inbox = << >>
    /\ ssh[p].outbox = << >> \/ \A th \in Threads : place[th].of # p
    /\ ssh' = [ssh EXCEPT ![p] = Gone]
    /\ UNCHANGED <<process, place>>

(* The drone goes down with its agents. *)
LoseAgents(d) ==
    /\ ssh' = [p \in Processes |-> IF ssh[p].drone = d THEN Gone ELSE ssh[p]]
    /\ UNCHANGED <<process, place>>

(* The objects, as a process that starts has them. *)
Unconnected == [d \in Drones |-> None]

Outside == [th \in Threads |-> [step |-> "out", of |-> None]]

ConnInit == /\ process = Unconnected
            /\ place = Outside
            /\ ssh = [p \in Processes |-> Gone]

(* The process ends and starts again. *)
Reset == /\ process' = Unconnected
         /\ place' = Outside
         /\ ssh' = [p \in Processes |-> Closed(ssh[p])]

-----------------------------------------------------------------------------
Connections(Requests, Replies) ==
    [drone: Drones \cup {NoDrone}, alive: BOOLEAN,
     inbox: Seq(Requests), outbox: Seq(Replies)]

(* Only a thread inside readline() holds on to a process. *)
ConnTypeOK(Requests, Replies) ==
    /\ process \in [Drones -> Processes \cup {None}]
    /\ ssh \in [Processes -> Connections(Requests, Replies)]
    /\ \A p \in Processes : ssh[p].alive \/ ssh[p].outbox = << >>
    /\ place \in [Threads -> Places]
    /\ \A th \in Threads : place[th].of # None <=> In(th, "wait")
=============================================================================
