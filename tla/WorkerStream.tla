---------------------------- MODULE WorkerStream ----------------------------
(***************************************************************************)
(* What an SSHDrone of ssh_transport.py is meant to be for the threads     *)
(* that share it: one stream of request lines to the agent and reply lines *)
(* back.  Lines carry no identifier: a thread writes a line, and reads     *)
(* whatever line comes next.  When the stream ends every thread reading    *)
(* from it raises, and its close() also ends the stream another thread may *)
(* have opened meanwhile.  How far the code keeps to this is the subject   *)
(* of SSHTransport, which takes it as its abstract specification.          *)
(***************************************************************************)
EXTENDS Naturals, Sequences, FiniteSets

CONSTANTS Drones, Threads

VARIABLE stream    \* stream[d]: lines in transit, threads inside request()

(* Both queues empty, nobody inside request(): also a process not started,
   since request() connects first. *)
Fresh == [inbox |-> << >>, outbox |-> << >>, readers |-> {}, raised |-> {}]

(* close(), or the end of the file: the lines in transit are lost. *)
Ended(s) == [inbox |-> << >>, outbox |-> << >>, readers |-> {},
             raised |-> s.raised \cup s.readers]

StreamInit == stream = [d \in Drones |-> Fresh]

WriteLine(th, d, request) ==
    stream' = [stream EXCEPT ![d].inbox = Append(@, request),
                             ![d].readers = @ \cup {th}]

(* The agent answers the oldest request. *)
Answer(d, reply) ==
    /\ stream[d].inbox # << >>
    /\ stream' = [stream EXCEPT ![d].inbox = Tail(@),
                                ![d].outbox = Append(@, reply)]

ReadLine(th, d) ==
    /\ th \in stream[d].readers
    /\ stream[d].outbox # << >>
    /\ stream' = [stream EXCEPT ![d].outbox = Tail(@),
                                ![d].readers = @ \ {th}]

EndOfFile(d) ==
    /\ stream[d].readers # {}
    /\ stream' = [stream EXCEPT ![d] = Ended(@)]

Raise(th, d) ==
    /\ th \in stream[d].raised
    /\ LET ended == Ended(stream[d])
       IN  stream' = [stream EXCEPT ![d] =
                        [ended EXCEPT !.raised = @ \ {th}]]

(* Every thread reading from a stream is owed exactly one line on it: no
   thread waits for a reply somebody else has consumed, and no reply is left
   over to be taken for the answer to a later request. *)
OneReplyPerReader ==
    \A d \in Drones :
        Cardinality(stream[d].readers) =
            Len(stream[d].inbox) + Len(stream[d].outbox)
=============================================================================
