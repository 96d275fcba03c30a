----------------------------- MODULE DroneAgent -----------------------------
(***************************************************************************)
(* The worker on the drones, drone_agent.py, and the systemd units it      *)
(* starts.  serve() answers one request line at a time; each handler below *)
(* is the effect of one operation on the unit of its task, and the reply.  *)
(***************************************************************************)
EXTENDS Naturals

CONSTANT MaxTasks

VARIABLE unit      \* unit[t]: the unit of task t on its drone

UnitStates == {"none", "active", "exited", "failed", "stopped", "service"}

AgentInit == unit = [t \in 1..MaxTasks |-> "none"]

Replies == [ok: BOOLEAN,
            active: {"none", "active", "inactive", "failed"},
            exit_code: {0, 1}]

(* A reply whose result has no "active" and no "exit_code". *)
Plain(ok) == [ok |-> ok, active |-> "none", exit_code |-> 1]

(* What "systemctl show" says of the transient unit.  One that exited with
   0 or was stopped is unloaded, and an unloaded unit, like one that never
   existed, is inactive with ExecMainStatus 0.  A service runs as a unit of
   the user manager under another name, which this does not look at. *)
ActiveState(t) == IF unit[t] \in {"active", "failed"} THEN unit[t]
                  ELSE "inactive"

(* Faulty variant: failed units are unloaded like the others. *)
StatusReplyCollected(t) ==
    [ok |-> TRUE, exit_code |-> 0,
     active |-> IF unit[t] = "active" THEN "active" ELSE "inactive"]

(* Faulty variant: launch() starts its units with RemainAfterExit. *)
StatusReplyRemaining(t) ==
    [ok |-> TRUE, exit_code |-> IF unit[t] = "failed" THEN 1 ELSE 0,
     active |-> IF unit[t] = "exited" THEN "active" ELSE ActiveState(t)]

StatusReply(t) == [ok |-> TRUE, active |-> ActiveState(t),
                   exit_code |-> IF unit[t] = "failed" THEN 1 ELSE 0]

(* launch() fails on a unit name in use, apply_service() does not. *)
UnitName(t, mode) == IF mode = "service" THEN "service" ELSE "active"

Launch(t, mode) ==
    /\ mode = "once" => unit[t] \notin {"active", "failed"}
    /\ unit' = [unit EXCEPT ![t] = UnitName(t, mode)]

(* Faulty variant: the unit is not stopped. *)
CancelNothing(t) == UNCHANGED unit

(* "systemctl stop" ends an active unit and leaves any other as it is. *)
Cancel(t) ==
    unit' = [unit EXCEPT ![t] = IF @ = "active" THEN "stopped" ELSE @]

(* Should it fail, the unit goes on; the reply is ok all the same. *)
CancelFailed(t) == unit[t] = "active" /\ UNCHANGED unit

(* The command of a one-shot task ends. *)
UnitExit(t, code) ==
    /\ unit[t] = "active"
    /\ unit' = [unit EXCEPT ![t] = IF code = 0 THEN "exited" ELSE "failed"]

(* The drone goes down; a live image keeps no unit over a reboot. *)
LoseUnits(lost) ==
    unit' = [t \in 1..MaxTasks |->
               IF t \in lost /\ unit[t] \in {"active", "failed", "service"}
               THEN "none" ELSE unit[t]]
=============================================================================
