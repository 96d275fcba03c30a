-------------------------- MODULE MCSharedDatabase --------------------------
(***************************************************************************)
(* Small instances of SharedDatabase: two processes on one database.       *)
(***************************************************************************)
EXTENDS SharedDatabase

CONSTANTS g, d     \* a gateway and the dashboard, or a second gateway

(* Drone 1 may come back with fewer slots and without its GPU. *)
MCOffers == [e \in Drones |->
    IF e = 1
    THEN {[address |-> "a1", capabilities |-> {"gpu"}, slots |-> 2],
          [address |-> "a1", capabilities |-> {}, slots |-> 1]}
    ELSE {[address |-> "a1", capabilities |-> {}, slots |-> 1]}]

MCJobs == {[mode |-> "once", required |-> {"gpu"}, target |-> AnyDrone],
           [mode |-> "once", required |-> {}, target |-> AnyDrone],
           [mode |-> "once", required |-> {}, target |-> 2]}
=============================================================================
