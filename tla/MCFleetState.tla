---------------------------- MODULE MCFleetState ----------------------------
(***************************************************************************)
(* Small fleets for FleetState: two drones, one of which may re-register   *)
(* with fewer slots or other capabilities.                                 *)
(***************************************************************************)
EXTENDS FleetState

MCOffers == [d \in Drones |->
    IF d = 1
    THEN {[address |-> "a1", capabilities |-> {"gpu"}, slots |-> 2],
          [address |-> "a1", capabilities |-> {}, slots |-> 1],
          [address |-> "a1", capabilities |-> {}, slots |-> 0]}
    ELSE {[address |-> "", capabilities |-> {}, slots |-> 1]}]

MCJobs == {[mode |-> "once", required |-> {}, target |-> AnyDrone],
           [mode |-> "once", required |-> {"gpu"}, target |-> AnyDrone],
           [mode |-> "once", required |-> {}, target |-> 1],
           [mode |-> "service", required |-> {"gpu"}, target |-> 2],
           [mode |-> "cron", required |-> {}, target |-> AnyDrone]}
=============================================================================
