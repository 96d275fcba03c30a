--------------------------- MODULE MCCoordinator ---------------------------
(***************************************************************************)
(* Small instances of Coordinator: one drone or two, one slot each, two or *)
(* three tasks, one thread (the MCP gateway) or two (the dashboard).       *)
(***************************************************************************)
EXTENDS Coordinator, TLC

Offer(address) == [address |-> address, capabilities |-> {}, slots |-> 1]

MCOffers == [d \in Drones |-> {Offer("a1")}]

AnyJob == [mode |-> "once", required |-> {}, target |-> AnyDrone]

MCOnceJobs == {AnyJob}

Symmetry == Permutations(Threads) \cup Permutations(Processes)
=============================================================================
