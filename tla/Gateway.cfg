SPECIFICATION FairSpec
CONSTANTS
    Threads = {g}
    Processes = {p, q}
    None = None
    Limits = {1, 100}
    ExitCodes = {0, 1}
    FaultKinds = {"disconnect", "stop"}
    MaxFaults = 1
    Drones = {1}
    Addresses = {"", "a1"}
    Capabilities = {}
    Offers <- MCOffers
    Jobs <- MCOnceJobs
    MaxTasks = 3
INVARIANTS
    CompletedAfterRun
    OrphansBounded
PROPERTIES
    QueuedWorkDrains
    EndedWorkIsRecorded
