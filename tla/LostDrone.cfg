SPECIFICATION FairSpec
CONSTANTS
    Threads = {g}
    Processes = {p, q, r}
    None = None
    Limits = {100}
    ExitCodes = {0}
    FaultKinds = {"poweroff"}
    MaxFaults = 1
    Drones = {1, 2}
    Addresses = {"", "a1"}
    Capabilities = {}
    Offers <- MCOffers
    Jobs <- MCOnceJobs
    MaxTasks = 2
PROPERTY
    LiveDronesAreServed
