SPECIFICATION Spec
CONSTANTS
    Threads = {a, b}
    Processes = {p, q, r}
    None = None
    Limits = {100}
    ExitCodes = {0}
    FaultKinds = {}
    MaxFaults = 0
    Drones = {1}
    Addresses = {"", "a1"}
    Capabilities = {}
    Offers <- MCOffers
    Jobs <- MCOnceJobs
    MaxTasks = 1
INVARIANT
    CompletedAfterRun
