SPECIFICATION FairSpec
CONSTANTS
    Threads = {g}
    Processes = {p, q}
    None = None
    Limits = {100}
    ExitCodes = {0, 1}
    FaultKinds = {}
    MaxFaults = 0
    Drones = {1}
    Addresses = {"", "a1"}
    Capabilities = {}
    Offers <- MCOffers
    Jobs <- MCOnceJobs
    MaxTasks = 2
PROPERTY
    EveryEndIsRecorded
