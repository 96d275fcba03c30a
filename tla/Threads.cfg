SPECIFICATION Spec
SYMMETRY Symmetry
CONSTANTS
    Threads = {a, b}
    Processes = {p, q}
    None = None
    Limits = {1}
    ExitCodes = {0}
    FaultKinds = {"poweroff", "restart"}
    MaxFaults = 1
    Drones = {1}
    Addresses = {"", "a1"}
    Capabilities = {}
    Offers <- MCOffers
    Jobs <- MCOnceJobs
    MaxTasks = 2
INVARIANTS
    CoordTypeOK
    LaunchedOnceReserved
PROPERTY
    UsesStateOnly
