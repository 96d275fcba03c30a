SPECIFICATION DbSpec
CONSTANTS
    g = g
    d = d
    Processes = {g, d}
    Updaters = {g}
    MaxFaults = 1
    Drones = {1, 2}
    Addresses = {"a1"}
    Capabilities = {"gpu"}
    Offers <- MCOffers
    Jobs <- MCJobs
    MaxTasks = 2
INVARIANTS
    DbTypeOK
    SlotDriftBounded
    LogFollowsTable
PROPERTY
    MethodsAreAtomic
