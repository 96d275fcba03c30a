SPECIFICATION FleetSpec
CONSTANTS
    Drones = {1, 2}
    Addresses = {"", "a1"}
    Capabilities = {"gpu"}
    Offers <- MCOffers
    Jobs <- MCJobs
    MaxTasks = 4
INVARIANTS
    FleetTypeOK
    SlotsBacked
    MissingSlotsWereCancelledUnstarted
PROPERTY
    TaskLifecycleHolds
