SPECIFICATION Spec
CONSTANTS
    NJobs = 2
    NAuths = 1
    MaxBucket = 0
    OwnerSession = {o1, o2}
    StationSession = {}
SYMMETRY SessionSymmetry
INVARIANTS
    PrinterHeldByItsJob
    OrderFollowsJob
    DecisionsStillHold
PROPERTY ImplementsPlateLifecycle
