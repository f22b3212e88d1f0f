SPECIFICATION Spec
CONSTANTS
    NJobs = 1
    NAuths = 2
    MaxBucket = 1
    OwnerSession = {o1, o2}
    StationSession = {b1}
SYMMETRY SessionSymmetry
INVARIANTS
    AuthorityMatchesJob
    PlateSentOnce
