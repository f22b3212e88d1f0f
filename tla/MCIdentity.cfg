SPECIFICATION Spec
CONSTANTS
    Client = {s1, s2}
    MaxSessions = 1
    MaxRows = 3
    RecoveryCode = {c1}
    MaxAttempts = 2
    ResetBy = {"buyer"}
    MaxTokens = 2
    MaxChallenges = 2
    MaxSecrets = 1
    MaxStep = 1
SYMMETRY ClientSymmetry
INVARIANTS
    IdentityTypeOK
    OneLineOfSessions
    ProofUsedOnce
    SessionsBounded
CHECK_DEADLOCK FALSE
