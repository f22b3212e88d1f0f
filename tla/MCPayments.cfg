SPECIFICATION FairSpec
CONSTANTS
    BuyerSession = {b1}
    HookSession = {h1}
    ReconcileSession = {r1, r2}
    Event = {captured}
    MaxOverlaps = 1
    MaxReturns = 1
    MaxDeliveries = 2
INVARIANTS TypeOK PaidTogether PostedOnce
PROPERTIES ImplementsPaymentContract CapturedIsConfirmed
CHECK_DEADLOCK FALSE
