SPECIFICATION LinkSpec
CONSTANTS
    Entry = {e1, e2}
    NoEntry = NoEntry
    Tab = {t1}
    Bridge = {s1}
    Bucket = {0}
    MaxFaults = 1
INVARIANTS
    LinkTypeOK
    ReservationAgrees
    AcknowledgedBeforeSend
    
    NobodyForgotten
PROPERTIES
    
    ImplementsPlateLifecycle
CHECK_DEADLOCK FALSE
