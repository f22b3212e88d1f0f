SPECIFICATION FairSpec
CONSTANTS
    NJobs = 2
    Window = 2
    MaxRestarts = 1
    Reader = {"monitor"}
INVARIANTS TypeOK OneActive SentOnce ConfirmedEndIsOver
PROPERTIES RestartInspects ImplementsPrintOnce SlotIsReleased
