SPECIFICATION Spec
CONSTANTS
    NJobs = 2
    Window = 1
    MaxRestarts = 1
    Reader = {"monitor"}
PROPERTIES RestartInspects
