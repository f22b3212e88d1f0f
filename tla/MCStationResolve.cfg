SPECIFICATION Spec
CONSTANTS
    NJobs = 1
    Window = 1
    MaxRestarts = 0
    Reader = {"monitor"}
PROPERTIES ResolvesUncertainOnly
