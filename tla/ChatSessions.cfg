\* One connection at a time; a save may fail and another be cut by a crash.
CONSTANTS
    Conns = {c1}
    MaxOpen = 1
    Models = {m1}
    DefaultModel = DefaultModel
    MaxTurns = 3
    MaxFiles = 3
    MaxCrashes = 1
    MaxFailures = 1
SPECIFICATION Spec
INVARIANTS OneThreadPerSession RegistryNeverAhead
PROPERTIES HistoryGrows OrdinalsStable
CHECK_DEADLOCK FALSE
