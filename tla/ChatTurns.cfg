\* Two connections wait for TURN_LOCK.
CONSTANTS
    Conns = {c1, c2}
    MaxOpen = 2
    Models = {}
    DefaultModel = DefaultModel
    MaxTurns = 3
    MaxFiles = 1
    MaxCrashes = 0
    MaxFailures = 0
SPECIFICATION FairSpec
PROPERTIES EveryPromptGetsItsTurn
CHECK_DEADLOCK FALSE
