\* Two connections at once: are registry ordinals stable?
CONSTANTS
    Conns = {c1, c2}
    MaxOpen = 2
    Models = {}
    DefaultModel = DefaultModel
    MaxTurns = 2
    MaxFiles = 2
    MaxCrashes = 0
    MaxFailures = 0
SPECIFICATION Spec
PROPERTIES OrdinalsStable
CHECK_DEADLOCK FALSE
