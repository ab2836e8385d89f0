\* Four processes and one request over HTTP; the container starts three times.
CONSTANTS
    Clients = {c1, c2, c3, c4}
    HttpCalls = {h1}
    Nobody = Nobody
    MaxBoots = 3
    MaxPieces = 2
SPECIFICATION Spec
INVARIANTS TypeOK
PROPERTIES OwnAnswer RefusedUntilRestart
CHECK_DEADLOCK FALSE
