\* One caller at a time; the Newton may reconnect, answer late or twice.
CONSTANTS
    Callers = {s1}
    Conns = {c1, c2, c3}
    NoConn = NoConn
    MaxId = 3
SPECIFICATION Spec
INVARIANTS TypeOK Correlated
PROPERTIES ImplementsService
CHECK_DEADLOCK FALSE
