\* Two callers race for the one pending slot.
CONSTANTS
    Callers = {s1, s2}
    Conns = {c1, c2}
    NoConn = NoConn
    MaxId = 3
SPECIFICATION FairSpec
INVARIANTS PendingHasItsCaller OutcomeHasItsCaller
PROPERTIES EveryCallReturns
CHECK_DEADLOCK FALSE
