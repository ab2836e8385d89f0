\* Three notes in a row and a pool of two workers.
CONSTANTS
    Pages <- ThreeNotes
    NoEntry = NoEntry
    Workers = 2
SPECIFICATION InkFairSpec
INVARIANTS ReadsItsPages RefusedOnlyIfCrossed
PROPERTIES NoteEnds
CHECK_DEADLOCK FALSE
