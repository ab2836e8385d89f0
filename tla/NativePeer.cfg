\* Four frames in any order, one resend, and no patience for late ACKs.
CONSTANTS
    SeqSpace = 100
    FrameRetries = 0
    MaxChunks = 2
    MaxReply = 1
    MaxProgress = 1
    Parts <- AllParts
    MaxFrames = 4
    MaxResends = 1
SPECIFICATION Spec
INVARIANTS TypeOK RunsWhatWasAccepted AppliesOnce TurnsClosed
CHECK_DEADLOCK FALSE
