\* Two prompts over two connections, one retry, one progress frame a turn,
\* replies of up to two lines.
CONSTANTS
    SeqSpace = 100
    FrameRetries = 1
    MaxChunks = 2
    MaxReply = 2
    MaxProgress = 1
    LongParts = 2
    MaxPrompts = 2
    MaxDials = 2
SPECIFICATION FairSpec
INVARIANTS RepliesShownOnce PromptsRunWhole
PROPERTIES DeliversInOrder TurnsEnd
CHECK_DEADLOCK FALSE
