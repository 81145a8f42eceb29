\* Pause is pressed before the answer to initialize.
CONSTANTS
    Args = {1}
    Commands <- FrameCommands
    OrderedCommands <- AllCommands
    RefusedCommands = {}
    ServerEvents = {}
    MaxSeq = 3
    MaxSessions = 1
    MaxEvents = 0
    MaxChunk = 1
    MaxDepth = 1
    MaxScopes = 1
SPECIFICATION FrameSpec
INVARIANT NothingBeforeAnswer
CHECK_DEADLOCK FALSE
