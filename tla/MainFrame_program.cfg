\* Two sessions of the program: it launches or attaches, stops twice and steps.
CONSTANTS
    Args = {1}
    Commands <- FrameCommands
    OrderedCommands <- AllCommands
    RefusedCommands = {"launch"}
    ServerEvents = {"initialized", "stopped", "terminated", "runInTerminal"}
    MaxSeq = 6
    MaxSessions = 2
    MaxEvents = 2
    MaxChunk = 1
    MaxDepth = 1
    MaxScopes = 2
SPECIFICATION FrameSpec
CONSTRAINT Small
INVARIANTS  FrameOfThisSession FrameIsCurrent
\* the user and the server may stop for good
CHECK_DEADLOCK FALSE
