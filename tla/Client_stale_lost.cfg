\* A connection error left over from one session ends the next.
CONSTANTS
    Args = {1}
    Commands = {"stackTrace"}
    ServerEvents = {}
    OrderedCommands <- AllCommands
    RefusedCommands = {}
    MaxSeq = 2
    MaxSessions = 2
    MaxEvents = 0
    MaxChunk = 2
    MaxDepth = 2
SPECIFICATION Spec
INVARIANTS LostIsCurrent
\* the application and the server may stop for good
CHECK_DEADLOCK FALSE
