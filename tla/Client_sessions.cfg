\* Sessions one after the other, in every interleaving with the reader threads.
CONSTANTS
    Args = {1}
    Commands = {"stackTrace"}
    ServerEvents = {}
    OrderedCommands <- AllCommands
    RefusedCommands = {}
    MaxSeq = 3
    MaxSessions = 2
    MaxEvents = 0
    MaxChunk = 2
    MaxDepth = 2
SPECIFICATION Spec
INVARIANTS TypeOK ReaderHasTransport NothingStaleOnceFresh SessionsInOrder QueuesMirrorOutstanding
PROPERTIES LostSessionEnds JoinTerminates
\* the application and the server may stop for good
CHECK_DEADLOCK FALSE
