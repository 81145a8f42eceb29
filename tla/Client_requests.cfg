\* A server that may refuse all but steps, and that answers the requests of one kind
\* in their order where the client relies on it, all others in any order.
CONSTANTS
    Args = {1, 2}
    Commands <- AllCommands
    OrderedCommands <- OrderedKinds
    ServerEvents = {"stopped", "continued", "runInTerminal"}
    RefusedCommands <- RequestCommands
    MaxSeq = 3
    MaxSessions = 1
    MaxEvents = 2
    MaxChunk = 1
    MaxDepth = 1
SPECIFICATION Spec
CONSTRAINT OneConcern
INVARIANTS RefIdMatches QueuesMirrorOutstanding OriginMatches FilepathMatches
    InFlightCoversOutstanding TrackedAreForgotten InteractIffStopped
\* the application and the server may stop for good
CHECK_DEADLOCK FALSE
