\* Every chunking of every short stream, malformed messages included.
CONSTANTS
    Streams <- ShortStreams
    MaxChunk = 5
    LongMax = 15
SPECIFICATION Spec
INVARIANTS TypeOK DeliversWhatIsComplete NothingLost
PROPERTIES ImplementsStream DeliversAll
