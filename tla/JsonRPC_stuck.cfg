\* A header section without Content-Length, a Content-Length of 0 or a payload that
\* is not JSON, and a good message behind it.
CONSTANTS
    Streams <- FaultyStreams
    MaxChunk = 6
    LongMax = 15
SPECIFICATION Spec
INVARIANT NothingStuck
