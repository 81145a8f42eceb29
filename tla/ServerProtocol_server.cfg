\* Two messages fit into the kernel on the way to the server, less than one on
\* the way back: the handshake can find a request behind initialize, and both
\* ends can be blocked in Send at once.
CONSTANTS
    Plans <- ShortPlans
    Loops = {0, 2}
    MsgLen = 2
    ToServer = 4
    ToClient = 1
    MaxRead = 4
SPECIFICATION Spec
INVARIANT TypeOK
PROPERTIES ImplementsStream DeliversAll SendsEnd
