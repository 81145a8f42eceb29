\* Messages that differ from a new one in one member.
CONSTANTS
    MaxChanged = 1
    Late = {}
SPECIFICATION MessagesSpec
INVARIANT ArriveAsSent
