\* Two groups of two objects, each group in a stream of its own.
CONSTANTS
    relay = relay
    MaxGroups = 2
    MaxRetries = 5
    Streams <- MCStreams
    PubStreams <- MCStreams
    Pipes <- MCPipes
    Objects = {0, 1}
    MaxObjects = 2
SPECIFICATION PubSpec
INVARIANTS DeliveredIsPrefix GroupsAreContiguous
PROPERTIES NewStreamReturns
CHECK_DEADLOCK FALSE
