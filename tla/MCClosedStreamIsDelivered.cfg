\* A copy may never be finished, or be finished without the last objects.
CONSTANTS
    relayed = relayed
    sub1 = sub1
    sub2 = sub2
    Streams = {relayed}
    PubStreams = {}
    Pipes <- MCPipes
    Objects = {a, b}
    MaxObjects = 2
SPECIFICATION FairSpec
PROPERTY ClosedStreamIsDelivered
CHECK_DEADLOCK FALSE
