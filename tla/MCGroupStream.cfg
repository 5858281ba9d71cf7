\* Two copies of a relayed stream, at most two objects.
CONSTANTS
    relayed = relayed
    sub1 = sub1
    sub2 = sub2
    Streams = {relayed}
    PubStreams = {}
    Pipes <- MCPipes
    Objects = {a, b}
    MaxObjects = 2
SPECIFICATION FairSpec
INVARIANTS PipeInv
PROPERTIES MulticastSpec ParkedPipeDelivers ReachedPipeFinishes FailedRelayPipeCloses
CHECK_DEADLOCK FALSE
