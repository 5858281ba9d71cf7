\* One stream of two objects, whose copy for the first, unsteady subscriber is
\* followed to its end; fairness.
CONSTANTS
    s1 = s1
    s2 = s2
    sub1 = sub1
    sub2 = sub2
    Streams = {s1}
    Subs = {sub1, sub2}
    First = sub1
    MaxObjects = 2
    Piped <- MCPiped
    Unsteady = {sub1}
    NoWriter = NoWriter
SPECIFICATION FairSpec
PROPERTIES GroupStreamSpec ForwardReleased CloseTerminates SubscribeIsServed
CHECK_DEADLOCK FALSE
