\* Two streams of one object each; a first and a late subscriber, the late one
\* unsteady.
CONSTANTS
    s1 = s1
    s2 = s2
    sub1 = sub1
    sub2 = sub2
    Streams = {s1, s2}
    Subs = {sub1, sub2}
    First = sub1
    MaxObjects = 1
    Piped = {}
    Unsteady = {sub2}
    NoWriter = NoWriter
SYMMETRY StreamSymmetry
SPECIFICATION Spec
INVARIANTS TrackInv HeadersBeforeObjects FanOutStable LateSubscriberNoGap
CHECK_DEADLOCK FALSE
