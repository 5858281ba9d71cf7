CONSTANTS
    track = track
    group = group
    a = a
    b = b
    c = c
    NoOne = NoOne
    Streams = {track, group}
    TrackStreams = {track}
    Objects = {a, b, c}
    Size <- MCSize
    Group <- MCGroup
    Subs = {late}
    MaxCacheSize = 3
    MaxCacheBytes = 2
    MaxCached = 4
SPECIFICATION Spec
INVARIANT ReplayKeepsGroups
CHECK_DEADLOCK FALSE
