\* Three messages, or a header and three objects, cut off anywhere.
CONSTANTS
    Messages <- MCMessages
    Headers <- MCHeaders
    Objects <- MCObjects
    TrackObjects <- MCTrackObjects
    MaxSent = 3
SPECIFICATION Spec
INVARIANTS HandledAsSent ObjectsAsSent ReadToTheEnd
