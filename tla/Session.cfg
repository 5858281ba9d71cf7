\* Both ends this code, or one of them another program that sends two messages.
CONSTANTS
    ClientRoles = {"pub", "sub"}
    MaxRetries = 1
    MaxCalls = 1
    MaxForeign = 2
SPECIFICATION FairSpec
INVARIANTS SessionInv ChannelsClosedOnce HandshakeSignalledOnce DialMeansAgreement
PROPERTIES LostSessionIsForgotten DoHandleEnds
CHECK_DEADLOCK FALSE
