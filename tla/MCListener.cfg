\* A connection of each kind; two streams after the upgrade, room for one in the
\* channel.
CONSTANTS
    moq = moq
    web = web
    odd = odd
    Conns = {moq, web, odd}
    Alpn <- MCAlpn
    Hellos <- MCHellos
    ChanCap = 1
    MaxUni = 2
SPECIFICATION Spec
INVARIANTS SettingsAsSent PumpKeepsStreams
PROPERTIES ConnectionsAreServed
CHECK_DEADLOCK FALSE
