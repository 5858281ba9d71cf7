\* Two subscribers that subscribe once, and a publisher that may be lost.
CONSTANTS
    p1 = p1
    r1 = r1
    r2 = r2
    Pubs = {p1}
    Subs = {r1, r2}
    Main = Main
    NoPub = NoPub
    IsCatalog = FALSE
    Calls <- MainCalls
    Mortal = {p1}
SPECIFICATION Spec
INVARIANTS ControlInv UpstreamIsKnown OkAnswersOwnSubscribe
CHECK_DEADLOCK FALSE
