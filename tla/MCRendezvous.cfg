\* One subscriber that asks again when the namespace is announced, for a track
\* that is always subscribed upstream.
CONSTANTS
    p1 = p1
    r1 = r1
    r2 = r2
    Pubs = {p1}
    Subs = {r1}
    Main = Main
    NoPub = NoPub
    IsCatalog = TRUE
    Calls <- AllCalls
    Mortal = {p1}
SPECIFICATION FairSpec
PROPERTIES Rendezvous
CHECK_DEADLOCK FALSE
