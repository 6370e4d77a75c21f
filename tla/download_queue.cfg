SPECIFICATION FairQSpec
CONSTANTS
    h1 = h1
    h2 = h2
    h3 = h3
    c1 = c1
    c2 = c2
    p1 = p1
    Hash = {h1, h2, h3}
    Peer = {p1}
    NoPeer = NoPeer
    Caller = {c1, c2}
    None = None
    QueueMax = 2
INVARIANTS
    QTypeOK
    ClaimsExact
    OnePlace
    QueueBound
PROPERTIES
    ClaimReleased
