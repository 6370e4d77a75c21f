SPECIFICATION MCSpec
CONSTANTS
    h1 = h1
    h2 = h2
    h3 = h3
    c1 = c1
    p1 = p1
    w1 = w1
    w2 = w2
    Hash = {h1, h2, h3}
    Peer = {p1}
    NoPeer = NoPeer
    Caller = {c1}
    None = None
    QueueMax = 1
    Worker = {w1}
    PerWorker = 2
INVARIANTS
    PoolTypeOK
    OneOwner
    FreshInsert
PROPERTIES
    UsesQueue
    ImplementsDownloads
    QueuedCompletes
