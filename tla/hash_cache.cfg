SPECIFICATION Spec
CONSTANTS
    h1 = h1
    h2 = h2
    Hash = {h1, h2}
    MaxSize = 2
    MaxAdds = 2
    MaxFailures = 2
INVARIANTS
    TypeOK
    NoDiscoveryLost
    CacheBound
PROPERTIES
    ImplementsLog
    EventuallyPersisted
    ShutdownCompletes
