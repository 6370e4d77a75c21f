SPECIFICATION MCSpec
CONSTANTS
    h1 = h1
    h2 = h2
    g1 = g1
    g2 = g2
    Hash = {h1, h2}
    Port = {1, 2}
    CommonPorts <- Ports
    Limit = 1
    MaxSubmitted = 1
    MaxPeers = 2
    MaxEvents = 2
    Goroutine = {g1, g2}
INVARIANTS
    CrawlerTypeOK
    LimiterConserved
    DiscoveredKept
PROPERTIES
    LimiterRecovers
