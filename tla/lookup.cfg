SPECIFICATION LookupSpec
CONSTANTS
    s1 = s1
    s2 = s2
    r1 = r1
    r2 = r2
    Search = {s1, s2}
    Remote = {r1, r2}
    Rank <- Ranks
    Bootstrap = {r1}
    Knows <- Chain
    HasPeers = {r2}
    K = 2
    Rounds = 2
    TxnMod = 3
    MaxIssued = 1
    None = None
INVARIANTS
    LookupTypeOK
    AnswerMatches
PROPERTIES
    LookupEnds
