SPECIFICATION NodeSpec
CONSTANTS
    c1 = c1
    c2 = c2
    Client = {c1, c2}
    EventCap = 1
    HalfExpiry = 2
    MaxTime = 5
    None = None
INVARIANTS
    NodeTypeOK
    TokenLifetime
PROPERTIES
    QueriesAnswered
