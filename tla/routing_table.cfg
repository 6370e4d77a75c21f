SPECIFICATION TableSpec
CONSTANTS
    Bits = 3
    localID <- LocalID
    Contact <- Contacts
    Addr <- Addrs
    KeyOrder <- Keys
    K = 2
    NodeTimeout = 1
    MaxTime = 3
INVARIANTS
    TableTypeOK
    TableShape
    BucketOrder
    FindClosestCorrect
    MessagesSurvive
PROPERTIES
    FreshNodesStay
