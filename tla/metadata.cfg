SPECIFICATION Spec
CONSTANTS
    PieceSize = 2
    MaxMetaSize = 6
    Sizes = {1, 2, 3, 5, 6, 7}
    PeerIds = {0, 1, 2}
    Timeout = 2
    MaxUnread = 3
    None = None
INVARIANTS
    MetadataTypeOK
    HonestPeerVerifies
    AnswersCount
PROPERTIES
    DownloadEnds
