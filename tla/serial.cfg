SPECIFICATION FairSpec
CONSTANTS
    Clients = {c1}
    BufferSize = 2
    QueueSize = 2
    MaxChunks = 3
    MaxBoots = 2
    None = None
INVARIANTS TypeOK StreamIsContiguous
PROPERTIES PowerOffEndsStreams
