SPECIFICATION FairSpec
CONSTANTS
    MaxRecordingEvents = 3
    MaxEventPageSize = 2
    MaxSequence = 8
    PageLimit = 2
    MaxPages = 2
    MaxShown = 4
INVARIANTS TypeOK RingIsContiguous ShownIsContiguous TruncationIsLoss
PROPERTIES TimelineCatchesUp
