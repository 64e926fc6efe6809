SPECIFICATION Spec
CONSTANTS
    MaxRecordingEvents = 2
    MaxEventPageSize = 2
    MaxSequence = 7
    Limits <- MCLimits
    MaxTraceEventsPerGeneration = 2
    MaxLines = 3
    MaxGeneration = 2
INVARIANTS TypeOK EveryLineIsAccounted SamplingIsDeterministic
