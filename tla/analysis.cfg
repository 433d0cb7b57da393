SPECIFICATION Spec
CONSTANTS
    None = None
    MaxSymbols = 4
    MaxFrames = 4
    SignatureDepth = 3
    RawWords = 2
    RequireThumb = TRUE
    Addr2Line <- Locations
    Reading <- Readings
    Now = 100
    MaxClockSkew = 5
    MillisAbove = 1000
    Millis = 10
    LastInstant = 2000
    MaxAddress = 127
    MaxRegisters = 2
    MaxStackWords = 8
    Uploads <- SomeUploads
    Payloads <- AllPayloads
    Shifts = {32, 64}
    MaxBuilds = 2
INVARIANTS
    TypeOK
    FramesTruthful
    CoveredResolves
    ChainInOrder
    LinesOfOwnFunction
    SameBugSameSignature
    DropsAreTold
PROPERTIES
    ReanalysisStable
CHECK_DEADLOCK FALSE
