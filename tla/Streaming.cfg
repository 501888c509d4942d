SPECIFICATION MCSpec
CONSTANTS
    s1 = s1
    Streams <- MCStreams
    Chunks = 2
    ErrorLines = 2
    Policies <- MCPolicies
    Sources <- MCSources
    Clients <- MCClients
    Formats <- MCFormats
    BitRates <- MCBitRates
    Headers <- MCHeaders
    Offsets <- MCOffsets
    Sizes <- MCSizes
    RATE = 2
    CHUNK = 2
    Duration = 3
INVARIANTS
    DecisionIsHonoured
    ServedWithinCeilings
    PartialsAreParts
    BodiesMatchHeaders
    ProcessesAreOwned
PROPERTY
    StreamsAndProcessesEnd
