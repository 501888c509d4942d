SPECIFICATION FairSpec
CONSTANTS
    a1 = a1
    a2 = a2
    x1 = x1
    i1 = i1
    i2 = i2
    None = None
    Albums = {a1, a2}
    Artists = {x1}
    Images = {i1, i2}
    LocalArt <- OwnArt
    WebArt <- DeezerArt
    BatchSize = 2
    FaultKinds = {"miss", "disk", "db", "rm", "cancel", "crash"}
    MaxFaults = 1
    MaxChanges = 3
INVARIANT
    CoversHaveFiles
PROPERTY
    ArtworkConverges
