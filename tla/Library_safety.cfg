SPECIFICATION Spec
CONSTANTS
    f1 = f1
    f2 = f2
    f3 = f3
    d1 = d1
    d2 = d2
    mary = mary
    guy = guy
    maryAlbum = maryAlbum
    guyAlbum = guyAlbum
    None = None
    Files = {f1, f2}
    Folders = {d1}
    FolderOf <- OneFolder
    Tags <- GuestTags
    FallbackTag <- OnGuys
    BatchSize = 1
    MaxClock = 2
    FaultKinds = {"miss", "read", "db", "cancel", "crash"}
    MaxFaults = 1
INVARIANTS
    StampedRowsAreCurrent
    ReferencesHold
    AggregatedCountsExact
SYMMETRY FileSymmetry
