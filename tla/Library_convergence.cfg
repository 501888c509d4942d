SPECIFICATION FairSpec
CONSTANTS
    f1 = f1
    f2 = f2
    f3 = f3
    d1 = d1
    d2 = d2
    mary = mary
    guy = guy
    maryAlbum = maryAlbum
    guyAlbum = guyAlbum
    None = None
    Files = {f1, f2, f3}
    Folders = {d1, d2}
    FolderOf <- TwoAndOne
    Tags <- HostTags
    FallbackTag <- OnMarys
    BatchSize = 2
    MaxClock = 1
    FaultKinds = {"miss", "read", "db", "cancel", "crash"}
    MaxFaults = 1
INVARIANT
    CleanScanMirrorsDisk
PROPERTIES
    RowsOfPresentFilesSurvive
    LibraryConverges
