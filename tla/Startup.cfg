SPECIFICATION MCSpec
CONSTANTS
    server = server
    cli = cli
    Admin = Admin
    other = other
    music = music
    Nobody = Nobody
    Dialects = {"postgres", "sqlite"}
    Names <- MCNames
    MusicFolders <- MCFolders
    MaxCrashes = 2
    k1 = k1
    k2 = k2
    k3 = k3
    r1 = r1
    r2 = r2
    Keys <- MCKeys
    Attempts <- MCAttempts
    MAX_FAILURES = 1
    WINDOW = 1
    _MAX_KEYS = 2
    DELAY = 1
INVARIANTS
    VersionsTellTheSchema
    BudgetHolds
PROPERTIES
    SeedsAreFinal
    ServerComesUp
    ForgetsOldestFirst
    AnotherChance
