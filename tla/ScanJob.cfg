SPECIFICATION FairSpec
CONSTANTS
    w1 = w1
    w2 = w2
    r1 = r1
    r2 = r2
    r3 = r3
    Workers <- MCWorkers
    Requests <- MCRequests
    MaxFolders = 2
    ConnectMayFail = TRUE
    ListMayFail = TRUE
PROPERTIES
    CancelsAreObeyed
    ImplementsExclusiveJob
    ScansEnd
