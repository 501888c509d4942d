SPECIFICATION MCSpec
CONSTANTS
    admin = admin
    user = user
    t1 = t1
    t2 = t2
    e1 = e1
    e2 = e2
    Accounts <- MCAccounts
    Admins <- MCAdmins
    TrackIds <- MCTracks
    Editors <- MCEditors
    Callers <- MCEditors
    Selections <- MCSelections
    Removals <- MCRemovals
    Batches <- MCBatches
    MaxLists = 2
    MaxPosition = 2
    MaxPlays = 2
    MaxStations = 2
INVARIANTS
    NoDanglingRows
    PlaysMatchTheAnswers
PROPERTIES
    IdsKeepTheirMeaning
    OnlyTheEntitledEdit
    AddsKeepEntries
    RemovalsCloseGaps
SYMMETRY MCSymmetry
CHECK_DEADLOCK FALSE
