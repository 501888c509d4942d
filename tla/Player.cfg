SPECIFICATION PlayerSpec
CONSTANTS
    t1 = t1
    t2 = t2
    t3 = t3
    Tracks <- MCTracks
    Lists <- MCLists
    Fresh <- MCFresh
    REFILL_WHEN_REMAINING = 0
    MaxQueue = 4
    MaxClicks = 2
    MaxOthers = 1
    MaxLost = 1
    MaxSaves = 2
INVARIANTS
    PlaysWhatIsShown
    StoredQueueIsOneSave
    EndedTracksAwaitAnAnswer
PROPERTY
    PlayingIsSaved
CHECK_DEADLOCK FALSE
