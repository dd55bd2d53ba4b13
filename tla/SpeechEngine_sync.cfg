SPECIFICATION FairSpec
CONSTANTS
    MaxUtt = 3
    SyncSpeak = TRUE
INVARIANTS
    TypeOK
    EventsReachTheirOwnSite
    BoundariesUseTheirOwnText
    MapOutlivesItsReaders
    NothingLost
PROPERTIES
    SpeakReturns
CHECK_DEADLOCK FALSE
