SPECIFICATION FairSpec
CONSTANTS
    Procs = {p1, p2}
    MaxPolls = 2
INVARIANTS
    TypeOK
    AtMostOneUi
    TracksOnlyWithConsent
    MixedOnlyIfRaced
PROPERTIES
    LaunchEnds
CHECK_DEADLOCK FALSE
