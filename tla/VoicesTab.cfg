SPECIFICATION FairSpec
CONSTANTS
    Engines = {sherpa, edge}
    Loads = {l1, l2}
    Commands = {promote, promoteSelected}
    Counting = {promote}
    NoLoad = NoLoad
INVARIANTS
    TypeOK
    NoIdleSpinner
    ListIsOneLoad
    ReflectsUnlessDisturbed
PROPERTIES
    LoadingEnds
