SPECIFICATION Spec
CONSTANTS
    MaxUtt = 3
    SyncSpeak = FALSE
INVARIANTS
    SiteHeldWhileUsed
    NothingHeldWhenIdle
PROPERTIES
    ContractSpec
CHECK_DEADLOCK FALSE
