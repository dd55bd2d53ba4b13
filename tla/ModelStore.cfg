SPECIFICATION FairSpec
CONSTANTS
    Files = 2
    Onnx = 1
    Scans = {load, other}
    LoadScan = load
INVARIANTS
    TypeOK
    CompleteUnlessInterrupted
    ArchivesAreWhole
PROPERTIES
    ArchiveOutlivesExtraction
    EverythingEnds
CHECK_DEADLOCK FALSE
