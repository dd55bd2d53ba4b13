SPECIFICATION Spec
CONSTANTS
    Files = 2
    Onnx = 1
    Scans = {load}
    LoadScan = load
PROPERTIES
    CompletedDownloadsHeal
CHECK_DEADLOCK FALSE
