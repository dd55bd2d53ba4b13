SPECIFICATION Spec
CONSTANTS
    Sherpa = {s1}
    Cloud = {}
    Foreign = {s1}
    Rtl = {s1}
    MaxActions = 3
INVARIANTS
    AliasesFollowSettings
CHECK_DEADLOCK FALSE
