SPECIFICATION Spec
CONSTANTS
    Procs = {p1, p2}
    MaxPolls = 2
INVARIANT DefersToAnother
CHECK_DEADLOCK FALSE
