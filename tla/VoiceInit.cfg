SPECIFICATION Spec
CONSTANTS
    Threads = {t1, t2}
    MaxLoads = 2
SYMMETRY ThreadSymmetry
INVARIANTS
    TypeOK
    RegistrationIsWhole
    CallsResolvedUnlessRaced
    StalePathResolves
CHECK_DEADLOCK FALSE
