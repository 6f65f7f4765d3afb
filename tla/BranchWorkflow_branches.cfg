CONSTANTS
    Callers = {c1, c2}
    Branches = {b1, b2}
    Requests = {r1, r2}
    Sessions = {s1, s2, s3, s4}
    Base = Base
    None = None
    MaxBranches = 1
    Faults = {"sql", "session", "read", "crash", "restart"}
    MaxFaults = 1
    ReadsBack = TRUE
SPECIFICATION Spec
SYMMETRY Symmetry
CONSTRAINT Bounded
INVARIANTS TypeOK FailedHasNoSession MergedWasCommitted OneMergeCommitted OpenWithinLimit MergingIsStaged
PROPERTY RecoverySettles
