CONSTANTS
    MaxMerge = 8
    Branches = {b1, b2}
    Files = {f}
    LineValues = {x, y}
    NoFile = NoFile
    NoRequest = NoRequest
    MaxLines = 2
    MaxEdits = 1
    Faults = {"manager", "db", "dbfail"}
    MaxFaults = 0
SPECIFICATION Spec
SYMMETRY Symmetry
CHECK_DEADLOCK FALSE
INVARIANT DiffTransforms
