CONSTANTS
    MaxMerge = 8
    Branches = {b1, b2, b3}
    Files = {f}
    LineValues = {x, y}
    NoFile = NoFile
    NoRequest = NoRequest
    MaxLines = 3
    MaxEdits = 2
    Faults = {"manager", "db", "dbfail"}
    MaxFaults = 1
SPECIFICATION Spec
SYMMETRY Symmetry
CHECK_DEADLOCK FALSE
INVARIANTS CompletedKeepsAll MergesAgree DiffCovers ConflictsAreOverlaps
