CONSTANTS
    Roots = {r1}
    Sids = {s1, s2}
    Paths = {a, b}
    Contents = {v1}
    Absent = Absent
    Junk = Junk
    None = None
    Nested = TRUE
    Races = {}
    Faults = {"copy", "diff", "stage", "apply", "cleanup", "lose", "crash"}
SPECIFICATION Spec
SYMMETRY Symmetry
INVARIANTS Inv
PROPERTIES NoLostUpdate OnlySessionWrites CommitInstallsSession SessionsAtomic
