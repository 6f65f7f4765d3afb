CONSTANTS
    Roots = {r1}
    Sids = {s1, s2}
    Paths = {a}
    Contents = {v1}
    Absent = Absent
    Junk = Junk
    None = None
    Nested = TRUE
    Races = {"agent", "external"}
    Faults = {"copy", "diff", "stage", "apply", "cleanup", "crash"}
SPECIFICATION FairSpec
INVARIANTS Shape LiveSessionsKeepDirs
PROPERTY LockReleased
