CONSTANTS
    Pollers = {p1}
    Roots = {r1}
    Subs = {u1, u2, u3}
    NoTask = NoTask
    MaxSubs = 2
    Outcomes = {"accepted", "completed", "busy"}
    Faults = {"plan", "dispatch", "db", "dbfail", "crash"}
SPECIFICATION Spec
SYMMETRY Symmetry
INVARIANTS TypeOK CompletedIsDone
PROPERTY TerminalStays
