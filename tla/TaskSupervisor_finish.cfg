CONSTANTS
    Pollers = {p1}
    Roots = {r1}
    Subs = {u1, u2, u3}
    NoTask = NoTask
    MaxSubs = 2
    Outcomes = {"accepted", "completed"}
    Faults = {"plan", "dispatch", "db"}
SPECIFICATION FairSpec
INVARIANT AskedOnce
PROPERTIES TasksFinish FailurePropagates
