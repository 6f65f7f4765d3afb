CONSTANTS
    Callers = {c1, c2}
    NumProviders = 2
    FailureThreshold = 2
    HalfOpenMaxCalls = 1
    MaxRetries = 1
    Answers = {"ok", "transient", "late", "permanent"}
SPECIFICATION FairSpec
INVARIANTS TypeOK ProbeInFlight FailuresBounded
PROPERTIES OpenUntilTimeout CallsReturn HalfOpenEnds
