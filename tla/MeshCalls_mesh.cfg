CONSTANTS
    Nodes = {"n1", "n2"}
    Addresses = {x, y}
    Instances = {"a1", "a2", "b1"}
    Serves <- MCServes
    Plugins = {"p"}
    Starts <- MCStarts
    Mortal = {"a1"}
    Rank <- MCRank
    MaxCalls = 3
    Started = {"a1", "b1"}
    Links <- MCLinks
    QueueSize = 1
    None = None
SPECIFICATION Spec
INVARIANT WaitersHeld
PROPERTY CallsReturn
