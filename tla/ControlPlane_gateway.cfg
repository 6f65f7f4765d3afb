CONSTANTS
    Handlers = {h1, h2}
    BranchIds = {b1, b2}
    Names = {n1, n2}
    RequestIds = {r1}
    NoName = NoName
    Clients = {c1, c2}
    Capacity = 2
    MaxSent = 4
    MaxTexts = 1
    SessionIds = {s1}
    ChannelSize = 1
    MaxRead = 3
    MaxTyped = 3
SPECIFICATION Spec
INVARIANTS OneOutcome NoGaps
PROPERTY Delivered
