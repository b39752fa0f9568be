SPECIFICATION Spec
CONSTANTS
    Call = {x1, x2, x3}
    MaxFence = 2
    Lease = 1
    MaxTime = 1
    Id = {y1, y2}
    Offer = {x1, x2, x3}
    None = None
    edge = edge
    w1 = w1
    w2 = w2
    Node = {edge, w1, w2}
    Ingress = edge
    Candidates <- Workers
    RoundRobin = TRUE
    Meshed = {edge, w1, w2}
    HopLimit = 3
    Request = {y1, y2}
    NoNode = NoNode
    MaxKeys = 3
    MaxOut = 2
SYMMETRY Symmetry
INVARIANT ReceiverHasSession
INVARIANT SessionStaysOnItsNode
INVARIANT DoneFollowsAnswer
INVARIANT OneStrayWrite
INVARIANT EndpointRunsOnOpenClaw
INVARIANT NothingWithoutStart
PROPERTY EndIsReopenedOnlyByRepeat
PROPERTY NothingAfterFailure
CHECK_DEADLOCK FALSE
