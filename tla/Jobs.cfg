SPECIFICATION JobsFairSpec
CONSTANTS
    Turn = {j1, j2, j3}
    MaxActive = 1
    MaxQueued = 1
    Slow = {j1}
    Watched = {j1}
    NoStatus = NoStatus
INVARIANT OutcomeIsReported
INVARIANT QueueMatchesWaiters
PROPERTY CompletedIsFinal
PROPERTY JobsEnd
CHECK_DEADLOCK FALSE
