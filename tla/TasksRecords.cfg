SPECIFICATION TasksSpec
CONSTANTS
    Turn = {t1, t2}
    Session = {s1}
    Closing = {s1}
    Cancelling = {t1, t2}
    Forgotten = {t1, t2}
    Outage = FALSE
    Poll = {q1}
    MaxActive = 2
    MaxQueued = 1
    None = None
SYMMETRY Symmetry
CONSTRAINT OneDisturbance
INVARIANT RecordsAgree
INVARIANT AnswersHaveEvidence
INVARIANT SlotsMatchHolders
CHECK_DEADLOCK FALSE
