SPECIFICATION TasksSpec
CONSTANTS
    Turn = {t1, t2}
    Session = {s1}
    Closing = {}
    Cancelling = {}
    Forgotten = {}
    Outage = FALSE
    Poll = {q1}
    MaxActive = 2
    MaxQueued = 1
    None = None
PROPERTY EndIsKept
CHECK_DEADLOCK FALSE
