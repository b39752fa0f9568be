SPECIFICATION TasksFairSpec
CONSTANTS
    Turn = {t1, t2}
    Session = {s1}
    Closing = {}
    Cancelling = {}
    Forgotten = {}
    Outage = TRUE
    Poll = {q1}
    MaxActive = 2
    MaxQueued = 1
    None = None
PROPERTY OutageEndsWaiting
CHECK_DEADLOCK FALSE
