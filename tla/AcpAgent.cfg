SPECIFICATION Spec
CONSTANTS
    Turn = {t1, t2}
    MaxAsk = 2
    MaxAcp = 2
    Model = {m1, m2}
    Default = m1
    Wanted = {None, m2}
    None = None
INVARIANT ApprovalIsDecided
INVARIANT LonePromptIsHeard
PROPERTY TurnsAnswered
CHECK_DEADLOCK FALSE
