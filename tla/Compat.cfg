SPECIFICATION Spec
CONSTANTS
    Turn = {t1, t2}
    Session = {s1, s2}
    Thread = {h1}
    Main = s1
    MainThread = h1
    NoId = NoId
    None = None
    Kinds = {"codexWS", "codexHTTP", "acpWS", "acpHTTP", "dsh", "dsbot"}
INVARIANT ResultIsOwn
INVARIANT RunningHasTurn
INVARIANT ThreadIsOwn
PROPERTY CallsReturn
CHECK_DEADLOCK FALSE
