SPECIFICATION AdaptersFairSpec
CONSTANTS
    Adapter = {"hermes", "gemini", "opencode"}
    Session = {s1}
    Turn = {t1, t2}
    None = None
INVARIANT AloneHearsItself
INVARIANT ClosedIsForgotten
PROPERTY TurnsEnd
CHECK_DEADLOCK FALSE
