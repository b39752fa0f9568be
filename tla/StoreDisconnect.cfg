SPECIFICATION Spec
CONSTANTS
  Process = {p1}
  Session = {s1}
  Run = {r1}
  Key = {k1}
  Content = {m1}
  CancelKey = {c1}
  Legacy = Legacy
  MaxFaults = 0
  None = None
SYMMETRY Symmetry
CHECK_DEADLOCK FALSE
INVARIANT DisconnectKeepsWork
