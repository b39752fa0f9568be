SPECIFICATION FairSpec
CONSTANTS
  Process = {p1, p2}
  Session = {s1}
  Run = {r1}
  Key = {k1}
  Content = {m1}
  CancelKey = {c1}
  Legacy = Legacy
  MaxFaults = 1
  None = None
CHECK_DEADLOCK FALSE
PROPERTY AcceptedRunSettles
PROPERTY StartedRunSettles
PROPERTY CloseReturns
