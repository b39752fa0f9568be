SPECIFICATION Spec
CONSTANTS
  Process = {p1, p2}
  Session = {s1}
  Run = {r1, r2}
  Key = {k1, k2}
  Content = {m1, m2}
  CancelKey = {c1}
  Legacy = Legacy
  MaxFaults = 2
  None = None
SYMMETRY Symmetry
CONSTRAINT TwoRunsOrFaults
CHECK_DEADLOCK FALSE
INVARIANT TypeOK
INVARIANT HazardCoversExecution
INVARIANT ReceiptsAgree
INVARIANT NoOverlappingExecutions
INVARIANT AtMostOneDispatch
INVARIANT JournalMatchesRuns
INVARIANT SessionShowsLatestRun
PROPERTY ImplementsContract
