\* One job, every kind of process and fault.
SPECIFICATION Spec
SYMMETRY Symmetry
CONSTANTS
  Jobs = {j1}
  Workers = {w1, w2}
  Inlines = {i1}
  Nobody = Nobody
  MaxReady = 1
  MaxEdits = 1
  MaxFaults = 1
INVARIANTS TypeOK ClaimsBounded OneCrawler RunningIsCrawled LogAccountsForStatus PublishedIsReachable
PROPERTIES TerminalIsFinal
CHECK_DEADLOCK FALSE
