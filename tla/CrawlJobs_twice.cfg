\* No faults, no admin edits: a worker, run_crawl_jobs and one submission.
SPECIFICATION Spec
CONSTANTS
  Jobs = {j1}
  Workers = {w1}
  Inlines = {i1}
  Nobody = Nobody
  MaxReady = 0
  MaxEdits = 0
  MaxFaults = 0
INVARIANT NeverProcessedTwice
CHECK_DEADLOCK FALSE
