\* One job, two workers and an inline runner that may claim it before
\* queue_job has marked it.
SPECIFICATION FairSpec
CONSTANTS
  Jobs = {j1}
  Workers = {w1, w2}
  Inlines = {i1}
  Nobody = Nobody
  MaxReady = 1
  MaxEdits = 0
  MaxFaults = 0
PROPERTIES PublishedIsSettled
CHECK_DEADLOCK FALSE
