\* Three overlapping crawls and two sweeps of two listings, left alone by the
\* operator: enough crawls to delist a listing and to bring one back.
SPECIFICATION Spec
SYMMETRY Symmetry
CONSTANTS
  Crawls = {c1, c2, c3}
  Sweepers = {s1, s2}
  Listings = {l1, l2}
  None = None
  Editable = {}
  Choices = {}
  EditableJobs = {}
  StaleAfter = 1
  DelistedAfter = 2
  MaxClock = 1
INVARIANTS TypeOK ChargedWasMissed MissesAreTheStreak StatusFollowsMisses EventsFollowStatus
CHECK_DEADLOCK FALSE
