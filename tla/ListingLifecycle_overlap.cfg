\* Two overlapping crawls and one sweep, nobody edits anything.
SPECIFICATION Spec
CONSTANTS
  Crawls = {c1, c2}
  Sweepers = {s1}
  Listings = {l1, l2}
  None = None
  Editable = {}
  Choices = {}
  EditableJobs = {}
  StaleAfter = 1
  DelistedAfter = 2
  MaxClock = 1
INVARIANT OnlyMissedIsCharged
CHECK_DEADLOCK FALSE
