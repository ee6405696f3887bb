\* Two schedules and two dispatchers that claim one row each, two instants;
\* a scope may lose its mapping or be malformed, and be mended; one form, one death.
SPECIFICATION FairSpec
CONSTANTS
  Schedules = {1, 2}
  Dispatchers = {d1, d2}
  Interval = 1
  Batch = 1
  Scopes = {"mapped", "unmapped", "malformed"}
  MaxEdits = 1
  MaxDeaths = 1
  MaxClock = 1
INVARIANTS TypeOK JobsAreSpaced PublishedExists NobodyIsHeldUp
PROPERTY CreatedIsPublished
CHECK_DEADLOCK FALSE
