\* Two workers whose clocks differ by one tick, half the pause between requests.
SPECIFICATION Spec
CONSTANTS
  Workers = {w1, w2}
  Burst = 1
  Cost = 2
  MaxAttempts = 1
  Delays = {0}
  MaxDelay = 2
  MaxRedirects = 0
  MinTtl = 30
  Ahead <- OneEarly
  Early = w1
  MaxFetches = 4
  MaxClock = 6
INVARIANT SkewStaysWithinBudget
CHECK_DEADLOCK FALSE
