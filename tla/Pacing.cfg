\* Two workers, two fetches each of at most two attempts, one request every two
\* ticks; a wait of two ticks is obeyed, one of three is too long.  Time runs on
\* after the key may have expired.
SPECIFICATION Spec
SYMMETRY Symmetry
CONSTANTS
  Workers = {w1, w2}
  Burst = 1
  Cost = 2
  MaxAttempts = 2
  Delays = {0, 2, 3}
  MaxDelay = 2
  MaxRedirects = 1
  MinTtl = 3
  Ahead <- InStep
  Early = w1
  MaxFetches = 2
  MaxClock = 6
INVARIANTS TypeOK WithinBudget SentIsGranted
PROPERTIES SharesOneBucket
CHECK_DEADLOCK FALSE
