\* One pair, one detector, three reviews, no form is opened.
SPECIFICATION Spec
CONSTANTS
  Left = {a1}
  Right = {b1}
  Detectors = {d1}
  None = None
  MaxReviews = 3
  MaxForms = 0
INVARIANT RejectedIsNotLinked
CHECK_DEADLOCK FALSE
