\* Two listings of one source and one of the other, so that one listing can be
\* discarded in favour of two; two detectors, three reviews each, one form.
SPECIFICATION Spec
SYMMETRY Symmetry
CONSTANTS
  Left = {a1, a2}
  Right = {b1}
  Detectors = {d1, d2}
  None = None
  MaxReviews = 3
  MaxForms = 1
INVARIANTS TypeOK LinkIsLastConfirmation OnlyConfirmedLink
PROPERTIES VerdictSurvivesDetection
CHECK_DEADLOCK FALSE
