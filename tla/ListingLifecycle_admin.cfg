\* Two crawls and a sweep while the operator hides one of the listings or saves it
\* as it is, and saves the form of a crawl that is still to be swept.
SPECIFICATION FairSpec
CONSTANTS
  Crawls = {c1, c2}
  Sweepers = {s1}
  Listings = {l1, l2}
  None = None
  Editable = {l1}
  Choices = {"hidden"}
  EditableJobs = {c1}
  StaleAfter = 1
  DelistedAfter = 2
  MaxClock = 1
INVARIANT ChargedOnce
PROPERTIES HiddenIsLocal 
CHECK_DEADLOCK FALSE
