\* One or two providers, every filter, every set of ranges the ingress can have.
SPECIFICATION Spec
CONSTANTS
  x = x
  y = y
  bad = bad
  CIDRs = {x, y, bad}
  WellFormed = {x, y}
  Labels <- AllLabels
  Categories <- TwoCategories
  Responses <- AllResponses
  References <- UpToTwoReferences
  Current <- OwnRanges
INVARIANTS
  CollectedIsSelected
  DiffIsTheChange
\* A reconciliation ends.
CHECK_DEADLOCK FALSE
