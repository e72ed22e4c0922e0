\* One order, no retries; two handlers at a time, one event lost.
SPECIFICATION ViewFairSpec
CONSTANTS
  o1 = o1
  Orders = {o1}
  MaxRetries = 0
  MaxCreations = 1
  MaxCrashes = 0
  MaxApplying = 2
  MaxLosses = 1
INVARIANTS
  ViewInv
  ShownOutcomeIsTheOutcome
PROPERTIES
  DecidedIsShown
CHECK_DEADLOCK FALSE
