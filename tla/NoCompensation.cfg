\* Expected violation: the inventory retries run out after the payment.
SPECIFICATION Spec
CONSTANTS
  o1 = o1
  Orders = {o1}
  MaxRetries = 1
  MaxCreations = 1
  MaxCrashes = 0
INVARIANTS
  FailedAfterCompensation
CHECK_DEADLOCK FALSE
