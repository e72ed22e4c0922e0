\* Three orders of two steps each, two tries, threshold three.
SPECIFICATION Spec
CONSTANTS
  o1 = o1
  o2 = o2
  o3 = o3
  Orders = {o1, o2, o3}
  MaxRetries = 1
  MaxFailures = 3
  MaxSteps = 2
SYMMETRY OrderSymmetry
INVARIANTS
  BreakerInv
  OneOrderNeverTrips
CHECK_DEADLOCK FALSE
