\* Two processes, one overlap, one transient error of a gateway.
SPECIFICATION TransactionSpec
CONSTANTS
  o1 = o1
  p1 = p1
  p2 = p2
  Orders = {o1}
  Processes = {p1, p2}
  MaxRetries = 1
  MaxCreations = 1
  MaxCrashes = 0
  MaxTransients = 1
  MaxOverlaps = 1
SYMMETRY ProcessSymmetry
INVARIANTS
  TransactionTypeOK
  OpenSagasHaveAToken
  ForksNeedAnOverlap
PROPERTIES
  AtomicWithoutOverlap
CHECK_DEADLOCK FALSE
