SPECIFICATION Spec
CONSTANTS
  p1 = p1
  p2 = p2
  Partitions = {p1, p2}
  Workers = {w1, w2}
  CommitBatch = 2
  Poison <- SecondIsPoison
  MaxOffset = 2
  MaxFaults = 2
INVARIANTS
  TypeOK
  NothingSkipped
  InPartitionOrder
  BatchesAreSettled
CHECK_DEADLOCK FALSE
