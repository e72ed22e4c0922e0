SPECIFICATION FairSpec
CONSTANTS
  p1 = p1
  p2 = p2
  Partitions = {p1, p2}
  Workers = {w1, w2}
  CommitBatch = 2
  Poison <- NoPoison
  MaxOffset = 1
  MaxFaults = 1
PROPERTIES
  FirstErrorIsReturned
CHECK_DEADLOCK FALSE
