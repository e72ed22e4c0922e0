SPECIFICATION FairSpec
CONSTANTS
  p1 = p1
  p2 = p2
  Partitions = {p1, p2}
  Workers = {w1}
  CommitBatch = 2
  Poison <- SecondIsPoison
  MaxOffset = 2
  MaxFaults = 2
PROPERTIES
  EveryMessageIsSettled
CHECK_DEADLOCK FALSE
