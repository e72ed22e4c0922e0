\* Two relays, three rows in batches of two, one fault and one slow relay.
SPECIFICATION FairSpec
CONSTANTS
  r1 = r1
  r2 = r2
  Rows = {1, 2, 3}
  Relays = {r1, r2}
  BatchSize = 2
  MaxFaults = 1
  MaxSlow = 1
INVARIANTS
  TypeOK
  NothingMarkedUnpublished
  DuplicatesHaveACause
  ClaimsAreExclusive
PROPERTIES
  EveryRowIsMarked
  ImplementsDelivery
CHECK_DEADLOCK FALSE
