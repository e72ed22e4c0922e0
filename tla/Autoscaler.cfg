\* One to four replicas in steps of two; up to five may run at the start.
SPECIFICATION FairSpec
CONSTANTS
  MinReplicas = 1
  MaxReplicas = 4
  Step = 2
  IdleTime = 2
  MaxRunning = 5
INVARIANTS
  AutoscalerTypeOK
PROPERTIES
  RemovalsNeedIdleTime
  DemandIsFollowed
