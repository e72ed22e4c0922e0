\* One order: a repeated creation, retries, a crash; safety and liveness.
SPECIFICATION FairSpec
CONSTANTS
  o1 = o1
  Orders = {o1}
  MaxRetries = 1
  MaxCreations = 2
  MaxCrashes = 1
INVARIANTS
  TypeOK
  OneInFlight
  OnlyDuplicateCreationsDeadLettered
  NoPoisonMessage
  OneOutcomePerOrder
  RetryCountIsHonest
  RepeatedEffectsNeedACrash
  OutcomeMatchesEffects
PROPERTIES
  TerminalIsFinal
  EveryOrderIsDecided
  EveryCreationIsAccountedFor
  ImplementsLifecycle
CHECK_DEADLOCK FALSE
