\* Three processes, two of which may get the command while another is at it.
SPECIFICATION FairSpec
CONSTANTS
  h1 = h1
  h2 = h2
  h3 = h3
  Handlers = {h1, h2, h3}
  MaxRollbacks = 2
  MaxOverlaps = 2
INVARIANTS
  TypeOK
  AnswersNeedAnOverlap
  EffectsNeedACause
PROPERTIES
  CommandIsAnswered
  HandledInOneStep
