SPECIFICATION FairSpec
CHECK_DEADLOCK FALSE
CONSTANTS
  Tasks = {t1, t2}
  JobIds = {}
  Keys = {k1}
  None = None
  Restored <- Integrated
  Recorded = {}
  MaxVersion = 1
  MaxQueued = 1
INVARIANT AnswersAreKnown
PROPERTY RequestsAreAnswered
