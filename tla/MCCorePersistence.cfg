SPECIFICATION Spec
CHECK_DEADLOCK FALSE
CONSTANTS
  Tasks = {t1}
  JobIds = {j1}
  Keys = {}
  None = None
  Restored <- Developed
  Recorded <- Stops
  MaxVersion = 3
  MaxQueued = 1
INVARIANTS TypeOK ActiveJobsAreWatched AnswersAreDurable
