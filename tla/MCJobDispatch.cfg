SPECIFICATION FairSpec
CONSTANTS
  Tasks = {t1}
  JobIds = {j1, j2}
  NoTask = NoTask
  NoJob = NoJob
  NoCount = NoCount
  Selectable <- Both
  MaxGlobal = 2
  MaxPerWorker = 1
  MaxRetries <- OneRetry
  MaxReworkAttempts = 1
  ReportedCounts <- ZeroCount
CHECK_DEADLOCK FALSE
INVARIANTS
  TypeOK
  LeaseWithinSlot
  FinalizedHoldsNothing
  InFlightIsIntact
  ActiveJobIsItsOwn
  RetriesWithinPolicy
  CapacityRespected
PROPERTIES
  SettledIsForever
  OnlyStaleDispatchSkipsTable
  EveryJobConcludes
