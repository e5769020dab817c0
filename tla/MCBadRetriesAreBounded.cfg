SPECIFICATION Spec
CONSTANTS
  Tasks = {t1}
  JobIds = {j1}
  NoTask = NoTask
  NoJob = NoJob
  NoCount = NoCount
  Selectable <- LastInChain
  MaxGlobal = 2
  MaxPerWorker = 2
  MaxRetries <- OneRetry
  MaxReworkAttempts = 1
  ReportedCounts <- ZeroCount

CHECK_DEADLOCK FALSE
INVARIANT RetriesAreBounded
