SPECIFICATION Spec
CONSTANTS
  Tasks = {t1}
  JobIds = {j1, j2}
  NoTask = NoTask
  NoJob = NoJob
  NoCount = NoCount
  Selectable <- LastInChain
  MaxGlobal = 2
  MaxPerWorker = 2
  MaxRetries <- OneRetry
  MaxReworkAttempts = 1
  ReportedCounts = {}

CHECK_DEADLOCK FALSE
PROPERTY TerminalIsFinal
