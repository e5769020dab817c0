CONSTANTS
  Tasks = {t1}
  Jobs = {j1, j2, j3}
  Callers = {c1, c2}
  Requests = {q1, q2, q3}
  None = None
  MaxRetries <- OneRetry
  Stage = "plan"
  Kind <- WorkerKind
  Routed = TRUE
  Present = TRUE
  Fallback = TRUE
  MaxAgents = 1
  Unit = 8
  Epsilon = 4
  Burst = 1
  Refill = 3
  MaxWait = 2
  MaxTime = 6
SPECIFICATION Spec
INVARIANTS
  EachWorkerOnce
  SpawnsKeepTheRate
  FirstComeFirstServed
PROPERTIES
  OnlySilentWorkIsBlocked
  EveryCallEnds
  EveryWaitEnds
  EveryWaiterIsAnswered
CHECK_DEADLOCK FALSE
