CONSTANTS
  Jobs = {j1, j2}
  Resources = {r1, r2}
  None = None
  Durations = {0, 2}
  MaxTime = 3
  MaxVersion = 2
  Sessions = {s1, s2}
  Workers = {w1, w2, w3}
  Kind <- CommonKind
  MaxErrors = 1
  Said <- TwoRequests
  MaxSaid = 3
  Clients = {"c1", "c2"}
  Attachments = {"i1"}
  Targets = {"ready", "in_progress", "done"}
  MaxRecordOps = 5
  Entities = {"e1", "e2"}
  MaxLinkOps = 3
  MaxDocVersion = 2
  Inputs = {"i1", "i2"}
  MaxTurns = 3
  MaxCalls = 2
  MaxRegistrations = 2
SPECIFICATION MCSpec
INVARIANTS
  NoLostUpdate
  InTimeJobsAreAlone
  PooledSessionsAreFree
  NoRequestIsDropped
  RecordsAreKept
  LinksAreKept
  AcknowledgedIsKnown
  SessionIsOrderly
PROPERTY LocksExclude
CHECK_DEADLOCK FALSE
