SPECIFICATION MCSpec
CONSTANTS
  Tasks = {t1, t2}
  First = t1
  Keys = {k1}
  Calls = {c1}
  NoTask = NoTask
  NoKey = NoKey
  Items = {i1}
  Modes <- OnlyApply
  Policy <- FirstIsStrict
  Outcomes <- AcceptanceResults
  Answers <- Reports
  NeedsApproval = {t1}
  Recorded <- AcceptedByHand
  MaxRevision = 2
CHECK_DEADLOCK FALSE
PROPERTY AcceptanceIsIndependent
