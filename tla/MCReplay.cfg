CONSTANTS
  change = change
  mutable = mutable
  oldType = oldType
  newType = newType
  None = None
  ChangeIDs = {change}
  EffectIDs = {mutable}
  Values = {1, 2}
  Plans <- MCPlans
SPECIFICATION Spec
CHECK_DEADLOCK FALSE
INVARIANTS
  ReplaySeesTheSame
  CompatibleCodeReplays
  EachCallRecordedOnce
  RunsAtCompletedDecisions
