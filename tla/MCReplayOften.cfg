CONSTANTS
  change = change
  mutable = mutable
  oldType = oldType
  newType = newType
  None = None
  ChangeIDs = {change}
  EffectIDs = {mutable}
  Values = {1, 2}
  Plans <- OftenPlans
SPECIFICATION Spec
INVARIANT MutableValuesReplay
CHECK_DEADLOCK FALSE
