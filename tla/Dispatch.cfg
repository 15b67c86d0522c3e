SPECIFICATION DispatchSpec
CONSTANTS
  Ids = {a, b}
  MaxSends = 3
  MaxRefreshes = 2
  MaxTrims = 1
  MaxUnits = 2
  MaxChanges = 1
  None = None
CHECK_DEADLOCK FALSE
INVARIANTS NeverResendsRefused PoolErrorMeansUnsent
PROPERTIES NoneLeftBehind Returns
