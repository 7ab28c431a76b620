CONSTANTS
  Lots = {"a"}
  FirstLots = {"a"}
  Officers = {"o1"}
  CPI <- MCSlowCPI
  Thresholds = {40}
  FirstPrice = 12
  LotYear = 4
  MaxSettings = 0
SPECIFICATION IndexationSpec
INVARIANT RisesSinceStart
CHECK_DEADLOCK FALSE
