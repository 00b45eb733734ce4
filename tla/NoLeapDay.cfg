CONSTANTS
  hourly = hourly
  nightly = nightly
  monthly = monthly
  None = None
  Service = {hourly, nightly, monthly}
  Expressions <- MCExpressions
  Minutes <- CommonMinutes
  Stops <- CommonMinutes
  MaxSetBacks = 0
SPECIFICATION Spec
PROPERTIES StartedWhenDue
CHECK_DEADLOCK FALSE
