CONSTANTS
  hourly = hourly
  nightly = nightly
  monthly = monthly
  None = None
  Service = {hourly, nightly, monthly}
  Expressions <- MCExpressions
  Minutes <- YearMinutes
  Stops <- YearMinutes
  MaxSetBacks = 2
SPECIFICATION FairSpec
INVARIANTS TypeOK TimerNeverLost NoMinuteTwice
PROPERTIES ScheduleKept CaughtUp
CHECK_DEADLOCK FALSE
