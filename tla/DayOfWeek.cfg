CONSTANTS
  Configurations <- AsInCron
  Times <- SomeTimes
SPECIFICATION ConstructorSpec
INVARIANTS CronSyntaxHonoured
CHECK_DEADLOCK FALSE
