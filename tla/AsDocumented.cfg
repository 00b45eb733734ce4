CONSTANTS
  Invocations <- MCDisagreements
  Configurations <- MCConfigurations
  Times <- MCTimes
  Unexpandable = {"unbalanced"}
SPECIFICATION Spec
INVARIANTS AsDocumented
CHECK_DEADLOCK FALSE
