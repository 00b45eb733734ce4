CONSTANTS
  Invocations <- MCInvocations
  Configurations <- MCConfigurations
  Times <- MCTimes
  Unexpandable = {"unbalanced"}
SPECIFICATION Spec
INVARIANTS RefusedUnlessOverlooked FiresWhenMeant RefusedIfInvalid LoadedAsWritten StartedSomehow ModeOfOptions CommandIntact
CHECK_DEADLOCK FALSE
