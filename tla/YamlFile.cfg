CONSTANTS
  Files <- MCFiles
  Code <- MCCode
  MaxKeyLength = 16
  MaxDepth = 6
  StepsAtStart = 13
  StepsPerSymbol = 5
SPECIFICATION ConfigSpec
INVARIANTS LoadsWhatIsWritten EncodingIrrelevant BuilderFollowsParser AnchorsRegistered KeysPending BlocksClosed LoadEnds ReadAsWritten RefusedForServices
PROPERTIES DeliveredStands ScannerSpec
