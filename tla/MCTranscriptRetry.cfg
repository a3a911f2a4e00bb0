SPECIFICATION Spec
CONSTANTS
  MaxLog = 6
  MaxAttempts = 2
  MaxMessages = 2
  MaxTools = 2
  MaxFaults = 0
  MaxGuesses = 0
  MaxRetries = 1
INVARIANTS ToolCardsSettle
CHECK_DEADLOCK FALSE
