SPECIFICATION Spec
CONSTANTS
  MaxLog = 4
  MaxAttempts = 2
  MaxMessages = 2
  MaxTools = 2
  MaxFaults = 1
  MaxGuesses = 1
  MaxRetries = 1
INVARIANTS TextOnce OwnCallSettles
CHECK_DEADLOCK FALSE
