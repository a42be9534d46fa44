SPECIFICATION FairSpec
CONSTANTS
  MaxAttempts = 4
  Base = 1
  Longest = 5
  Budget = 7
  Hints = {0, 4, 9}
PROPERTIES KeepsPromise CallReturns
CHECK_DEADLOCK FALSE
