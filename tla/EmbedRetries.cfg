SPECIFICATION Spec
CONSTANTS
  Calls = {1, 2, 3}
  Count = 3
  Lengths = {3, 20}
  MaxItems = 2
  MaxTokens = 6
  Concurrent = 2
  NoVector = 0
  Codes = {200, 400, 503}
  Hints = {0, 9}
  MaxAttempts = 2
  BaseBackoff = 2
  MaxBackoff = 2
INVARIANTS SplitSound InFlightBounded NothingLost WaitBounded
PROPERTIES WorkersEnd ImplementsPromise
CHECK_DEADLOCK FALSE
