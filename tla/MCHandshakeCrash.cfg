\* One client disappears in the middle of its handshake.
CONSTANTS
  Client = {c1, c2}
  None = None
  MaxTokens = 4
  MaxCrashes = 1
SPECIFICATION Spec
INVARIANTS RejoinPossible
CHECK_DEADLOCK FALSE
