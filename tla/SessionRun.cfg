CONSTANTS
  Me = Me
  NoOwner = NoOwner
  Owners = {Me, Other}
  MaxAttempts = 1
  Threshold = 1
  Recovers = TRUE
  Reinvoke = TRUE
  MaxCheckpoints = 1
SPECIFICATION Spec
INVARIANTS TypeOK LockKept NoSandboxLeft OneOperationPerMount
PROPERTIES ReplayInFresh RunEnds LockGivenUp
CHECK_DEADLOCK FALSE
