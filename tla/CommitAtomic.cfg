CONSTANTS
  A = A  B = B
  NoOwner = NoOwner
  Owners = {A, B}
  Roles <- Touching
  Faults = {"putFail", "runtimeFail"}
  MaxAttempt = 5
SPECIFICATION Spec
INVARIANT NoGarbage
PROPERTY ImplementsAtomic
