CONSTANTS
  A = A  B = B
  NoOwner = NoOwner
  Owners = {A, B}
  Roles <- Recreator
  Faults = {"expire", "putFail", "runtimeFail"}
  MaxAttempt = 4
SPECIFICATION Spec
INVARIANTS CreatedReadable NoGarbage
