CONSTANTS
  A = A  B = B
  NoOwner = NoOwner
  Owners = {A, B}
  Roles <- Savers
  Faults = {"expire"}
  MaxAttempt = 4
SPECIFICATION Spec
PROPERTY NoLostUpdate
