CONSTANTS
  A = A  B = B
  NoOwner = NoOwner
  Owners = {A, B}
  Roles <- OneCheckpointer
  Faults = {"expire", "crash", "putFail"}
  MaxAttempt = 4
SPECIFICATION Spec
INVARIANTS TypeOK ManifestReadable CheckpointsKept
PROPERTY SequentialCommits
CHECK_DEADLOCK FALSE
