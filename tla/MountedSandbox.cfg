CONSTANTS
  note = note  blob = blob
  workspace = workspace  cache = cache
  Paths = {note, blob}
  Roots = {workspace, cache}
  RootOf <- RootOfPath
  BadNames = {blob}
  DefaultPolicy <- Whole
  UserPolicies <- CallerPolicies
  MaxEntries = 1
  DirectoryBundle = TRUE
  LoopExt4 = TRUE
  Callers = {"process", "command"}
  MaxEdit = 2
  MaxRev = 3
SPECIFICATION Spec
INVARIANTS TypeOK ImageMatchesTree Attachable
PROPERTIES CommitsTheWork VersionTrue AttachExact
CHECK_DEADLOCK FALSE
