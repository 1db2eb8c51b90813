CONSTANTS
  c1 = c1  c2 = c2  c3 = c3
  ann = ann  root = root
  None = None
  Calls = {c1, c2, c3}
  Contexts = {"ctx"}
  Actors = {ann, root}
  RolesOf <- Roles
  Names = {"e2b", "ssh", "vm"}
  Provisioners = {"e2b"}
  Ids = {"e2b", "ssh", "vm", "e2b:1", "vm:1"}
  IdOf <- AdapterIds
  AllowedRuntimes = {"e2b", "ssh", "vm"}
  Requests <- SomeRequests
SYMMETRY Interchangeable
SPECIFICATION Spec
INVARIANTS TypeOK TrailTrue AnswersTrue NothingStranded StartersMayEnd
CHECK_DEADLOCK FALSE
