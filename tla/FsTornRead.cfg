CONSTANTS
  NoProc = NoProc
  Procs = {p1, p2}
  Faults = {}
  Deletes = FALSE
  MaxWrite = 3
  MaxBeats = 1
SPECIFICATION Spec
PROPERTY SwapsWhatWasRead
CHECK_DEADLOCK FALSE
