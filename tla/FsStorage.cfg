CONSTANTS
  NoProc = NoProc
  Procs = {p1, p2}
  Faults = {"crash", "stall", "ioFail"}
  Deletes = TRUE
  MaxWrite = 2
  MaxBeats = 1
SPECIFICATION Spec
INVARIANTS TypeOK PutsSerialised EtagSettled
PROPERTY PutsEnd
CHECK_DEADLOCK FALSE
