CONSTANTS
  Ttl = 9
  Timeout = 5
  Floor = 2
  Remaining = 4
  Held = 5
  Provider = "extend"
  MaxBeats = 3
  MaxTime = 7
SPECIFICATION Spec
INVARIANTS TypeOK OutlivesTheBeats TallyIsGranted NoMoreThanALifetime
PROPERTY StaysReleased
CHECK_DEADLOCK FALSE
