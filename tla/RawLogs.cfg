SPECIFICATION LogsSpec
CONSTANTS
  r1 = r1
  r2 = r2
  r3 = r3
  Run = {r1, r2}
  Budget = 1
  MaxOutput = 1
  MaxTime = 3
  MaxDeaths = 1
CHECK_DEADLOCK FALSE
INVARIANT LogsTypeOK
PROPERTIES PointerIsLive OlderSweepsSpareIt
SYMMETRY Interchangeable
