SPECIFICATION Spec
CONSTANTS
  Session = {s1, s2}
  Call = {c1}
  Hook = {h1, h2}
  Tick = {t1}
  Text = {x1, x2}
  None = None
  Delegates = {TRUE, FALSE}
  ContextCap = 1
  MaxGates = 2
  MaxAttempts = 3
  MaxAsks = 1
  MaxNoted = 1
CHECK_DEADLOCK FALSE
INVARIANTS OneCallPerAnswer NoteIsHeard
PROPERTIES ImplementsPermits DecisionStands
SYMMETRY Interchangeable
