SPECIFICATION PageSpec
CONSTANTS
  a = a
  b = b
  Stream = {a, b}
  NoStream = NoStream
  MaxLoads = 1
  MaxActs = 2
  MaxChanges = 1
CHECK_DEADLOCK FALSE
INVARIANTS WrittenWhereMade ResultIsOwn
PROPERTIES DraftIsKept
SYMMETRY Interchangeable
