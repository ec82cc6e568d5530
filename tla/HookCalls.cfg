SPECIFICATION Spec
CONSTANTS
  c1 = c1
  c2 = c2
  Vendors = {"claude", "pi"}
  Note = {1, 2, 3}
  NoNote = 0
  Call = {c1, c2}
  Guarded = {c1, c2}
  ContextCap = 1
  MaxYes = 2
  MaxDeaths = 2
CHECK_DEADLOCK FALSE
INVARIANTS EachRunHasItsYes LostOnlyWithCaller
PROPERTIES NotesLeaveCopies
SYMMETRY Interchangeable
