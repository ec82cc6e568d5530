SPECIFICATION Spec
CONSTANTS
  k1 = k1
  k2 = k2
  Call = {c1, c2, c3}
  Commit = {k1, k2}
  Conflicting <- OneConflict
  NoCall = NoCall
  LandGates = {TRUE, FALSE}
  HasCheckout = TRUE
  OutsideCommits = FALSE
CHECK_DEADLOCK FALSE
INVARIANTS LandedStaysOnTarget ApprovedIsMerged ApprovalOpensOne
SYMMETRY Interchangeable
