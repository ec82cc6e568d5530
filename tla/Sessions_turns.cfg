SPECIFICATION Spec
CONSTANTS
  w1 = w1
  w2 = w2
  r1 = r1
  c1 = c1
  Session = {w1, r1}
  Question = {q1}
  Gate = {g1}
  Line = {l1}
  Role <- RoleOf
  NoSession = NoSession
  Brief = Brief
  HasRepo = TRUE
  AutoReview = TRUE
  StartFailures = FALSE
  MaxOutages = 1
CHECK_DEADLOCK FALSE
SYMMETRY Interchangeable
INVARIANTS RecordAgreesWithHandles QuietMeansWaiting TurnEndLosesNothing MarkersMatchQueue
PROPERTIES DetachStartsNothing
