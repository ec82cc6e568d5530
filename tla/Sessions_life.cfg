SPECIFICATION FairSpec
CONSTANTS
  w1 = w1
  w2 = w2
  r1 = r1
  c1 = c1
  Session = {w1, w2, c1}
  Question = {q1}
  Gate = {}
  Line = {}
  Role <- RoleOf
  NoSession = NoSession
  Brief = Brief
  HasRepo = TRUE
  AutoReview = TRUE
  StartFailures = TRUE
  MaxOutages = 0
CHECK_DEADLOCK FALSE
INVARIANT OneLivePerRole
PROPERTIES ImplementsSlots SessionsComeToRest StopsComplete
