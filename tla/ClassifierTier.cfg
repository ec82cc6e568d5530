SPECIFICATION TierSpec
CONSTANTS
  h = h
  l = l
  Rule = {1, 2}
  Critical = {2}
  DiffRule = {1, 2}
  Hook = {h}
  Land = {l}
  MaxParts = 2
  MaxEdits = 1
  MaxFaults = 1
CHECK_DEADLOCK FALSE
INVARIANTS PassedIsChecked BlameIsFair
