SPECIFICATION Spec
CONSTANTS
  Dashed = {"--force"}
  Outside = {}
  Dynamic = {}
  OtherHome = {}
  Fused <- NoWords
  Redirect <- NoWords
  Benign = {}
  Substitution = {}
  Branch <- NoWords
  Plus = {}
  LastName <- NoWords
  Assignment = {}
  Alias = {}
  LocalBin = {}
  NoWord = "none"
  StateFile = {}
  Manifest = {}
  None = "nobody"
  NoCall = NoCall
  Session = {"w", "r"}
  Worker = {"w"}
  Payload <- MCPayload
  Request <- MCRequest
  World <- MCWorld
  Rules <- MCRules
CHECK_DEADLOCK FALSE
INVARIANTS JudgedAsItself EnforcedThroughout
PROPERTIES RemovedStaysRemoved
