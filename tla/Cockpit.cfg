SPECIFICATION Spec
CONSTANTS
  Id = {1, 2, 3, 4}
  Kind = {"no_push_protected", "no_push"}
  AcceptedKind = {"no_push_protected"}
  Text = {"seeded"}
  Stream = {a, b}
  NoStream = NoStream
  Unknown = Unknown
  NoRule = NoRule
  NoDraft = NoDraft
  Offer <- MCOffer
  BuiltinEdits = FALSE
  MaxFires = 2
  MaxFaults = 1
  MaxActs = 3
CHECK_DEADLOCK FALSE
SYMMETRY AnyStream
INVARIANTS CountsAreKept BuiltinsStandOnce BulkDoesWhatItSays SeedsOnce
