SPECIFICATION VerdictsSpec
CONSTANTS
  Dashed <- MCDashed
  Outside <- MCOutside
  Dynamic = {"$F"}
  OtherHome = {"~bob"}
  Fused <- MCFused
  Redirect <- MCRedirect
  Benign = {"/dev/null", "&1"}
  Substitution = {"<(ls)"}
  Branch <- MCBranch
  Plus = {"+work", "+main"}
  LastName <- MCLastName
  Assignment = {"A=1"}
  Alias = {"alias.p=push"}
  LocalBin = {"vitest"}
  NoWord = "none"
  StateFile = {".agile/x"}
  Manifest = {"package.json"}
  None = "nobody"
  NoCall = NoCall
  Payload <- MCPayload
  Request <- MCRequest
  World <- MCWorld
  Rules <- MCRules
CHECK_DEADLOCK FALSE
INVARIANTS ChainIsNoLooser TiersAgree RulesOnlyRestrict
