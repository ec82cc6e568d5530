SPECIFICATION SettingsSpec
CONSTANTS
  Repo = {r}
  Page = {p}
  Pick = {k}
  StreamRepo <- OfRepo
  Vendor = {"claude", "pi"}
  Model = {"opus"}
  Effort = {"low"}
  Known = {"claude", "pi"}
  BuiltinDefaults <- Defaults
  ProviderModel = "default"
  None = None
  NoRepo = NoRepo
  Home = Home
  Absent = Absent
  MaxEdits = 1
INVARIANTS
  SettingsTypeOK
  SavedIsInFile
  GetsWhatItNamed
PROPERTIES
  UneditedIsDefault
