SPECIFICATION FairAcpSpec
CHECK_DEADLOCK FALSE
CONSTANTS
  Turn = {"brief", "answer"}
  Brief = "brief"
  Provider <- MCProvider
  Update = {"chunk", "long", "tool", "usage"}
  Length <- MCLength
  LineCap = 2
  ReplyCap = 3
  MaxUpdates = 3
INVARIANTS RepliesAreOwn PromptedInMode
PROPERTIES ReplyIsWritten EndsWhole
