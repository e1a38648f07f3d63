SPECIFICATION Spec
CONSTANTS
  Payloads <- RacePayloads
  KeysFiles <- FewFiles
  ApiKey = ""
  InlineTokens = TRUE
  UseKeysFile = TRUE
  InlineIdle = FALSE
  MaxProjects = 0
  MaxDatagrams = 2
  MaxEdits = 2
  RequireProject = FALSE
  QueueSize = 1
  Projects = {"a", "b", "_default"}
  Default = "_default"
  NoProject = ""
  NoKey = ""
  Unreadable = Unreadable
INVARIANTS
  NoDoubleDrain
