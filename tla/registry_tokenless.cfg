SPECIFICATION Spec
CONSTANTS
  Payloads <- MixedPayloads
  KeysFiles <- FewFiles
  ApiKey = ""
  InlineTokens = TRUE
  UseKeysFile = TRUE
  InlineIdle = FALSE
  MaxProjects = 0
  MaxDatagrams = 3
  MaxEdits = 2
  RequireProject = FALSE
  QueueSize = 1
  Projects = {"a", "b", "_default"}
  Default = "_default"
  NoProject = ""
  NoKey = ""
  Unreadable = Unreadable
INVARIANTS
  NoTokenlessInline
