SPECIFICATION Spec
CONSTANTS
  Payloads <- DefaultPayloads
  KeysFiles <- FewFiles
  ApiKey = ""
  InlineTokens = TRUE
  UseKeysFile = TRUE
  InlineIdle = TRUE
  MaxProjects = 1
  MaxDatagrams = 1
  MaxEdits = 2
  RequireProject = FALSE
  QueueSize = 1
  Projects = {"a", "b", "_default"}
  Default = "_default"
  NoProject = ""
  NoKey = ""
  Unreadable = Unreadable
INVARIANTS
  WithinBudget
  DefaultRoutable
