SPECIFICATION AccountingSpec
CONSTANTS
  Payloads <- CountedPayloads
  KeysFiles <- NoFiles
  ApiKey = ""
  InlineTokens = TRUE
  UseKeysFile = FALSE
  InlineIdle = TRUE
  MaxProjects = 2
  MaxDatagrams = 2
  MaxEdits = 0
  RequireProject = TRUE
  QueueSize = 1
  Projects = {"a", "b", "_default"}
  Default = "_default"
  NoProject = ""
  NoKey = ""
  Unreadable = Unreadable
  Refusals = {"parse_error"}
  Answers = {"sent"}
INVARIANT
  DocumentedReconciliation
