SPECIFICATION FairSpec
CONSTANTS
  Payloads <- PlainPayloads
  KeysFiles <- RotatingFiles
  ApiKey = "api"
  InlineTokens = FALSE
  UseKeysFile = TRUE
  InlineIdle = FALSE
  MaxProjects = 2
  MaxDatagrams = 1
  MaxEdits = 2
  RequireProject = FALSE
  QueueSize = 1
  Projects = {"a", "b", "_default"}
  Default = "_default"
  NoProject = ""
  NoKey = ""
  Unreadable = Unreadable
INVARIANTS
  NoDoubleDrain
  TableUsable
  ShutdownStrandsNothing
  ApiKeyStands
PROPERTIES
  ReloadConverges
  ShutdownCompletes
