SPECIFICATION Spec
CONSTANTS
  Shapes <- KeyedShapes
  NoToken = ""
  MaxEventBytes = 30
  MaxBatchBytes = 40
  MaxEvents = 2
  StampBytes = 20
  HandoffDepth = 1
  BatchDepth = 1
  MaxSends = 2
  ApiKey = "key"
  MaxRetries = 0
  Statuses = {200, 400, 503}
  ZeroGrace = FALSE
INVARIANTS
  KeysFileCredential
