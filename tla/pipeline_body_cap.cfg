SPECIFICATION Spec
CONSTANTS
  Shapes <- MixedShapes
  NoToken = ""
  MaxEventBytes = 30
  MaxBatchBytes = 49
  MaxEvents = 2
  StampBytes = 20
  HandoffDepth = 1
  BatchDepth = 1
  MaxSends = 3
  ApiKey = "key"
  MaxRetries = 0
  Statuses = {200}
  ZeroGrace = FALSE
INVARIANTS
  BodyWithinLimit
