SPECIFICATION FairSpec
CONSTANTS
  Shapes <- AllShapes
  NoToken = ""
  MaxEventBytes = 30
  MaxBatchBytes = 49
  MaxEvents = 2
  StampBytes = 20
  HandoffDepth = 1
  BatchDepth = 1
  MaxSends = 3
  ApiKey = "key"
  MaxRetries = 1
  Statuses = {200, 400, 408, 429, 503}
  ZeroGrace = FALSE
INVARIANTS
  TypeOK
  InOrder
  FreshestToken
  BatchWithinCaps
  DeliveryMatchesFate
  WindowGuardsBatch
  ClosedForGood
PROPERTIES
  KeepsLedger
  DrainTerminates
  EventuallyAccounted
