SPECIFICATION Spec
CONSTANTS
  Members <- SomeMembers
  Damage <- SomeDamage
  EventCaps = {9, 14, 60}
  MaxMembers = 2
  MaxDamaged = 0
  MaxScanDepth = 2
  MaxNestingDepth = 4
INVARIANTS
  TokenNeverStored
