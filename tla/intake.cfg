SPECIFICATION Spec
CONSTANTS
  Members <- SomeMembers
  Damage <- SomeDamage
  EventCaps = {9, 14, 60}
  MaxMembers = 4
  MaxDamaged = 2
  MaxScanDepth = 2
  MaxNestingDepth = 4
INVARIANTS
  Transparent
  AcceptedIsClean
  CutIsDropped
