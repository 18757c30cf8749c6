\* Two channels, three changes, three commands, two in one iteration.
SPECIFICATION Spec
CONSTANTS
  c1 = c1
  c2 = c2
  Ids = {c1, c2}
  Capacity = 2
  BatchSize = 2
  Burst = 2
  NoSignature = NoSignature
  MaxCommands = 3
  MaxChanges = 3
INVARIANTS CommandAccounting CommandMeetsItsChannel EntitiesFollowChannels
