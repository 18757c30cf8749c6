\* Two sets of keys, three joins, two uplinks in each session, two restarts.
SPECIFICATION Spec
CONSTANTS
  k1 = k1
  k2 = k2
  None = None
  Identities = {k1, k2}
  MaxJoins = 3
  MaxFrame = 2
  MaxRestarts = 2
INVARIANTS StoredSessionUsable
PROPERTIES NonceNotReused FrameNotReused SessionSurvivesRestart
CHECK_DEADLOCK FALSE
