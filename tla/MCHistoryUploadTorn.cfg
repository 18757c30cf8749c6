\* A restart in the middle of saving the marker.
SPECIFICATION Spec
CONSTANTS
  Queries <- MCRange
  SaveOutcomes = {"both", "first"}
  Capacity = 2
  PacketRecords = 1
  Tolerance = 0
  NetworkTimes = {1}
  MaxRecords = 1
  MaxTime = 2
  MaxDepth = 1
  MaxRestarts = 1
INVARIANTS StartsAgain
CHECK_DEADLOCK FALSE
