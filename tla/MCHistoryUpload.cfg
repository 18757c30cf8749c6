\* Failed and torn saves, one restart, two kinds of query nested in each other.
SPECIFICATION MCSpec
CONSTANTS
  Queries <- MCQueries
  SaveOutcomes = {"both", "first", "none"}
  Capacity = 2
  PacketRecords = 1
  Tolerance = 0
  NetworkTimes = {1}
  MaxRecords = 3
  MaxTime = 2
  MaxDepth = 2
  MaxRestarts = 1
PROPERTIES QueryExact RetransmissionExact MarkerSurvivesRestart
CHECK_DEADLOCK FALSE
