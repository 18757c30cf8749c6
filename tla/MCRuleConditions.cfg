\* Channels: six conditions set in turn on two values, over two turns of a clock of six ticks.
SPECIFICATION MCSpec
CONSTANTS
  Plans <- MCPlans
  Samples <- MCSamples
  Wrap = 6
  MaxUptime = 11
  NoDate = NoDate
  Zones <- MCZones
  Starts <- MCStarts
  Step = 30
  Conditions <- MCConditions
INVARIANTS TimedRuleOnceADay
PROPERTIES ImplementsAlarmCondition TriggersJustified ConditionsReported ImplementsWallClock
