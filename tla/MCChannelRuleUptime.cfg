\* An immediate condition on a discrete input, past the half of the clock.
SPECIFICATION Spec
CONSTANTS
  Plans <- MCImmediate
  Samples <- MCBooleans
  Wrap = 16
  MaxUptime = 17
PROPERTIES FirstSampleTriggers
