\* Three slots, packets of two records and a channel type the encoder refuses; each
\* slot cleared once at most.  A clock of 12 ticks with intervals of two and three,
\* and 0 for the clock at rest.  T gets its constants in the module.
SPECIFICATION MCSpec
CONSTANTS
  chA = chA
  chB = chB
  v1 = v1
  Failure = Failure
  NoSample = NoSample
  NSlots = 3
  Channels = {chA, chB}
  Readings = {v1}
  ValueLength <- MCRefused
  FailureLength = 1
  PayloadLimit = 4
  Wrap = 12
  Intervals = {0, 2, 3}
  RetryDelay = 0
  MaxEpoch = 1
INVARIANTS ReportIsSnapshot NothingLostOrRepeated PeriodicReportOnTime
PROPERTIES ReportsEndComplete NoPacketFromClearedReading EnquiryIsAnswered
