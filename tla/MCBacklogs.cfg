\* Events: a ring of 2, 5 events of two kinds, so that it is overwritten twice.
\* History: two records and a range with everything.
SPECIFICATION MCSpec
CONSTANTS
  e1 = e1
  e2 = e2
  NoRecord = NoRecord
  Events <- MCEvents
  RingSize = 2
  Wrap = 16
  MaxEvents = 5
INVARIANTS WebReaderSeesTheRest
PROPERTIES ImplementsEventLog EventsDrain StableLinkDrains
