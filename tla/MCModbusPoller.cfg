\* Two slots configured twice, one retry, one write, every mode; slaves may never answer.
SPECIFICATION MCSpec
CONSTANTS
  s1 = s1
  s2 = s2
  NoChannel = NoChannel
  Slots = {s1, s2}
  MaxRetries = 1
  Modes = {"disabled", "active", "twoWay"}
  MaxVersion = 2
  MaxWrites = 1
  Requests <- MCRequests
  MaxRequests = 2
  MaxCount = 2
INVARIANTS RequestAccounting ValueOfItsChannel TransactionsJustified
PROPERTIES FailureAfterRetries EveryChannelPolled RawServed
