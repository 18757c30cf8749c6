\* Two rules, four kinds of trigger, three inputs of any kind.
SPECIFICATION FairSpec
CONSTANTS
  p1 = p1
  NoFrame = NoFrame
  RuleCount = 2
  ActionCount = 1
  ConditionFrames <- MCConditions
  ActionFrames <- MCActions
  CommandFrames <- MCCommands
  Masks = {{1}, {1, 2}}
  Payloads <- MCPayloads
  Minutes = {1, 2}
  Wrap = 4
  MaxDelay = 1
  StoredTables <- MCTables
  MaxInputs = 3
INVARIANTS PendingOnlyIfEnabled RestartKeepsRules RepliesInFull
PROPERTIES ActionsRunInTime ActionsEnd
