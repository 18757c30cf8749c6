---------------------------- MODULE MCRuleEngine ----------------------------
\* Two rules of one action each.
EXTENDS RuleEngine

CONSTANTS p1

When(kind, arg) == [kind |-> kind, arg |-> arg]
Then(kind, delay, release) == [kind |-> kind, delay |-> delay, release |-> release]

OnSample == When("channel", p1)
OnText   == When("message", p1)
SendAlarm == Then("alarm", 1, TRUE)

MCConditions == {OnSample, OnText, When("rs485", p1), When("restart", p1), When("time", {1})}
MCActions    == {SendAlarm, Then("message", 0, FALSE), Then("reboot", 1, FALSE)}
MCCommands   == {OnText, SendAlarm}
MCPayloads    == {p1}

Stored(enabled, condition, action) ==
  [enabled |-> enabled, frames |-> [i \in {0, 1} |-> IF i = 0 THEN condition ELSE action]]

Table(condition, action) ==
  [r \in {1, 2} |-> Stored(TRUE, IF r = 1 THEN condition ELSE OnSample, IF r = 1 THEN action ELSE SendAlarm)]

MCTables ==
  {Table(OnText, Then("message", 0, FALSE)), Table(When("rs485", p1), Then("message", 0, FALSE)),
   Table(When("restart", p1), Then("reboot", 1, FALSE)), Table(When("time", {1}), Then("reboot", 1, FALSE))}
=============================================================================
