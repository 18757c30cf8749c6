---------------------------- MODULE MCChannelRule ----------------------------
\* Conditions of every kind on a channel whose values are 0, 1 and 2.
EXTENDS ChannelRule

Number(v) == [kind |-> "number", value |-> v]

MCSamples == {Number(0), Number(2), [kind |-> "nan", value |-> 0]}

Condition(mode, cont, time, lock) ==
  [mode |-> mode, continueMode |-> cont, continueTime |-> time, lockTime |-> lock,
   minimum |-> 0, maximum |-> 1, changeInterval |-> IF mode = "changeInterval" THEN 2 ELSE 0]

MCPlans == {Condition("above", 0, 0, 0), Condition("above", 1, 2, 2), Condition("above", 0, 2, 1),
            Condition("within", 1, 0, 2), Condition("changeRecent", 0, 0, 2), Condition("changeInterval", 0, 0, 1)}

MCImmediate == {Condition("true", 0, 0, 0)}

MCBooleans == {[kind |-> "boolean", value |-> v] : v \in {0, 1}}
=============================================================================
