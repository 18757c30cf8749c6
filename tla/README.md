# esp32-multibus-gateway: verification project

TLA+ specifications of the gateway firmware, the TLC configurations that check
them on small instances, and theorems about them checked by TLAPS. The
reference is the code under `src/include/` (the firmware is header-only C++;
`src/src/main.cpp` only calls `Application::begin` and `Application::loop`).
`PROJECT.json` holds the machine-readable part: which definition stands for
which lines, which run checks which property, which mutation of the code each
property catches, and the hazards the properties are for.

    cd tla
    tlc -workers 2 -config MCReportScheduler.cfg MCReportScheduler
    tlapm ReportSchedulerProofs.tla

## 1. The system

One cooperative loop on an ESP32-S3 connects an RS485 bus (Modbus RTU), a
LoRaWAN radio and a Wi-Fi network (MQTT, web pages). There are no threads: each
service is given a turn by `Application::loop`. Concurrency comes from four
other places, and they are what the models are about:

- **re-entrancy**: `lora_.send` transmits, opens the receive windows and calls
  the downlink handler *before it returns*. The handler may reconfigure, stop or
  restart the very activity whose packet is being sent, and may call `lora_.send`
  again;
- **split operations**: a bus transaction, a report, a retransmission or a query
  spans many iterations of the loop, and everything else runs in between;
- **failure**: a send, a flash write, a poll or a broker publish may fail, and
  each caller has its own way of going on;
- **power loss**: settings are stored key by key, so a restart may fall between
  two keys.

| Component | State | Operations | Interacts with | What makes it correct |
|---|---|---|---|---|
| Main loop (`core/Application.h`) | the objects below; pass-through and rule-reply queues | `begin`, `loop`, one `process...` step per activity, `handleLoRaDownlink` | everything | fixed order and priority of steps; a downlink is applied item by item and stops at the first failure |
| Report scheduler (`lorawan/FPort85ReportScheduler.h`) | latest samples, samples frozen for the running report, cursor, packet awaiting confirmation, deadlines | `recordPoll`, `preparePacket`, `markPacketSent/Failed`, `clearSlot`, `abortReport`, `configure` | polls, radio, downlinks | a report is one snapshot; nothing lost, repeated or stale; periodic and spaced across the clock's wrap |
| Event bus (`core/EventBus.h`) | ring of 32 records, 64-bit sequence | `emit`, `next`, `missedSince`, `read` | every component emits; MQTT and web read | in order, and every loss announced |
| History (`lorawan/FPort85History.h`, `history/*`) | ring of 64 records, loss marker, retransmission snapshot and cursor, query records and cursor | store, observe link, retransmit, query, three downlinks | radio, flash, clock | the exact selection is sent once, in order; a marker survives a restart |
| History store (`history/PersistentHistoryStore.h`) | two flash slots with generation and CRC | `load`, `save`, `clear` | history | a torn write never loses the previous image |
| Modbus master and component (`modbus/ModbusRtuMaster.h`, `components/Components.h`) | transaction, poll position and retries, pending write, raw request, passive frame, completion | start/poll, queue, upsert/remove channel, reconfigure | bus, loop, downlinks, MQTT | one owner of the bus; an answer is credited to the request and the channel it belongs to |
| LoRaWAN session (`lorawan/LoRaWanRadio.h`, `LoRaWanStateStore.h`) | joined, session and nonce stores, Class C, time sync | `begin`, `loop`, `send`, `requestRejoin` | network server, flash | a nonce is never used twice; a session survives a restart |
| Command bus and MQTT (`core/CommandBus.h`, `services/MqttService.h`) | FIFO of 16 commands, bindings, connection | `enqueue`, `dequeue`, `connect`, `publish`, `handleMessage` | channels, event bus, Modbus | FIFO, one outcome event per command, binding resolved when executed |
| Rules (`rules/*`, `Application`) | 16 rules with runtime, scheduled actions, reply queue | evaluate, schedule, execute, configure, enable | clock, samples, downlinks, Modbus | each trigger acts once, with the value that caused it; a refused change leaves the rule as it was |
| Settings stores (`core/ConfigStore.h`, `time/*Store.h`, `modbus/*Store.h`, ...) | keys in flash, copy in RAM | `load`, `save` | downlinks, web, backup | the device starts with what was saved last |
| Backup (`core/BackupService.h`) | - | export, import | web, stores | a refused import changes nothing |
| Web sessions and login throttle (`core/LoginThrottle.h`, `core/WebSessionPolicy.h`, `services/WebService.h`) | failures, lockout, session token and last activity | login, logout, password change | clock | lockout and expiry also hold across the wrap of `millis()` |
| Board and network services | button press, Wi-Fi state | factory reset, access point, reconnect | stores | - |
| Local time, codecs (`time/LocalTime.h`, `lorawan/FPort85*.h`, `modbus/ModbusRtuCodec.h`) | none | pure functions | - | agree with a reference definition |

## 2. Structure

| Part | Abstract specification | Detailed specification | Run | Proofs |
|---|---|---|---|---|
| periodic report | - | `ReportScheduler` | `report` | `ReportSchedulerProofs` |
| events | `EventLog` | `EventBus` | `backlogs` | `BacklogProofs` |
| history: retransmission, queries | - | `HistoryUpload` | `history_upload`, `backlogs`, `history_torn_marker` | `BacklogProofs` |
| Modbus component | - | `ModbusPoller` | `modbus_bus` | `ModbusProofs` |
| Modbus line | - | `ModbusRtu` | `modbus_bus` | `ModbusProofs` |
| LoRaWAN session | - | `LoRaWanSession` | `lorawan_session` | `LoRaWanSessionProofs` |
| channel conditions of rules | `AlarmCondition` | `ChannelRule` | `rule_conditions`, `channel_rule_uptime` | `RuleConditionProofs` |
| time conditions, local time | `WallClock` | `TimedRule` | `rule_conditions` | `RuleConditionProofs` |
| rules: actions, table, replies | - | `RuleEngine` | `rule_engine` | `RuleEngineProofs` |
| commands, MQTT, discovery | - | `MqttGateway` | `mqtt_gateway` | `MqttGatewayProofs` |
| stored history | `DurableRing` | `HistoryStore` | `administration` | `AdministrationProofs` |
| stored configuration, restore | - | `Configuration` | `administration`, `restore` | `AdministrationProofs` |
| sessions, login throttle | - | `WebAccess` | `administration` | `AdministrationProofs` |

An MC module gives a specification its small instance. Four of them
(`MCReportScheduler`, `MCBacklogs`, `MCModbusPoller`, `MCRuleConditions`) and
`MCAdministration` put two or three instances into one run. The instances have
no state in common, or only results that one takes for granted from the other,
so their interleavings show nothing: a variable `focus`, chosen at the start,
says which of them a behaviour moves, the others keep their initial state, and
the state space is the sum of the parts. Fairness is stated for each part in its
own behaviours. A property of one part holds in the behaviours of the others
because nothing moves there.

Modules that do interact are composed: `RuleEngine` takes the outcomes of a
channel condition from `AlarmCondition`, which `ChannelRule` implements;
`ModbusPoller` takes the results of transactions that `ModbusRtu` justifies; the
loop's steps and the downlinks of `Application` are in the module whose state
they change.

## 3. Modules

### 3.1 ReportScheduler

*Code*: `lorawan/FPort85ReportScheduler.h`, the report step of the loop
(`processModbusCompatibilityReport`) and the downlinks that reconfigure it.
*State*: the members of the class under their own names, plus `phase`, where
the loop stands: outside the report step, inside `lora_.send`, or inside a
downlink handler called by it. Every downlink action is enabled in all three.
`completion` is the poll that `modbus_.loop` finished and the same iteration has not
captured yet: another uplink may be sent between (Application.h:227-233), with downlinks
in its receive windows.
*Actions*: `FinishPoll`, `CapturePoll`, `ResendPacket`, `BuildPacket` and `EndReport` (the
three outcomes of `preparePacket`), `SendSucceeds`, `SendFails`, five downlinks
and `Tick`. A packet is the function from slots to samples it carries; its byte
layout is abstracted to record lengths, so that fragmentation stays.

| Run | Bounds | Shows |
|---|---|---|
| `report`, structure | 3 slots, packets of two records, a channel type the encoder refuses (in the middle slot), each slot cleared at most once, the clock at rest and an interval of 0 (every deadline is due at any time, so all interleavings are covered) | `ReportIsSnapshot`, `NothingLostOrRepeated`, `ReportsEndComplete`, `NoPacketFromClearedReading` |
| `report`, periods | the same instance with one slot in use and one poll of it, a clock of 12 ticks that wraps, intervals of 2 and 3 ticks | `PeriodicReportOnTime` |
| `report`, answers | one slot, a clock of 8 ticks, a failed packet sent again after 2 | `EnquiryIsAnswered` (`EnquiryAnswered` of the instance with that clock) |

Three slots are enough for a cut before, at and after a slot; one clear per
slot separates "before" from "after".

`NoPacketFromClearedReading` has one exception, because the code has it: a poll that
waits for its capture when a channel is upserted (or two-way pass-through is set) in the
send of another uplink is recorded after `clearSlot`, and the next report sends this
reading of the old configuration (`upsertChannel` leaves `pollCompletionPending_`;
`removeChannel` drops it). Each sample carries two stamps for this, `epoch` (clears of the
slot when the poll finished) and `overtaken` (the last clear that came while it waited).
`EnquiryIsAnswered` is more than "the flag is reset": `asked` is reset by a started report
only, so a report must start after the enquiry, and end. A lost flag is not made up for by
the interval, because downlinks can set the interval, and with it the deadline, again and
again; the mutant (the last packet of a report takes the request with it) fails in this way.

*Fairness*: the clock advances; the report step is tried again and again (the
loop iterates many times in the half period in which a deadline is due; strong
fairness, because the clock disables it again), and so is the capture of a poll, which
comes before it in the same iteration; a call of `lora_.send` returns;
the link does not fail for ever.

*Proved* (`ReportSchedulerProofs`, for any number of slots, packet limit and clock
modulus): `TypeCorrect`, `Snapshot`, `Accounting`, `NoStaleReading`,
`RequestStands`, `EndsComplete`, `OnTime`.
The properties are not inductive: the invariant adds that the cursor separates what
was delivered from what is ahead, that the pending packet lies exactly between
`cursor` and `pendingNextCursor`, that a frozen slot not cleared still holds its
sample in `reportSamples`, and that a sample in either table, or a waiting poll, carries the current
epoch of its slot or was overtaken by the last clear. The proof has one step per action. `EndsComplete` is
`ReportsEndComplete`: when nothing more fits in a packet, no record that the encoder
accepts is left, because one record always fits (the fold that adds up lengths is
unfolded for at most one record). `OnTime` is `PeriodicReportOnTime`. Its invariant
(`ClockShape`) says that the deadline, the clock and the age of the last report agree
modulo the width of the clock; it needs `IntervalAssumption`, that twice an interval
fits into the clock: the longest interval is 18 hours (FPort85ReportSettings.h:10), the
clock wraps after 49 days.
*Only checked*: that an enquiry is answered (`EnquiryIsAnswered`); that its request stands
until then (`EnquiryKept`) is `RequestStands`.

### 3.2 EventLog and EventBus

*Code*: `core/EventBus.h`, `MqttService::publishPendingEvents`,
`WebService::handleEvents`. `EventLog` is what the bus promises: an append-only
log of which the last `Capacity` (in `EventBus`: `RingSize`) events are retained, read in order by a
consumer that is told how many it skipped. `EventBus` has the ring, its
counters, the broker connection and the consumer's cursor; one iteration of
`publishPendingEvents` is one action. The web reader is stateless (its cursor
comes with the request), so it is an operator, checked for every cursor.

| Run | Bounds | Shows |
|---|---|---|
| `backlogs`, events | ring of 2, 5 events of two kinds: overwritten twice | `ImplementsEventLog`, `WebReaderSeesTheRest`, `EventsDrain` |

*Fairness*: the loop publishes in each iteration and reconnects every five
seconds; strong fairness of `PublishEvent` says that not every publish fails.

*Proved* (`BacklogProofs`, every size of the ring): `EventsTypeCorrect`, `Accounting`,
`Refinement`, that the ring implements the log, and `WebReading`, that a web reader
with any cursor gets the retained events after it and the size of the gap before
them. `Accounting` is `NothingSilentlyLost`: the cursor is what was published plus
the losses announced; it is proved and not in a run of its own. The inductive invariant says
where each retained event lies: the cells hold exactly the last `count` events
of the log, each at its sequence number modulo the capacity, and the cursor
never passes the latest event. The lemma `DifferentCells` gives that writing
one cell leaves the other retained events alone.

### 3.3 HistoryUpload

*Code*: the history steps of `core/Application.h` (`processHistoryStorage`,
`processHistoryNetworkState`, `processHistoryRetransmission`,
`processHistoryQuery`), the downlinks (`applyHistoryQueryCommand`,
`applyHistoryStorage`, `applyHistoryRetransmission`), the ring and the
two-key store of the marker. `stack` holds the calls of `lora_.send` in
progress, innermost first, each with what its caller does when it returns; a
downlink may arrive in the receive windows of the innermost one. A save of the
marker may succeed, fail, or stop after the first key. A record is its number
and time stamp; the pacing between packets is left out, so a packet may come at
any moment. The clock is not monotone: the network time may set it back (`SetClock`), power
loss resets it and a reboot keeps it (`Restart`), so the ring need not be in the order of
its time stamps.

| Run | Bounds | Shows |
|---|---|---|
| `history_upload` | ring of 2 of 3 records, sends nested two deep, a range, a refused range and a point query, failed and torn saves, a clock of 2 that can be set back to 1, one restart with the time kept or lost (queries before it: it forgets them) | `QueryExact`, `RetransmissionExact`, `MarkerSurvivesRestart`. Deadlock is not checked: a device whose marker is torn stops at boot |
| `backlogs`, history | two records, one query | `StableLinkDrains`: a retransmission finishes and a query ends |
| `history_torn_marker` | one restart | violation: a restart between the two keys stops the device at every start (finding) |

Three behaviours of the model are not what uc100-compatibility.md:75-76 suggests, and the
properties leave them out. A query handled inside the send of another query's
packet loses its first records: `processHistoryQuery` adds the old packet's records
to the new query's cursor (Application.h:1056). A second outage before the first was
retransmitted replaces the marker, so the records of the first are skipped
(Application.h:809). And a record stored after the loss with a clock that was set back
behind the marker is passed over, unless a record with a later stamp lies before it: what a
pass owes (`Since`) is each record not older than the marker and each one stored after such
a record, which is what the scan at Application.h:842-847 comes to.

*Proved* (`BacklogProofs`, every ring, packet size, nesting depth, set of queries and
outcome of the saves): `HistoryTypeCorrect`, `PassesForwarded` (`RetransmissionExact`),
`QueriesUploaded` (`QueryExact`) and `MarkerSurvives` (`MarkerSurvivesRestart`). The
properties speak of one step, the end of a pass or of a query, and hold because of
what was true at each packet before it. `HistoryInv` has the part that is true between:

- `CallInv`: in the stack only the outermost call carries records, the others are
  replies, and all but the innermost one have gone out. So a downlink in a receive
  window can only add or remove replies, and the carrier stays what it is (`SameCarrier`);
- `PassInv`: a snapshot that is in use was sent from some first record on, and what was
  forwarded is the part up to the cursor, or, while the packet is out, up to the cursor
  it will have (`Reached`);
- `QueryInv`: the same for the query, unless it arrived inside another query's packet, or
  is over, or was emptied by a stop or by a reply that could not be sent;
- `SinceIsEnd` (a lemma): what is owed (`Since`) are the records from the first position on
  that is not older than the marker, which is where the code starts its cursor, in whatever
  order the time stamps are;
- `MarkInv`: a pending marker is in flash as it is in RAM until the first attempt to clear it.

The selections of the ring are written with `Chosen`, the records at a set of positions in their
order; `ChosenEnd` and `SentMore` say what the packets add up to.

*Fairness*: the loop tries retransmission and query in turn, each send returns,
and neither flash nor radio fails for ever; strong fairness where another step
of the loop can disable the step in between. `StableLinkUploads` also assumes
that downlinks stop, because each new query starts the upload anew.

### 3.4 ModbusPoller and ModbusRtu

*Code of ModbusPoller*: `ModbusComponent` (`components/Components.h`), the transaction of the
RTU master (`modbus/ModbusRtuMaster.h`), and the loop steps that take results:
`processModbusPassThroughResponse`, `processTwoWayPassThroughUplink`,
`captureModbusCompatibilitySample`, and the downlinks that reconfigure the
component. `ModbusComponent::loop` takes one branch in each iteration, and each
branch is an action: the end of a read, write or raw request, a start of one, or
a passive frame. `phase` says where the iteration stands: `loop` (before
`modbus_.loop`), `polled` (after it), `sending` (inside `lora_.send`, where a
downlink may call every operation again). A channel is its slot and the version
of its configuration, so that a value read for a channel that was reconfigured
since is told apart from one of the present channel.

| Run | Bounds | Shows |
|---|---|---|
| `modbus_bus`, component | two slots configured up to twice, one retry, one write, every mode, slaves that may never answer | `RequestAccounting`, `ValueOfItsChannel`, `FailureAfterRetries`, `EveryChannelPolled`, `RawServed` |
| `modbus_bus`, line | two requests out of eight (reads of one and two units from two slaves, a raw one, writes of both kinds and two values), each answered at any time, wholly, as an exception, or not at all | `TransactionsJustified` |

Two slots are enough for the poll index to point before, at and after the
channel a downlink changes; two versions for a stale value.

A downlink in the window of the basic information may switch to two-way
pass-through after a poll has finished and before it is captured; the completion is
left in place (Components.h:172) and recorded after every slot was cleared. The
model has this behaviour; uc100-compatibility.md:60 says the channels are
unavailable then.

*Code of ModbusRtu*: `pollRead`, `pollWrite`, `pollRaw`, the starts and
`cancelTransaction` of `modbus/ModbusRtuMaster.h`, and what the decoders of
`modbus/ModbusRtuCodec.h` look at. A slave answers each request once, whenever it
likes: also after its timeout or cancellation, and while the next request is under
way. The master reads unit by unit, learns the length from what it has read, and
decides at that length or at the timeout. A unit in a wrong place may have any value,
and the checksum is right only for the units of one whole answer. RTU frames carry no
transaction number, so an answer to a request given up, of the same slave,
function and length and begun after the next request, is taken for its own:
`TransactionsJustified` says that this is the only mistake. `ModbusPoller` leaves it
out: there an answer belongs to its request. Two requests are enough for a
foreign answer before, across and after a start.

A raw request that was accepted is `owed` a completion until it has one or a
reconfiguration drops it (`request`, a history variable). `RequestAccounting` says that it is
queued or on the bus for just so long, `RawServed` that once nobody reconfigures the
bus it has its completion: of the transaction, or of the failure to start it.

*Fairness*: each transaction ends (answer or timeout); a send returns; strong
fairness of the starts says that other masters do not fill the bus for ever and
that downlinks do not cancel every transaction.

*Proved* (`ModbusProofs`), of `ModbusPoller` for any slots, retries, configurations and
writes: `TypeOK`, `RequestAccounting`, `ValueOfItsChannel` and `FailureAfterRetries`.
None is inductive: whether the value of an answer is that of its channel depends
on the poll index while a read is on the bus. The invariant adds `Polling`: the
index is in the list (or 1), the channel there is the one an active read was sent
for, a queued or active write is for a channel in use, and the failures counted for the
slot at the index are at least the retry count. A cancelling
operation makes the second and third hold emptily; that it also clears the
retries, or leaves the list as it is, keeps the fourth.

Of `ModbusRtu`, for any set of requests and any number of them: `Transactions`, that
`TransactionsJustified` is an invariant. It speaks of a finished transaction only; what
makes it true is what was heard before it finished, the received units and those still in
the receive buffer (`Heard`). `LineInv` adds three facts about them. `Stream`: each unit
heard is of an answer that has begun, its first unit only if the answer began after the
active request was sent (the drain of the buffer), and the answer to the active request
lies in one piece behind what came before it. `Reading`: as long as only that answer was
heard, the expected length is unknown, the one the second unit tells, or that of the frame, and
not yet reached. `Finished`: the requests and answers a result names are not changed later. From
`Stream`, an answer that is whole in the received units began late enough (`OkFits`); from
`Stream` and `Reading`, own units that reach the expected length are the whole
frame (`NextLength`, `OwnWhole`), so a failure without a timeout has heard another answer.

*Only checked*: `EveryChannelPolled` and `RawServed` (liveness).

### 3.5 LoRaWanSession

*Code*: `lorawan/LoRaWanRadio.h`, `lorawan/LoRaWanStateStore.h`, and the steps of
the loop that observe the connection and send the basic information. `step`
says where the start or the loop stands; each flash write is a step of its own,
so power may be lost between the use of a DevNonce or a frame counter and its
save. `Restart` is enabled everywhere and may bring other keys or another class
(both are provisioned over the web page, which reboots). Any write may fail. The
first join with other keys makes `ensureIdentity` remove the stored nonces, remove
the stored session and store the new identity: three writes, so three steps
(`RemoveNonces`, `RemoveSession`, `StoreIdentity`), with a restart possible between
them, and a failed removal goes unnoticed, as in the code. The node is
RadioLib's: `TryJoin` uses the next DevNonce, `Transmit` a frame counter (a failed
one may or may not use it), nonces of other keys are refused (`Refused`: `begin`
returns false), and a stored session is accepted only with the nonces it was made
with. Joins are numbered, and nonces and sessions carry the number of their join,
so that DevNonces that start again from nothing are not taken for the earlier ones.

| Run | Bounds | Shows |
|---|---|---|
| `lorawan_session` | two sets of keys, three joins, two uplinks per session, two restarts | `StoredSessionUsable`, `NonceNotReused`, `FrameNotReused`, `SessionSurvivesRestart` |

A requested rejoin that succeeds in the same call of `loop` is never observed as a
new connection, so no basic information follows it, although uc100-compatibility.md:20
says "Sent after LoRaWAN join"; the model has this behaviour.

Two restarts allow a change of keys and back; three joins a join before, between
and after. Deadlock is not checked: a device whose start failed stops until it
is restarted by hand.

What a change of keys costs is in the properties. `NonceNotReused` follows the
saved DevNonces of every set of keys through restarts: a start with other keys and
back, with no join tried in between, keeps them. The first join with other keys removes
them (`GivenUp`), and the first keys, when they come back, start again with DevNonces
they have already used; the code keeps nonces for one identity only, and nothing
stronger holds. `StoredSessionUsable` has the exception `leftOver`: power lost
between the two removals, or a failed one, leaves a session whose nonces are gone or
whose keys were replaced. `leftOver` names the joins of those sessions, and only
`ensureIdentity` adds to it. Such a session is never resumed (`Restorable`).

*Proved* (`LoRaWanSessionProofs`, for any set of keys and any number of joins,
uplinks and restarts): `TypeCorrect`, `SessionUsable`, `NoNonceReused`,
`NoFrameReused`, `SessionResumed`. The parts of the inductive invariant beyond the
types and `Phase` are these. `Numbered`: every stored or running session and every saved counter
carries the number of a join that took place. `Cleaned`: a join starts only when the
stored session of these keys is gone. `Unsaved`: between a join and the save of its
nonces the stored ones are older. `Bound`: the session in use belongs to the last join, whose
nonces are the stored ones as soon as the join is saved. `SavedNonces` and
`SavedFrames`: the stored nonce bounds every saved one of its keys, and the node's
and the stored frame counter bound the saved ones of their session. Without `Cleaned`
the save of new nonces could leave an old session beside them. For `SessionResumed`,
that a restart with the same keys resumes the session, `Kept` says that a session that
is in use and settled (no activation, no uplink and no failed write between it and its
save) is the stored one, frame counter included.

### 3.6 AlarmCondition, ChannelRule, WallClock, TimedRule and RuleEngine

*Code*: the rules (`rules/*.h` and the rule steps of `core/Application.h`).
`AlarmCondition` is what the channel condition of a rule promises to the rest: it is
raised only by a trigger and falls only with a release. `ChannelRule` is the
condition of one rule, `evaluateChannelCondition` with its runtime record, and
implements it. `TimedRule` is a rule with a time condition and local time, computed on
the Unix time as `time/LocalTime.h` does it: days from the civil calendar and back, the
day of a transition in a month, daylight time from the two transitions of the year.
`WallClock` is local time as people know it: a clock that runs on, a calendar
whose leaf is turned at midnight, and a hand put forward and back at the minute of
the transition; `TimedRule` implements it. `RuleEngine` is everything after that: all five triggers (server
message, frame on the bus, channel sample, restart, local time), the slots of
scheduled actions (triggers first, then releases), one pass over them per
iteration, the rule table and its copy in flash, the three rule commands with
their rollback, and the reply queue. Channel samples give any outcome that
`AlarmCondition` allows, so the two modules meet at the abstract one.

`stage` says where the loop is: between iterations, in a pass over the slots, or
inside `lora_.send` for an action or a reply, where commands and server messages
arrive too. A frame is its kind and argument; `left` counts real time to an
action's due time, `owed` the reply frames asked for and not sent, `diverged` the
rules whose rollback could not be saved: these three are only for the properties.

| Run | Bounds | Shows |
|---|---|---|
| `rule_conditions`, channel | six conditions of all kinds set in turn, two values and NaN, two turns of a clock of six ticks | `ImplementsAlarmCondition`, `TriggersJustified`, `ConditionsReported` |
| `rule_conditions`, time | 13 months from 1 January of 2024 and ten weeks of 2000 and 2100 (leap year, century with and without a leap day) in steps of half an hour; Central Europe, New York, Lord Howe Island (half an hour, southern), Asuncion (back across midnight), India (no daylight time); a condition on weekdays and one on days of the month, at minutes that some zone shows twice or not at all | `TimedRuleOnceADay`, `ImplementsWallClock` |
| `channel_rule_uptime` | one immediate condition, a clock of 16 ticks | violation: past half the range of `millis()` a condition that never triggered counts as locked (finding) |
| `rule_engine` | two rules of one action, clock of four ticks, three inputs (commands, triggers, changes of the local minute, restarts) in any order and at any place | `PendingOnlyIfEnabled`, `RestartKeepsRules`, `RepliesInFull`, `ActionsRunInTime`, `ActionsEnd` |

Two rules are the least for a status command to fail in the middle of its mask;
three inputs for a trigger, a command in the window of its action, and a restart.
Delays and continue, lock and interval times are below half the clock's range, as
the decoders guarantee (24 hours against 24.8 days; `MaxDelay` is the longest delay of
an action, one tick of four here). `Tick` keeps the loop from being later than that with
a due action, and a pass over the slots from lasting longer than the 23.8 days
between the longest delay and half the clock: it compares with the time at which it
began (Application.h:1165), and a longer one would execute an action early.

What the properties leave out, because the code behaves so, is said in each:
a release or trigger for the condition a slot held before it was rewritten
(`channelRuleRuntime_` is not reset); the trigger lost when its slot is emptied
after the uplink of the previous action; actions cancelled by a status command
that is then rolled back; the first frame of an enquiry that arrives while another
reply is on the air, although uc100-compatibility.md says the frames are retained
"so rule enquiries can reproduce compatible wire data".

Four limits of `TimedRule` are those of the code, and the model leaves them out: a rule
runs again when the server sets the clock back or the gateway restarts within the
minute (`lastRuleMinuteKey_` is not stored), it does not run when an iteration of
the loop takes longer than its minute, and local time is
wrong in a zone that is not `Regular` (see below).

*Fairness*: the loop comes round to `processRuleExecution` again and again (strong,
because replies and commands take the loop in between), each send returns, and time
goes on. Nothing is assumed about the success of a send.

*Proved* (`RuleConditionProofs`), for every set of conditions and samples and every
width of the clock: `TypeCorrect`, `Refinement` (of `AlarmCondition`), `Triggers`
(no false trigger) and `Reported` (no missed one). The invariant adds to the types
that a condition that has fired is active (`FiredIsActive`): without it a level
condition could start anew with the flag set, and the flag would fall without a
release. `Recorded` relates the runtime record to what the samples amount to in real
time: `lockedUntil` is the real end of the lock reduced to the clock, `active` and
`activeSince` say since which sample the condition has held unlocked, a condition
that is reported has fired, and the remembered value is that of the last sample that
counted. What the code measures between two reduced times is the real distance
reduced (`ElapsedReal`), so it is never more than the real one and equal to it within a
turn (`SinceAgrees`); and the signed comparison with the lock is right as long as
it is not deaf (`LockAgrees`), because a lock is never longer than `Limit`. There is one
lemma for each path through `evaluateChannelCondition`: `ChangeSample`,
`LockedSample`, `FalseSample`, `TrueSample`.

*Proved* (`RuleEngineProofs`), for any number of rules, actions, inputs and reply
places, every width of the clock and every longest delay below half of it:
`TypeCorrect`, `PendingEnabled`, `RestartKeeps`, `Replies`, `InTime`. The invariant has
five parts. `TableInv`: RAM and flash hold the same records but for `diverged`.
`SlotInv`: a slot that is not empty belongs to an enabled rule and to a frame it can
have, and its due time is the real time left, reduced, or half a turn behind at the
most. `StageInv`: a pass began at most `Half - MaxDelay` ago. `ReplyInv`: the queue
followed by the rest of the enquiry in progress is `owed`. `OtherInv`: the remaining
types. `DueIsOver` is why no action is early: a pass compares due times
with the time it began, and delay and pass together stay within half the clock, so
a due time ahead of the clock is never taken for one behind it.

*Proved* of `TimedRule` (`RuleConditionProofs`), for every zone with a bias of up to two hours and every life up to
`LongestLife` (120 years: the clock counts 136 and the year in the key repeats after
128): `OnceADay`. What is remembered after a trigger is the key of an instant of this
life (`Remembered`); the clock shows no minute twice but within the bias of a
transition, so it is enough that two dates of one life with the same key are one
(`KeyGivesDate`): month and day are in the key, and years that differ by less than 128 are
told apart by seven bits. That they do is the one thing needed of the calendar's
divisions (`NearMean`: a date is within a year of where the mean year puts it).

*Proved* of local time (`RuleConditionProofs`): `CalendarIsRight`, that
`dateTimeFromEpoch` begins with Thursday, 1 January 1970, goes on from any minute as the
calendar of `WallClock` does, and that `daysFromCivil` gives back the day of each of its dates,
for every Unix time; `DatesFit`, that each of them is a date of the calendar and that no unsigned
number or `uint8_t` field of the code leaves its range on the way, which is why the model
can use integers; and `LocalTimeIsAWallClock`, that `TimedRule` implements `WallClock`.
`TimeAssumption` and `ZoneAssumption` bound the constants: settings that
`validUtcOffsetMinutes` and `validDstSettings` accept, starts whose date is true, and
offset, bias, transitions and starts on the grid of `Step`, a divisor of the day
(with `Step = 1` everything is).

`validDstSettings` accepts more zones than the algorithm is made for, and
`LocalTimeIsAWallClock` says in which local time is right: where `Regular(zone)` holds, the
condition under which `dstActiveForStandardLocalSeconds` makes sense. It looks up the
transitions of the year in standard time and tells the hemispheres apart by their
order; so the end of daylight time, by standard time, must lie in its year, and the
order must be the same in every year. In any other zone the code goes wrong in some
year: from the fourth to the last Sunday of March, the order turns in 2027, whose fourth
is its last, and TLC finds daylight time beginning at that new year; with an end at half
past midnight on the first Monday of January it is not ended on 1 January 2029.
`DifferentMonthsAreRegular` proves that the zones in use are regular: those with the
transitions in different months and no end within the bias after the new year or after the
month of the start.

The argument goes from days to the clock.

1. *Calendar.* A day of an era is written in the calendar's own digits (centuries,
   four years, years, days: `Digits`), every day has them (`DigitsOf`), the divisions of
   `dateTimeFromEpoch` find them (`YearOfDigits`), and the next day has the next ones, a
   leap day at the end of exactly the leap years (`NextDigits`, `LeapOfDigits`). So
   dates follow each other as on the wall (`NextDate`, `TomorrowIs`, `YesterdayIs`), and
   moving the clock by less than a day is adding minutes (`MovedIs`).
2. *Transitions.* `transitionDayOfMonth` finds the day that month, week and weekday name,
   the last such weekday for week 5 (`TransitionDayIs`); hence the wall clock shows a
   transition exactly at the minute `localSecondsForTransition` computes (`AtIs`).
3. *Year.* Start and end of each year lie in it, the end also less the bias
   (`YearFacts`, `RegularYear`), and everything on the grid is at least a step apart (`GridGap`). So
   between two steps `dstActiveForStandardLocalSeconds` changes only at a transition, once
   (`Turn`), in northern zones, in southern ones, and across the new year, where the
   transitions are those of another year.
4. *Refinement.* The invariant `LocalTime` says what the code recomputes every time:
   `daylight` is what it finds at the standard time of the minute, and the date is that
   of the minute plus the bias. An iteration within the minute changes nothing
   (`SameMinute`), one in the next is a tick of the wall clock (`NextMinute`).

`ActionsEnd` is liveness and only checked.

### 3.7 MqttGateway

*Code*: `MqttService` without its events (those are in `EventBus`), the
`CommandBus`, the `ChannelRegistry`, and the steps of the loop that use them:
`writeBoundChannelFromMqtt`, `processCoreCommands`, and the downlinks that
configure channels or the pass-through mode. `at` says which part of the
iteration is on: `mqtt_.loop()`, `processCoreCommands()`, or the rest, where
downlinks are handled. The ring of commands has its indices; a command carries,
for the properties, the version of the channel it was checked against.
`retained` is what the broker holds; every discovery message may fail on its
own, and a broker may come back from a lost connection without its retained
messages.

| Run | Bounds | Shows |
|---|---|---|
| `mqtt_gateway` | two channels, three changes (channels, mode, restarts), three commands, a ring of two, two commands in one iteration | `CommandAccounting`, `CommandMeetsItsChannel`, `EntitiesFollowChannels` |

Three commands take the ring past its end; three changes configure a channel,
change it and switch the mode, or remove it and restart.

`CommandMeetsItsChannel` says why resolving the target again does not send a
value elsewhere: the commands of one iteration are all ended before a downlink can
change anything. It rests on `Burst <= BatchSize`: the MQTT library
hands over one message in a call of its `loop`, and four commands are executed
in an iteration. With it the "rejected" event is never emitted for a command
from MQTT, and the ring never fills up. A second command of the same iteration
ends with "execution-failed", because the Modbus component has one place for a
write.

`EntitiesFollowChannels` has two exceptions, because the code behaves so
(hazards): entities whose last discovery message failed or that were forgotten
by a restart (`unsettled`), and a switch of the pass-through mode, which is not
part of the signature.

*External*: the broker and PubSubClient; discovery is taken to be switched on. The signature stands for the hashed data:
collisions of the 32-bit hash are left out.

*Proved* (`MqttGatewayProofs`, every capacity, burst and batch size with
`Burst <= BatchSize`): `TypeCorrect`, `Accounting`,
`TargetIsCurrent` and `EntitiesFollow`. The invariant ties the
indices to the numbers of the commands (the head is the cell of the next to
end, the tail the cell of the next to come), says what each cell holds, and bounds
the waiting commands by the place in the loop: no more than were delivered
before `processCoreCommands`, no more than the rest of the batch in it, none after.
The ring needs that numbers less than a capacity apart fall into different cells,
which is proved from the division theorem.

`EntitiesFollow` has an invariant of its own, `EntityInv`: the broker and what the gateway
believes it published differ only in the unsettled messages; what it believes follows
from the kept signature and the mode at that time; and the core runs on a connection
only after the signature was compared. `TypeCorrect` includes that the registry has
each channel id once, so that the first entry `remove...` finds is the only one.

### 3.8 DurableRing, HistoryStore, Configuration and WebAccess

What an administrator relies on; the three meet in the run `administration` only.

`HistoryStore` (*code*: `history/PersistentHistoryStore.h`,
`history/HistoryImageCodec.h`, `processHistoryStorage`, the load in `begin`) has two
flash keys, each absent, torn, or an image with a generation. A write that is cut off
by a restart, or that fails, leaves the old value, the new one or a torn one, so an
image that was never acknowledged may be found later. Several such saves may follow
each other, and the generation wraps. `DurableRing` is the promise: a restart brings
back the ring saved last or, whole, one whose save was tried since. `Refuse` is its
one exception, and the code's: when the very first save is torn, `load` returns
false and `begin` fails at every start.

`Configuration` (*code*: `core/ConfigStore.h`, its use in `Application::begin`, the web
handlers that save, the restore of a backup, the factory reset) has one action for
each written key. The 25 keys are grouped by what `load` does with them: component
modes, network, application key, and MQTT's enabled, host, TLS and certificate. A
write may also fail without anybody noticing, because `save` reads back the schema
only. `Init` is a gateway of any earlier schema, so its first start is a migration.

`WebAccess` (*code*: `core/WebSessionPolicy.h`, `core/LoginThrottle.h`, the login and
session handlers of `services/WebService.h`) has the one session and the throttle on
a clock that wraps, and counts real time beside it in history variables.

| Run | Bounds | Shows |
|---|---|---|
| `administration`, history | three rings with records, generation modulo 6 | `ImplementsDurableRing` |
| `administration`, settings | two modes, one network, two application keys, a broker and a certificate, one unnoticed failure at a time | `SettingsSurvive` |
| `administration`, access | two browsers, a clock of 12 ticks, idle limit 2, lifetime 4, locks 1, 2, 3 after two failures, real time up to 14 | `SessionInTime`, `LockoutKept` |
| `restore` | as settings | violation: a restart in the middle of a restore leaves a mixture (finding) |

Six generations are three on each side of the comparison; a clock of 12 and real time
up to 14 lets every deadline pass and the clock wrap behind it.

What the properties leave out, because the code behaves so:
`SettingsSurvive` names the configurations in which an interrupted save falls back to
the defaults (`MayBeLost`: MQTT or TLS is being switched on, and the host or the
certificate is written after the flag); `SessionInTime` a session that nobody asks
about for a whole turn of `millis()`; `LockoutKept` the time from half a turn of
`millis()` (24.8 days) after the end of a lockout on: `lockUntilMs_` is cleared by a login only, so
logins are then refused for another half turn, although specification.md:291 says "up
to 15 minutes".

*Proved* (`AdministrationProofs`, for every set of rings and every modulus of the
generation): `TypeCorrect`, `AlwaysUsable` and `Durable`, the refinement of
`DurableRing`. The invariant `Usable` says why two keys are enough: the key of the
generation in force holds the ring in force, and the other one is absent, torn, an
attempt of the next generation, or the generation before. The arithmetic it rests on
is that consecutive generations fall into different keys also at the wrap, because
the modulus is even, and that of two consecutive generations the second is newer.

*Proved* (`AdministrationProofs`): `SessionInTime` and `LockoutKept`, under `DeadlineAssumption`: both
limits together fit into a turn of `millis()`, each lock is shorter than half a turn,
and the history variables count for a turn at least. The code's constants
meet this (12.5 hours and 15 minutes in 49.7 days). `SessionTimes` says that the stored times are as far back on the
clock as real time says, unless a turn has passed, and that the session was not
too old when it was last asked about: this is why its age cannot wrap unnoticed while the
idle time does not. `LockTimes` says the same of the lock, and that `lockTier_` is
the number of lockouts since the login, up to its limit.

*Proved* (`AdministrationProofs`, for all sets of values, under `ConfigAssumption`: the
empty string is neither a mode nor a flag, and "off" is a mode): `SettingsSurvive`.
The invariant `ConfigIInv` says what the flash holds at every moment of a save, in
terms of what `load` would read from it. `Held` says that a setting the save has
passed reads as the new value, and one it has not as the old value. `Stale` is what makes a
migration safe: a setting of a later schema that is in the flash already, because an
earlier save could not write the schema, has its default value there, so writing the
schema brings nothing old up. The application key is the exception, and the property names
it: a key that such a save has left may come back instead of the new one. `Stages` and
`Lost` follow the one write that `save` verifies; when the schema is not there, the
start fails, and nothing else runs before the next one. `RefusalIsExpected` shows, key by key,
that `load` refuses only what `MayBeLost` names; it needs the order of the writes,
with enabled before host, TLS and certificate. TLC has checked the
parts of `ConfigIInv` on the instance of `restore`.

## 4. What is proved and what is only checked

TLC explores small instances completely; TLAPS proves the theorems listed in
`PROJECT.json` for every value of the constants that satisfies the named
`ASSUME`s of the modules. Out of the prover's reach, and therefore
model-checked only: liveness under fairness and everything with `ENABLED`;
what a recursive definition or a fold computes for every input, because the library's
induction theorems take an operator as a parameter, which no available backend can
instantiate (the one induction needed, on the least number of a set in
`RuleEngineProofs` and `BacklogProofs`, goes through the well-foundedness of the order on the naturals);
and modules with `RECURSIVE` operators, which lose the SMT backend. No module here
declares one.

`TypeOK` is proved for `ReportScheduler`, `EventBus`, `LoRaWanSession`,
`ChannelRule`, `RuleEngine`, `MqttGateway`, `HistoryStore`, `HistoryUpload` and `ModbusPoller`; in the other modules it documents the state.

A passing run is only as good as its bound. Each bound is a named constant, the
tables above say why it is enough, and each property has a mutation of the code
(`PROJECT.json`, "mutants"; the mutated operators stand before the originals in
the modules) that the same run refutes.

## 5. What is not modelled

Byte layouts, checksums, JSON and HTML are abstracted: host tests cover them and
they keep no state. Cryptography, Wi-Fi, TCP, the LoRaWAN MAC and the flash
driver are libraries; the models use them as the code does: a call may fail, and a
write may be torn between two keys and, for the images of the history, within
one. A component is `partly` modelled in `PROJECT.json` where something of it is
left out on purpose:

- the smaller stores of single settings (time, RS485, Modbus channels and master,
  report, history settings) and the password record. They save key by key like the ones
  that are modelled and have the same hazard: the time settings, for instance, are
  refused at every start after a restart between `dst_en` and the bias;
- Wi-Fi, the access point and the web pages: I/O of the platform;
- the periodic publication of values to MQTT, which keeps no state;
- the pacing between history packets and between RTU frames;
- the loop as one composition of all components: its chain of priorities is in the
  modules as the conditions under which a step may run, and the product of the
  state spaces is far beyond TLC.

The hazards without a property have a note that says why.
