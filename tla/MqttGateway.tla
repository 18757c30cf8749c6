---------------------------- MODULE MqttGateway ----------------------------
(***************************************************************************)
(* The MQTT side of the gateway: commands from the broker through the      *)
(* CommandBus to the Modbus write slot, and the Home Assistant entities    *)
(* the gateway keeps at the broker (services/MqttService.h,                *)
(* core/CommandBus.h, core/Application.h).                                 *)
(*                                                                         *)
(* "at" is the place in Application::loop: mqtt_.loop(), then              *)
(* processCoreCommands(), then the rest, in which a downlink may change    *)
(* the channels.  Values, topics and payloads are left out; the signature  *)
(* stands for the data it is a hash of.                                    *)
(***************************************************************************)
EXTENDS Integers, Sequences, SequencesExt

CONSTANTS
  Ids,          \* channel ids
  Capacity,     \* slots of the CommandBus (16)
  BatchSize,    \* commands executed in one iteration (4)
  Burst,        \* messages the client library delivers in one call (1)
  NoSignature,  \* discoverySignature_ = 0
  MaxCommands,  \* bound on the commands accepted since start-up
  MaxChanges    \* bound on the changes of channels and mode

ASSUME GatewayAssumption ==
  /\ Capacity \in Nat \ {0} /\ BatchSize \in Nat /\ Burst \in Nat
  /\ Burst <= BatchSize
  /\ MaxCommands \in Nat /\ MaxChanges \in Nat

Kinds    == {"boolean", "number"}
Channel  == [id : Ids, kind : Kinds, writable : BOOLEAN, version : 1 .. MaxChanges]
Command  == [sequence : 1 .. MaxCommands, id : Ids, kind : Kinds, version : 1 .. MaxChanges]
Entity   == [id : Ids, component : {"switch", "number", "binary_sensor", "sensor"}]
Empty    == [sequence |-> 0]

VARIABLES
  channels,    \* ChannelRegistry::channels_, and the descriptors behind it
  twoWay,      \* the Modbus component is in two-way pass-through
  writeBusy,   \* pendingWrite_.queued || writeInFlight_
  queue, head, tail, count, latest,  \* CommandBus, indices from 0
  at,          \* "mqtt", "core" or "rest"
  steps,       \* messages delivered, or commands executed, in this iteration
  online,      \* client_.connected()
  signature,   \* discoverySignature_
  discovered,  \* discovered_
  retained     \* the discovery messages the broker holds

\* History variables: read by no guard but a bound.
VARIABLES
  ended,      \* commands with an outcome event
  changes,    \* changes of channels and mode
  described,  \* twoWay at the last refresh
  unsettled   \* entities whose last publish or clear did not reach the broker,
              \* and those a restart made the gateway forget

bus       == <<queue, head, tail, count, latest>>
discovery == <<signature, discovered, retained, described, unsettled>>
vars == <<channels, twoWay, writeBusy, bus, at, steps, online, discovery, ended, changes>>

----------------------------------------------------------------------------
(* The CommandBus *)

\* A command goes to the tail of a ring that has room.
Enqueue(c) ==
  /\ count < Capacity
  /\ queue'  = [queue EXCEPT ![tail] = c]
  /\ tail'   = (tail + 1) % Capacity
  /\ count'  = count + 1
  /\ latest' = c.sequence

Dequeue_KeepCount ==
  /\ queue' = [queue EXCEPT ![head] = Empty]
  /\ head'  = (head + 1) % Capacity
  /\ UNCHANGED <<tail, count, latest>>

\* The oldest command leaves the ring.
Dequeue ==
  /\ queue' = [queue EXCEPT ![head] = Empty]
  /\ head'  = (head + 1) % Capacity
  /\ count' = count - 1
  /\ UNCHANGED <<tail, latest>>

\* The commands that wait, oldest first.
Pending == [i \in 1 .. count |-> queue[(head + i - 1) % Capacity]]

----------------------------------------------------------------------------
(* Channels as the two sides see them *)

\* The binding and the descriptor are both writable.
Writable(c) == c.writable /\ ~twoWay

\* The Home Assistant entity of a channel.
EntityOf(c) ==
  [id |-> c.id,
   component |->
     IF Writable(c) THEN IF c.kind = "boolean" THEN "switch" ELSE "number"
     ELSE IF c.kind = "boolean" THEN "binary_sensor" ELSE "sensor"]

Desired == {EntityOf(c) : c \in ToSet(channels)}

Signature_NoFlags == [i \in DOMAIN channels |-> <<channels[i].id, channels[i].kind>>]

\* What discoverySignature hashes: of the binding, its id, type and writable
\* flag, in the order of the registry, and not the descriptor's writable flag.
Signature ==
  [i \in DOMAIN channels |-> <<channels[i].id, channels[i].kind, channels[i].writable>>]

----------------------------------------------------------------------------
Init ==
  /\ channels = <<>> /\ twoWay \in BOOLEAN /\ writeBusy = FALSE
  /\ queue = [i \in 0 .. Capacity - 1 |-> Empty]
  /\ head = 0 /\ tail = 0 /\ count = 0 /\ latest = 0
  /\ at = "mqtt" /\ steps = 0 /\ online = FALSE
  /\ signature = NoSignature /\ discovered = {} /\ retained = {}
  /\ ended = 0 /\ changes = 0 /\ described = twoWay /\ unsettled = {}

\* Discovery messages are cleared for the entities that are no longer desired
\* and published for all that are; any of them may fail, which only counts.
PublishDiscovery ==
  LET old == discovered \ Desired
      sent == old \union Desired
  IN  \E failed \in SUBSET sent :
        /\ retained'   = (retained \ (old \ failed)) \union (Desired \ failed)
        /\ unsettled'  = (unsettled \ sent) \union failed
        /\ discovered' = Desired
        /\ signature'  = Signature
        /\ described'  = twoWay

\* A connection attempt that the broker accepts. The discovery is forced; when
\* the connection breaks before it, it is left out with the signature reset.
Connect ==
  /\ at = "mqtt" /\ ~online
  /\ at' = "core" /\ steps' = 0
  /\ \/ /\ online' = TRUE
        /\ PublishDiscovery
     \/ /\ signature' = NoSignature
        /\ UNCHANGED <<online, discovered, retained, described, unsettled>>
  /\ UNCHANGED <<channels, twoWay, writeBusy, bus, ended, changes>>

\* No connection: the next attempt is not due, or fails.
StayOffline ==
  /\ at = "mqtt" /\ ~online
  /\ at' = "core" /\ steps' = 0
  /\ UNCHANGED <<channels, twoWay, writeBusy, bus, online, discovery, ended, changes>>

\* writeBoundChannelFromMqtt: the payload is converted to the channel's type and queued.
WriteFromMqtt(c) ==
  /\ Writable(c)
  /\ Enqueue([sequence |-> latest + 1, id |-> c.id, kind |-> c.kind, version |-> c.version])

\* A message for a channel; one that is refused only counts as a failure.
HandleMessage ==
  /\ at = "mqtt" /\ online
  /\ steps < Burst /\ latest < MaxCommands
  /\ steps' = steps + 1
  /\ \E c \in ToSet(channels) : WriteFromMqtt(c)
  /\ UNCHANGED <<channels, twoWay, writeBusy, head, at, online, discovery, ended, changes>>

\* The end of mqtt_.loop() on a connection: the discovery follows the channels.
MqttLoopEnds ==
  /\ at = "mqtt" /\ online
  /\ at' = "core" /\ steps' = 0
  /\ IF signature # Signature THEN PublishDiscovery ELSE UNCHANGED discovery
  /\ UNCHANGED <<channels, twoWay, writeBusy, bus, online, ended, changes>>

\* The connection breaks; the broker may come back without its retained messages.
LoseConnection ==
  /\ online
  /\ online' = FALSE
  /\ retained' \in {retained, {}}
  /\ UNCHANGED <<channels, twoWay, writeBusy, bus, at, steps, signature, discovered,
                 described, unsettled, ended, changes>>

\* The target of a command is resolved again, and the write slot holds one write.
Executable(command) ==
  /\ \E c \in ToSet(channels) : c.id = command.id /\ Writable(c) /\ c.kind = command.kind
  /\ ~writeBusy

ProcessCommand_StopAtFailure ==
  /\ at = "core" /\ count > 0 /\ steps < BatchSize
  /\ Dequeue
  /\ ended' = ended + 1
  /\ \/ /\ Executable(queue[head])
        /\ writeBusy' = TRUE /\ at' = "core" /\ steps' = steps + 1
     \/ /\ UNCHANGED writeBusy /\ at' = "rest" /\ steps' = 0
  /\ UNCHANGED <<channels, twoWay, online, discovery, changes>>

\* One command is taken: executed, which fills the write slot, or ended by a
\* "rejected" or "execution-failed" event. A value the register cannot hold
\* fails whatever the channel.
ProcessCommand ==
  /\ at = "core" /\ count > 0 /\ steps < BatchSize
  /\ Dequeue
  /\ ended' = ended + 1
  /\ steps' = steps + 1
  /\ \/ /\ Executable(queue[head])
        /\ writeBusy' = TRUE
     \/ UNCHANGED writeBusy
  /\ UNCHANGED <<channels, twoWay, at, online, discovery, changes>>

\* processCoreCommands returns.
CoreEnds ==
  /\ at = "core" /\ (count = 0 \/ steps = BatchSize)
  /\ at' = "rest" /\ steps' = 0
  /\ UNCHANGED <<channels, twoWay, writeBusy, bus, online, discovery, ended, changes>>

\* bindCompatibilityChannel: the binding a configuration leads to.
Bound(id, kind, writable) ==
  [id |-> id, kind |-> kind, writable |-> writable, version |-> changes + 1]

\* The registry with an entry replaced in place, or appended.
Upserted(c) ==
  IF \E d \in ToSet(channels) : d.id = c.id
  THEN [i \in DOMAIN channels |-> IF channels[i].id = c.id THEN c ELSE channels[i]]
  ELSE Append(channels, c)

\* The registry without the entry of an id.
Removed(id) ==
  IF \E d \in ToSet(channels) : d.id = id
  THEN RemoveAt(channels, CHOOSE i \in DOMAIN channels : channels[i].id = id)
  ELSE channels

\* A downlink configures a channel; the Modbus component drops its write.
UpsertChannel ==
  /\ at = "rest" /\ changes < MaxChanges
  /\ changes' = changes + 1
  /\ writeBusy' = FALSE
  /\ \E id \in Ids, kind \in Kinds, writable \in BOOLEAN :
       channels' = Upserted(Bound(id, kind, writable))
  /\ UNCHANGED <<twoWay, bus, at, steps, online, discovery, ended>>

\* A downlink removes a channel.
RemoveChannel ==
  /\ at = "rest" /\ changes < MaxChanges
  /\ changes' = changes + 1
  /\ writeBusy' = FALSE
  /\ \E id \in Ids : channels' = Removed(id)
  /\ UNCHANGED <<twoWay, bus, at, steps, online, discovery, ended>>

\* A downlink sets the pass-through mode.
SetMode ==
  /\ at = "rest" /\ changes < MaxChanges
  /\ changes' = changes + 1
  /\ writeBusy' = FALSE
  /\ twoWay' \in BOOLEAN
  /\ UNCHANGED <<channels, bus, at, steps, online, discovery, ended>>

\* The bus has carried out the write, or given it up.
WriteEnds ==
  /\ at = "rest" /\ writeBusy
  /\ writeBusy' = FALSE
  /\ UNCHANGED <<channels, twoWay, bus, at, steps, online, discovery, ended, changes>>

\* The next iteration.
LoopEnds ==
  /\ at = "rest" /\ at' = "mqtt"
  /\ UNCHANGED <<channels, twoWay, writeBusy, bus, steps, online, discovery, ended, changes>>

\* A restart keeps the stored channels and mode, and the broker its messages.
Restart ==
  /\ changes < MaxChanges
  /\ changes' = changes + 1
  /\ writeBusy' = FALSE
  /\ queue' = [i \in 0 .. Capacity - 1 |-> Empty]
  /\ head' = 0 /\ tail' = 0 /\ count' = 0 /\ latest' = 0 /\ ended' = 0
  /\ at' = "mqtt" /\ steps' = 0 /\ online' = FALSE
  /\ signature' = NoSignature /\ discovered' = {}
  /\ unsettled' = unsettled \union retained
  /\ UNCHANGED <<channels, twoWay, retained, described>>

Next ==
  \/ Connect \/ StayOffline \/ HandleMessage \/ MqttLoopEnds \/ LoseConnection
  \/ ProcessCommand \/ CoreEnds
  \/ UpsertChannel \/ RemoveChannel \/ SetMode \/ WriteEnds \/ LoopEnds
  \/ Restart

Spec == Init /\ [][Next]_vars

----------------------------------------------------------------------------
(* Properties *)

\* Type correctness; the registry holds one entry of an id.
TypeOK ==
  /\ channels \in Seq(Channel)
  /\ \A i, j \in DOMAIN channels : channels[i].id = channels[j].id => i = j
  /\ twoWay \in BOOLEAN /\ writeBusy \in BOOLEAN /\ online \in BOOLEAN
  /\ queue \in [0 .. Capacity - 1 -> Command \union {Empty}]
  /\ head \in 0 .. Capacity - 1 /\ tail \in 0 .. Capacity - 1
  /\ count \in 0 .. Capacity /\ latest \in 0 .. MaxCommands
  /\ at \in {"mqtt", "core", "rest"} /\ steps \in 0 .. BatchSize
  /\ discovered \subseteq Entity /\ retained \subseteq Entity /\ unsettled \subseteq Entity
  /\ described \in BOOLEAN /\ ended \in Nat /\ changes \in 0 .. MaxChanges

\* Every command accepted from MQTT gets exactly one of the outcome events
\* "executed", "rejected" and "execution-failed", in the order of arrival: those
\* without one are in the ring, and nothing else is.
CommandAccounting ==
  /\ ended + count = latest
  /\ \A i \in 1 .. count : Pending[i].sequence = ended + i
  /\ \A i \in 0 .. Capacity - 1 :
       queue[i] # Empty <=> \E k \in 1 .. count : i = (head + k - 1) % Capacity

\* A command waits only as long as the channel it was checked against is
\* configured as it was: no downlink that replaces or removes the channel, or
\* takes the bus for pass-through, comes between check and execution.
CommandMeetsItsChannel ==
  \A i \in 1 .. count :
    /\ ~twoWay
    /\ \E c \in ToSet(channels) :
         /\ c.id = Pending[i].id /\ c.version = Pending[i].version
         /\ Writable(c) /\ c.kind = Pending[i].kind

\* After mqtt_.loop() on a connection the broker holds the entity of every
\* channel and no other of this gateway, except for messages that failed: a
\* changed channel is published without a reconnect, and a reconnect restores
\* what a broker has forgotten. A switch of the pass-through mode is not seen.
EntitiesFollowChannels ==
  at = "core" /\ online /\ described = twoWay =>
    (retained \ Desired) \union (Desired \ retained) \subseteq unsettled
=============================================================================
